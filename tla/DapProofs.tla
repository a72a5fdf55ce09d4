------------------------------ MODULE DapProofs ------------------------------
(***************************************************************************)
(* A session of the debug adapter stops where it owes a stop, and a client *)
(* that has seen a stop is right about it, for any program, breakpoints    *)
(* and number of requests.                                                 *)
(***************************************************************************)
EXTENDS Dap, WellFoundedInduction, TLAPS

-----------------------------------------------------------------------------
(* The last of a set of places in a sequence.                              *)

LastOf(K) == IF K = {} THEN 0 ELSE Max(K)

\* A set of places up to n that is not empty has a last one.
LEMMA LastIsIn ==
  ASSUME NEW n \in Nat, NEW K, K \subseteq 1..n, K # {}
  PROVE  LastOf(K) \in K /\ \A k \in K : k <= LastOf(K)
<1> DEFINE R == OpToRel(<, Nat)
           N == {n - k : k \in K}
<1>1. IsWellFoundedOn(R, Nat)
  BY NatLessThanWellFounded
<1>2. \A m, k \in Nat : k < m => <<k, m>> \in R
  BY DEF OpToRel
<1>3. N \subseteq Nat /\ N # {}
  <2>1. \A k \in K : k \in 1..n
    OBVIOUS
  <2>2. \A k \in K : n - k \in Nat
    BY <2>1
  <2> QED BY <2>2
<1> HIDE DEF R, N
<1>4. PICK m \in N : \A k \in N : ~(<<k, m>> \in R)
  BY <1>1, <1>3, WFMin
<1>5. \A k \in N : m <= k
  <2> TAKE k \in N
  <2>1. k \in Nat /\ m \in Nat /\ ~(k < m)
    BY <1>2, <1>3, <1>4
  <2> QED BY <2>1
<1>6. PICK x \in K : m = n - x
  BY DEF N
<1>7. \A k \in K : n - k \in N
  BY DEF N
<1>8. \A k \in K : x >= k
  BY <1>5, <1>6, <1>7
<1>9. Max(K) \in K /\ \A k \in K : Max(K) >= k
  BY <1>6, <1>8 DEF Max
<1>10. \A k \in K : k <= Max(K)
  BY <1>9
<1> QED BY <1>9, <1>10 DEF LastOf

\* It is 0 or one of the places, and a later place is last.
LEMMA LastPlaces ==
  ASSUME NEW n \in Nat, NEW K, K \subseteq 1..n
  PROVE  /\ LastOf(K) \in 0..n
         /\ LastOf(K) # 0 => LastOf(K) \in K
         /\ LastOf(K \cup {n + 1}) = n + 1
<1>1. K \cup {n + 1} \subseteq 1..(n + 1) /\ n + 1 \in Nat /\ K \cup {n + 1} # {}
  OBVIOUS
<1>2. /\ LastOf(K \cup {n + 1}) \in K \cup {n + 1}
      /\ \A k \in K \cup {n + 1} : k <= LastOf(K \cup {n + 1})
  BY <1>1, LastIsIn
<1>3. LastOf(K \cup {n + 1}) = n + 1
  <2> DEFINE l == LastOf(K \cup {n + 1})
  <2>1. (l \in K \/ l = n + 1) /\ n + 1 <= l
    BY <1>2
  <2>2. \A k \in K : k \in 1..n
    OBVIOUS
  <2> HIDE DEF l
  <2>3. l \in K => l \in 1..n
    BY <2>2
  <2>4. l = n + 1
    BY <2>1, <2>3
  <2> QED BY <2>4 DEF l
<1>4. K = {} => LastOf(K) = 0
  BY DEF LastOf
<1>5. K # {} => LastOf(K) \in K
  BY LastIsIn
<1>6. LastOf(K) \in 0..n
  <2>1. 0 \in 0..n /\ \A k \in K : k \in 0..n
    OBVIOUS
  <2>2. CASE K = {}
    BY <1>4, <2>1, <2>2
  <2>3. CASE K # {}
    BY <1>5, <2>1, <2>3
  <2> QED BY <2>2, <2>3
<1> QED BY <1>3, <1>4, <1>5, <1>6

-----------------------------------------------------------------------------
(* What the record s of a session says, up to place i.                     *)

LineSets == BpSets \cup {{}}
Commands == Resumes \cup {"setBreakpoints", "pause", "inspect", "disconnect"}
Request == [id : Nat, command : Commands, lines : LineSets]
Message ==
  [t : {"response"}, id : Nat, command : Commands, lines : LineSets, ok : BOOLEAN]
    \cup [t : {"statement"}, why : {"pause", "breakpoint", "step", "none"}, line : Lines, depth : Nat]
    \cup [t : {"exited"}]

LastStop(s, i) == LastOf({k \in 1..i : IsStop(s[k])})
LastStatement(s, i) == LastOf({k \in 1..i : IsStatement(s[k])})
LastGrant(s, i, C) == LastOf({k \in 1..i : Granted(s[k], C)})

\* These look at the first i messages only, and at the next one when it comes.
LEMMA LastOnes ==
  ASSUME NEW s \in Seq(Message), NEW m \in Message, NEW C
  PROVE  LET n == Len(s)
             u == Append(s, m)
         IN  /\ LastStop(s, n) \in 0..n /\ LastStatement(s, n) \in 0..n /\ LastGrant(s, n, C) \in 0..n
             /\ LastStop(u, n) = LastStop(s, n) /\ LastStatement(u, n) = LastStatement(s, n)
             /\ LastGrant(u, n, C) = LastGrant(s, n, C)
             /\ LastStop(u, n + 1) = IF IsStop(m) THEN n + 1 ELSE LastStop(s, n)
             /\ LastStatement(u, n + 1) = IF IsStatement(m) THEN n + 1 ELSE LastStatement(s, n)
             /\ LastGrant(u, n + 1, C) = IF Granted(m, C) THEN n + 1 ELSE LastGrant(s, n, C)
             /\ LastGrant(s, n, C) # 0 => Granted(s[LastGrant(s, n, C)], C)
<1> DEFINE n == Len(s)
           u == Append(s, m)
<1>1. n \in Nat /\ \A k \in 1..n : u[k] = s[k]
  OBVIOUS
<1>2. u[n + 1] = m /\ 1..(n + 1) = 1..n \cup {n + 1} /\ n + 1 \notin 1..n
  OBVIOUS
<1> HIDE DEF n, u
<1>3. /\ {k \in 1..n : IsStop(u[k])} = {k \in 1..n : IsStop(s[k])}
      /\ {k \in 1..(n + 1) : IsStop(u[k])} =
           {k \in 1..n : IsStop(s[k])} \cup (IF IsStop(m) THEN {n + 1} ELSE {})
  BY <1>1, <1>2
<1>4. /\ {k \in 1..n : IsStatement(u[k])} = {k \in 1..n : IsStatement(s[k])}
      /\ {k \in 1..(n + 1) : IsStatement(u[k])} =
           {k \in 1..n : IsStatement(s[k])} \cup (IF IsStatement(m) THEN {n + 1} ELSE {})
  BY <1>1, <1>2
<1>5. /\ {k \in 1..n : Granted(u[k], C)} = {k \in 1..n : Granted(s[k], C)}
      /\ {k \in 1..(n + 1) : Granted(u[k], C)} =
           {k \in 1..n : Granted(s[k], C)} \cup (IF Granted(m, C) THEN {n + 1} ELSE {})
  BY <1>1, <1>2
<1>6. \A K : K \subseteq 1..n => /\ LastOf(K) \in 0..n /\ LastOf(K \cup {n + 1}) = n + 1 /\ K \cup {} = K
                                /\ (LastOf(K) # 0 => LastOf(K) \in K)
  BY <1>1, LastPlaces
<1>7. /\ LastStop(s, n) \in 0..n /\ LastStop(u, n) = LastStop(s, n)
      /\ LastStop(u, n + 1) = IF IsStop(m) THEN n + 1 ELSE LastStop(s, n)
  <2> DEFINE K == {k \in 1..n : IsStop(s[k])}
  <2>1. K \subseteq 1..n
    OBVIOUS
  <2>2. LastOf(K) \in 0..n /\ LastOf(K \cup {n + 1}) = n + 1 /\ K \cup {} = K
    BY <1>6, <2>1
  <2> QED BY <1>3, <2>2 DEF LastStop
<1>8. /\ LastStatement(s, n) \in 0..n /\ LastStatement(u, n) = LastStatement(s, n)
      /\ LastStatement(u, n + 1) = IF IsStatement(m) THEN n + 1 ELSE LastStatement(s, n)
  <2> DEFINE K == {k \in 1..n : IsStatement(s[k])}
  <2>1. K \subseteq 1..n
    OBVIOUS
  <2>2. LastOf(K) \in 0..n /\ LastOf(K \cup {n + 1}) = n + 1 /\ K \cup {} = K
    BY <1>6, <2>1
  <2> QED BY <1>4, <2>2 DEF LastStatement
<1>9. /\ LastGrant(s, n, C) \in 0..n /\ LastGrant(u, n, C) = LastGrant(s, n, C)
      /\ LastGrant(u, n + 1, C) = IF Granted(m, C) THEN n + 1 ELSE LastGrant(s, n, C)
      /\ LastGrant(s, n, C) # 0 => Granted(s[LastGrant(s, n, C)], C)
  <2> DEFINE K == {k \in 1..n : Granted(s[k], C)}
  <2>1. K \subseteq 1..n
    OBVIOUS
  <2>2. /\ LastOf(K) \in 0..n /\ LastOf(K \cup {n + 1}) = n + 1 /\ K \cup {} = K
        /\ LastOf(K) # 0 => LastOf(K) \in K
    BY <1>6, <2>1
  <2> QED BY <1>5, <2>2 DEF LastGrant
<1> QED BY <1>7, <1>8, <1>9 DEF n, u

-----------------------------------------------------------------------------
(* The controller follows the record.                                      *)

\* StopsWhenOwed, of a record.
Owed(s) ==
  LET j == Len(s)
      stop == LastStop(s, j - 1)
      went == LastGrant(s, j - 1, Resumes)
      paused == LastGrant(s, j - 1, {"pause"}) > IF went > stop THEN went ELSE stop
      set == LastGrant(s, j - 1, {"setBreakpoints"})
      before == LastStatement(s, j - 1)
      atBp == /\ s[j].line \in s[set].lines
              /\ before = 0 \/ s[before].line # s[j].line
      stepped == /\ went > stop
                 /\ \/ s[went].command = "stepIn"
                    \/ s[went].command = "next" /\ s[j].depth <= s[stop].depth
                    \/ s[went].command = "stepOut" /\ s[j].depth < s[stop].depth
  IN IsStatement(s[j]) =>
       s[j].why = IF paused THEN "pause" ELSE IF atBp THEN "breakpoint" ELSE IF stepped THEN "step" ELSE "none"

\* A pause, and a resume, that the program has not acted on yet.
PauseDue(s, n) == LastGrant(s, n, {"pause"}) >
                    IF LastGrant(s, n, Resumes) > LastStop(s, n) THEN LastGrant(s, n, Resumes) ELSE LastStop(s, n)
Going(s, n) == LastGrant(s, n, Resumes) > LastStop(s, n)

\* The breakpoints, the line before, the step and the pause that the controller
\* has are those of the record.
BpsFollow(s, n, c) ==
  LET set == LastGrant(s, n, {"setBreakpoints"}) IN set # 0 /\ c.bps = s[set].lines
LineFollows(s, n, c) ==
  c.prev_line = IF LastStatement(s, n) = 0 THEN 0 ELSE s[LastStatement(s, n)].line
StepFollows(s, n, c) ==
  IF Going(s, n)
  THEN /\ LastStop(s, n) # 0
       /\ c.step = [kind |-> Kind(s[LastGrant(s, n, Resumes)].command), depth |-> s[LastStop(s, n)].depth]
  ELSE c.step = Run
PauseFollows(s, n, c) == (c.pause_pending = TRUE) <=> PauseDue(s, n)
\* A stop leaves no pause, and is at the depth of the program.
StoppedNow(s, n, c, d) ==
  /\ c.pause_pending = FALSE /\ ~Going(s, n)
  /\ LastStop(s, n) # 0 /\ LastStop(s, n) = LastStatement(s, n)
  /\ s[LastStop(s, n)].depth = d

ControllerT == [bps : LineSets, step : [kind : {"run", "over", "in", "out"}, depth : Nat],
                pause_pending : BOOLEAN, prev_line : {0} \cup Lines]

Follows(s, c, ph, d) ==
  /\ c \in ControllerT
  /\ BpsFollow(s, Len(s), c) /\ LineFollows(s, Len(s), c) /\ StepFollows(s, Len(s), c)
  /\ IF ph = "stop" THEN StoppedNow(s, Len(s), c, d) ELSE PauseFollows(s, Len(s), c)

\* The decision at a statement is the one that is owed.
LEMMA DecisionOwed ==
  ASSUME NEW s \in Seq(Message), NEW c, NEW d \in Nat, NEW l \in Lines,
         c \in ControllerT, BpsFollow(s, Len(s), c), LineFollows(s, Len(s), c),
         StepFollows(s, Len(s), c), PauseFollows(s, Len(s), c),
         NEW m, m = [t |-> "statement", why |-> Reason(c, l, d), line |-> l, depth |-> d]
  PROVE  m \in Message /\ Owed(Append(s, m))
<1> DEFINE n == Len(s)
           u == Append(s, m)
           stop == LastStop(s, n)
           went == LastGrant(s, n, Resumes)
           set == LastGrant(s, n, {"setBreakpoints"})
           before == LastStatement(s, n)
<1>1. m \in Message
  BY DEF Reason, Message
<1>2. /\ n \in Nat /\ Len(u) = n + 1 /\ u[n + 1] = m /\ \A k \in 1..n : u[k] = s[k]
      /\ (n + 1) - 1 = n
  BY <1>1
<1>3. /\ LastStop(u, n) = stop /\ LastGrant(u, n, Resumes) = went
      /\ LastGrant(u, n, {"setBreakpoints"}) = set /\ LastStatement(u, n) = before
      /\ LastGrant(u, n, {"pause"}) = LastGrant(s, n, {"pause"})
      /\ stop \in 0..n /\ went \in 0..n /\ set \in 0..n /\ before \in 0..n
      /\ went # 0 => Granted(s[went], Resumes)
  BY <1>1, LastOnes
<1>4. m.line = l /\ m.depth = d /\ m.why = Reason(c, l, d) /\ IsStatement(m)
  BY DEF IsStatement
<1> HIDE DEF n, u, stop, went, set, before
<1>5. set \in 1..n /\ c.bps = s[set].lines /\ u[set] = s[set]
  BY <1>2, <1>3 DEF BpsFollow, set, n
<1>6. HitBp(c, l) <=> /\ l \in u[set].lines
                      /\ before = 0 \/ u[before].line # l
  <2>1. c.prev_line # l <=> (before = 0 \/ u[before].line # l)
    <3>1. CASE before = 0
      BY <3>1, LinesAssumption DEF LineFollows, before, n
    <3>2. CASE before # 0
      <4>1. before \in 1..n
        BY <1>2, <1>3, <3>2
      <4>2. c.prev_line = s[before].line
        BY <3>2 DEF LineFollows, before, n
      <4> QED BY <1>2, <3>2, <4>1, <4>2
    <3> QED BY <3>1, <3>2
  <2> QED BY <1>5, <2>1 DEF HitBp
<1>7. HitStep(c, d) <=> /\ went > stop
                        /\ \/ u[went].command = "stepIn"
                           \/ u[went].command = "next" /\ d <= u[stop].depth
                           \/ u[went].command = "stepOut" /\ d < u[stop].depth
  <2>1. CASE went > stop
    <3>1. went \in 1..n /\ stop \in 1..n
      BY <1>2, <1>3, <2>1 DEF StepFollows, Going, went, stop, n
    <3>2. c.step = [kind |-> Kind(u[went].command), depth |-> u[stop].depth]
      BY <1>2, <2>1, <3>1 DEF StepFollows, Going, went, stop, n
    <3>3. u[went].command \in Resumes
      BY <1>2, <1>3, <3>1 DEF Granted
    <3> QED BY <2>1, <3>2, <3>3 DEF HitStep, Kind, Resumes
  <2>2. CASE ~(went > stop)
    <3>1. c.step = Run
      BY <2>2 DEF StepFollows, Going, went, stop, n
    <3> QED BY <2>2, <3>1 DEF HitStep, Run
  <2> QED BY <2>1, <2>2
<1>8. c.pause_pending = TRUE <=> LastGrant(u, n, {"pause"}) > IF went > stop THEN went ELSE stop
  BY <1>3 DEF PauseFollows, PauseDue, went, stop, n
<1>9. c.pause_pending \in BOOLEAN
  BY DEF ControllerT
<1>10. Reason(c, l, d) = IF c.pause_pending = TRUE THEN "pause" ELSE IF HitBp(c, l) THEN "breakpoint"
                         ELSE IF HitStep(c, d) THEN "step" ELSE "none"
  BY <1>9 DEF Reason
<1>11. Owed(u)
  BY <1>2, <1>3, <1>4, <1>6, <1>7, <1>8, <1>10 DEF Owed
<1> QED BY <1>1, <1>11 DEF u

\* What is written that is no statement leaves the debt as it is.
LEMMA NoDebt ==
  ASSUME NEW s \in Seq(Message), NEW m \in Message, ~IsStatement(m)
  PROVE  Owed(Append(s, m))
<1>1. Append(s, m)[Len(Append(s, m))] = m
  OBVIOUS
<1> QED BY <1>1 DEF Owed

\* What each kind of message is.
LEMMA MessageKinds ==
  ASSUME NEW m \in Message
  PROVE  /\ IsStatement(m) => ~Granted(m, Resumes) /\ ~Granted(m, {"pause"}) /\ ~Granted(m, {"setBreakpoints"})
         /\ IsStop(m) <=> IsStatement(m) /\ m.why # "none"
         /\ m.t = "exited" => ~IsStatement(m) /\ ~Granted(m, Resumes) /\ ~Granted(m, {"pause"})
                                /\ ~Granted(m, {"setBreakpoints"})
BY DEF IsStatement, IsStop, Granted

\* A message that neither is a statement nor grants a resume, a pause or
\* breakpoints changes nothing the controller follows.
Neutral(m) == /\ ~IsStatement(m) /\ ~Granted(m, Resumes) /\ ~Granted(m, {"pause"})
              /\ ~Granted(m, {"setBreakpoints"})

\* The places the controller looks at are in the record.
LEMMA PlacesIn ==
  ASSUME NEW s \in Seq(Message), NEW m \in Message
  PROVE  LET n == Len(s)
             u == Append(s, m)
         IN  /\ n \in Nat /\ Len(u) = n + 1 /\ u[n + 1] = m /\ u \in Seq(Message)
             /\ \A k \in 1..n : u[k] = s[k]
             /\ LastStop(s, n) \in {0} \cup 1..n /\ LastStatement(s, n) \in {0} \cup 1..n
             /\ LastGrant(s, n, Resumes) \in {0} \cup 1..n /\ LastGrant(s, n, {"pause"}) \in {0} \cup 1..n
             /\ LastGrant(s, n, {"setBreakpoints"}) \in {0} \cup 1..n
<1> DEFINE n == Len(s)
           u == Append(s, m)
<1>1. n \in Nat /\ Len(u) = n + 1 /\ u[n + 1] = m /\ u \in Seq(Message) /\ \A k \in 1..n : u[k] = s[k]
  OBVIOUS
<1>2. /\ LastStop(s, n) \in 0..n /\ LastStatement(s, n) \in 0..n
      /\ LastGrant(s, n, Resumes) \in 0..n /\ LastGrant(s, n, {"pause"}) \in 0..n
      /\ LastGrant(s, n, {"setBreakpoints"}) \in 0..n
  BY LastOnes
<1> HIDE DEF n, u
<1>3. 0..n = {0} \cup 1..n
  BY <1>1
<1> QED BY <1>1, <1>2, <1>3 DEF n, u

\* The controller goes on following when something neutral is written.
LEMMA NeutralFollows ==
  ASSUME NEW s \in Seq(Message), NEW m \in Message, Neutral(m), NEW c, NEW ph, NEW d, Follows(s, c, ph, d)
  PROVE  Follows(Append(s, m), c, ph, d)
<1> DEFINE n == Len(s)
           u == Append(s, m)
           stop == LastStop(s, n)
           went == LastGrant(s, n, Resumes)
           set == LastGrant(s, n, {"setBreakpoints"})
           before == LastStatement(s, n)
<1>1. /\ n \in Nat /\ Len(u) = n + 1 /\ \A k \in 1..n : u[k] = s[k]
      /\ stop \in {0} \cup 1..n /\ before \in {0} \cup 1..n /\ went \in {0} \cup 1..n /\ set \in {0} \cup 1..n
  BY PlacesIn
<1>2. /\ LastStop(u, n + 1) = stop /\ LastStatement(u, n + 1) = before
      /\ LastGrant(u, n + 1, Resumes) = went /\ LastGrant(u, n + 1, {"setBreakpoints"}) = set
      /\ LastGrant(u, n + 1, {"pause"}) = LastGrant(s, n, {"pause"})
  BY LastOnes DEF Neutral, IsStop
<1> HIDE DEF n, u, stop, went, set, before
<1>3. BpsFollow(u, n + 1, c)
  BY <1>1, <1>2 DEF Follows, BpsFollow, set, n
<1>4. LineFollows(u, n + 1, c)
  BY <1>1, <1>2 DEF Follows, LineFollows, before, n
<1>5. Going(u, n + 1) <=> Going(s, n)
  BY <1>2 DEF Going, went, stop
<1>6. StepFollows(u, n + 1, c)
  <2>1. CASE Going(s, n)
    <3>1. stop # 0 /\ went # 0 /\ c.step = [kind |-> Kind(s[went].command), depth |-> s[stop].depth]
      BY <1>1, <2>1 DEF Follows, StepFollows, Going, went, stop, n
    <3> QED BY <1>1, <1>2, <1>5, <2>1, <3>1 DEF StepFollows
  <2>2. CASE ~Going(s, n)
    BY <1>5, <2>2 DEF Follows, StepFollows, n
  <2> QED BY <2>1, <2>2
<1>7. PauseDue(u, n + 1) <=> PauseDue(s, n)
  BY <1>2 DEF PauseDue, went, stop
<1>8. IF ph = "stop" THEN StoppedNow(u, n + 1, c, d) ELSE PauseFollows(u, n + 1, c)
  <2>1. CASE ph = "stop"
    <3>1. StoppedNow(s, n, c, d)
      BY <2>1 DEF Follows, n
    <3> QED BY <1>1, <1>2, <1>5, <2>1, <3>1 DEF StoppedNow, stop, before
  <2>2. CASE ph # "stop"
    BY <1>7, <2>2 DEF Follows, PauseFollows, n
  <2> QED BY <2>1, <2>2
<1> QED BY <1>1, <1>3, <1>4, <1>6, <1>8 DEF Follows, u

\* New breakpoints are those granted last.
LEMMA BreakpointsFollow ==
  ASSUME NEW s \in Seq(Message), NEW m \in Message, m.t = "response", m.ok = TRUE,
         m.command = "setBreakpoints", m.lines \in LineSets,
         NEW c, NEW ph, NEW d, Follows(s, c, ph, d)
  PROVE  Follows(Append(s, m), SetBreakpoints(c, m.lines), ph, d)
<1> DEFINE n == Len(s)
           u == Append(s, m)
           stop == LastStop(s, n)
           went == LastGrant(s, n, Resumes)
           before == LastStatement(s, n)
           e == SetBreakpoints(c, m.lines)
<1>1. /\ n \in Nat /\ Len(u) = n + 1 /\ u[n + 1] = m /\ \A k \in 1..n : u[k] = s[k]
      /\ stop \in {0} \cup 1..n /\ before \in {0} \cup 1..n /\ went \in {0} \cup 1..n
  BY PlacesIn
<1>0. ~IsStatement(m) /\ ~IsStop(m) /\ ~Granted(m, Resumes) /\ ~Granted(m, {"pause"}) /\ Granted(m, {"setBreakpoints"})
  BY DEF IsStatement, IsStop, Granted, Resumes
<1>2. /\ LastStop(u, n + 1) = stop /\ LastStatement(u, n + 1) = before
      /\ LastGrant(u, n + 1, Resumes) = went /\ LastGrant(u, n + 1, {"setBreakpoints"}) = n + 1
      /\ LastGrant(u, n + 1, {"pause"}) = LastGrant(s, n, {"pause"})
  BY <1>0, LastOnes
<1>9. /\ e \in ControllerT /\ e.bps = m.lines /\ e.step = c.step /\ e.pause_pending = c.pause_pending
      /\ e.prev_line = c.prev_line
  BY DEF SetBreakpoints, Follows, ControllerT
<1> HIDE DEF n, u, stop, went, before, e
<1>3. BpsFollow(u, n + 1, e)
  BY <1>1, <1>2, <1>9 DEF BpsFollow
<1>4. LineFollows(u, n + 1, e)
  BY <1>1, <1>2, <1>9 DEF Follows, LineFollows, before, n
<1>5. Going(u, n + 1) <=> Going(s, n)
  BY <1>2 DEF Going, went, stop
<1>6. StepFollows(u, n + 1, e)
  <2>1. CASE Going(s, n)
    <3>1. stop # 0 /\ went # 0 /\ c.step = [kind |-> Kind(s[went].command), depth |-> s[stop].depth]
      BY <1>1, <2>1 DEF Follows, StepFollows, Going, went, stop, n
    <3> QED BY <1>1, <1>2, <1>5, <1>9, <2>1, <3>1 DEF StepFollows
  <2>2. CASE ~Going(s, n)
    BY <1>5, <1>9, <2>2 DEF Follows, StepFollows, n
  <2> QED BY <2>1, <2>2
<1>7. PauseDue(u, n + 1) <=> PauseDue(s, n)
  BY <1>2 DEF PauseDue, went, stop
<1>8. IF ph = "stop" THEN StoppedNow(u, n + 1, e, d) ELSE PauseFollows(u, n + 1, e)
  <2>1. CASE ph = "stop"
    <3>1. StoppedNow(s, n, c, d)
      BY <2>1 DEF Follows, n
    <3> QED BY <1>1, <1>2, <1>5, <1>9, <2>1, <3>1 DEF StoppedNow, stop, before
  <2>2. CASE ph # "stop"
    BY <1>7, <1>9, <2>2 DEF Follows, PauseFollows, n
  <2> QED BY <2>1, <2>2
<1> QED BY <1>1, <1>3, <1>4, <1>6, <1>8, <1>9 DEF Follows, u, e

\* A pause granted is due, when the program is not stopped.
LEMMA PauseFollowed ==
  ASSUME NEW s \in Seq(Message), NEW m \in Message, m.t = "response", m.ok = TRUE, m.command = "pause",
         NEW c, NEW ph, NEW d, Follows(s, c, ph, d)
  PROVE  Follows(Append(s, m), IF ph = "stop" THEN c ELSE RequestPause(c), ph, d)
<1> DEFINE n == Len(s)
           u == Append(s, m)
           stop == LastStop(s, n)
           went == LastGrant(s, n, Resumes)
           set == LastGrant(s, n, {"setBreakpoints"})
           before == LastStatement(s, n)
           e == IF ph = "stop" THEN c ELSE RequestPause(c)
<1>1. /\ n \in Nat /\ Len(u) = n + 1 /\ \A k \in 1..n : u[k] = s[k]
      /\ stop \in {0} \cup 1..n /\ before \in {0} \cup 1..n /\ went \in {0} \cup 1..n /\ set \in {0} \cup 1..n
  BY PlacesIn
<1>0. ~IsStatement(m) /\ ~IsStop(m) /\ ~Granted(m, Resumes) /\ Granted(m, {"pause"}) /\ ~Granted(m, {"setBreakpoints"})
  BY DEF IsStatement, IsStop, Granted, Resumes
<1>2. /\ LastStop(u, n + 1) = stop /\ LastStatement(u, n + 1) = before
      /\ LastGrant(u, n + 1, Resumes) = went /\ LastGrant(u, n + 1, {"setBreakpoints"}) = set
      /\ LastGrant(u, n + 1, {"pause"}) = n + 1
  BY <1>0, LastOnes
<1>9. /\ e \in ControllerT /\ e.bps = c.bps /\ e.step = c.step /\ e.prev_line = c.prev_line
      /\ e.pause_pending = IF ph = "stop" THEN c.pause_pending ELSE TRUE
  BY DEF RequestPause, Follows, ControllerT
<1> HIDE DEF n, u, stop, went, set, before, e
<1>3. BpsFollow(u, n + 1, e)
  BY <1>1, <1>2, <1>9 DEF Follows, BpsFollow, set, n
<1>4. LineFollows(u, n + 1, e)
  BY <1>1, <1>2, <1>9 DEF Follows, LineFollows, before, n
<1>5. Going(u, n + 1) <=> Going(s, n)
  BY <1>2 DEF Going, went, stop
<1>6. StepFollows(u, n + 1, e)
  <2>1. CASE Going(s, n)
    <3>1. stop # 0 /\ went # 0 /\ c.step = [kind |-> Kind(s[went].command), depth |-> s[stop].depth]
      BY <1>1, <2>1 DEF Follows, StepFollows, Going, went, stop, n
    <3> QED BY <1>1, <1>2, <1>5, <1>9, <2>1, <3>1 DEF StepFollows
  <2>2. CASE ~Going(s, n)
    BY <1>5, <1>9, <2>2 DEF Follows, StepFollows, n
  <2> QED BY <2>1, <2>2
<1>7. PauseDue(u, n + 1)
  BY <1>1, <1>2 DEF PauseDue
<1>8. IF ph = "stop" THEN StoppedNow(u, n + 1, e, d) ELSE PauseFollows(u, n + 1, e)
  <2>1. CASE ph = "stop"
    <3>1. StoppedNow(s, n, c, d)
      BY <2>1 DEF Follows, n
    <3> QED BY <1>1, <1>2, <1>5, <1>9, <2>1, <3>1 DEF StoppedNow, stop, before
  <2>2. CASE ph # "stop"
    BY <1>7, <1>9, <2>2 DEF PauseFollows
  <2> QED BY <2>1, <2>2
<1> QED BY <1>1, <1>3, <1>4, <1>6, <1>8, <1>9 DEF Follows, u, e

\* A resume granted is the step the program takes, from the depth of the stop.
LEMMA ResumeFollowed ==
  ASSUME NEW s \in Seq(Message), NEW m \in Message, m.t = "response", m.ok = TRUE, m.command \in Resumes,
         NEW c, NEW d \in Nat, Follows(s, c, "stop", d)
  PROVE  Follows(Append(s, m), Stepping(c, Kind(m.command), d), "between", d)
<1> DEFINE n == Len(s)
           u == Append(s, m)
           stop == LastStop(s, n)
           set == LastGrant(s, n, {"setBreakpoints"})
           before == LastStatement(s, n)
           e == Stepping(c, Kind(m.command), d)
<1>1. /\ n \in Nat /\ Len(u) = n + 1 /\ u[n + 1] = m /\ \A k \in 1..n : u[k] = s[k]
      /\ stop \in {0} \cup 1..n /\ before \in {0} \cup 1..n /\ set \in {0} \cup 1..n
      /\ LastGrant(s, n, {"pause"}) \in {0} \cup 1..n
  BY PlacesIn
<1>0. ~IsStatement(m) /\ ~IsStop(m) /\ Granted(m, Resumes) /\ ~Granted(m, {"pause"}) /\ ~Granted(m, {"setBreakpoints"})
  BY DEF IsStatement, IsStop, Granted, Resumes
<1>2. /\ LastStop(u, n + 1) = stop /\ LastStatement(u, n + 1) = before
      /\ LastGrant(u, n + 1, Resumes) = n + 1 /\ LastGrant(u, n + 1, {"setBreakpoints"}) = set
      /\ LastGrant(u, n + 1, {"pause"}) = LastGrant(s, n, {"pause"})
  BY <1>0, LastOnes
<1>8. Kind(m.command) \in {"run", "over", "in", "out"}
  BY DEF Kind, Resumes
<1>9. /\ e \in ControllerT /\ e.bps = c.bps /\ e.prev_line = c.prev_line /\ e.pause_pending = c.pause_pending
      /\ e.step = [kind |-> Kind(m.command), depth |-> d]
  <2>1. c \in ControllerT
    BY DEF Follows
  <2>2. [kind |-> Kind(m.command), depth |-> d] \in [kind : {"run", "over", "in", "out"}, depth : Nat]
    BY <1>8
  <2> QED BY <2>1, <2>2 DEF Stepping, ControllerT
<1>10. StoppedNow(s, n, c, d)
  BY DEF Follows
<1> HIDE DEF n, u, stop, set, before, e
<1>11. stop \in 1..n /\ s[stop].depth = d /\ c.pause_pending = FALSE
  BY <1>1, <1>10 DEF StoppedNow, stop
<1>3. BpsFollow(u, n + 1, e)
  BY <1>1, <1>2, <1>9 DEF Follows, BpsFollow, set, n
<1>4. LineFollows(u, n + 1, e)
  BY <1>1, <1>2, <1>9 DEF Follows, LineFollows, before, n
<1>5. Going(u, n + 1)
  BY <1>1, <1>2, <1>11 DEF Going
<1>6. StepFollows(u, n + 1, e)
  BY <1>1, <1>2, <1>5, <1>9, <1>11 DEF StepFollows
<1>7. ~PauseDue(u, n + 1)
  <2>1. \A k \in {0} \cup 1..n : ~(k > n + 1)
    BY <1>1
  <2> QED BY <1>1, <1>2, <1>11, <2>1 DEF PauseDue
<1>12. PauseFollows(u, n + 1, e)
  BY <1>7, <1>9, <1>11 DEF PauseFollows
<1> QED BY <1>1, <1>3, <1>4, <1>6, <1>9, <1>12 DEF Follows, u, e

\* A statement reached: the line is that of the record, and a stop ends the step
\* and the pause.
LEMMA StatementFollowed ==
  ASSUME NEW s \in Seq(Message), NEW c, NEW d \in Nat, NEW l \in Lines, NEW why,
         NEW m \in Message, m = [t |-> "statement", why |-> why, line |-> l, depth |-> d],
         Follows(s, c, "drain", d)
  PROVE  IF why = "none" THEN Follows(Append(s, m), Passed(c, l), "between", d)
         ELSE Follows(Append(s, m), Stopped(c, l), "stop", d)
<1> DEFINE n == Len(s)
           u == Append(s, m)
           stop == LastStop(s, n)
           went == LastGrant(s, n, Resumes)
           set == LastGrant(s, n, {"setBreakpoints"})
           e == IF why = "none" THEN Passed(c, l) ELSE Stopped(c, l)
<1>1. /\ n \in Nat /\ Len(u) = n + 1 /\ u[n + 1] = m /\ \A k \in 1..n : u[k] = s[k]
      /\ stop \in {0} \cup 1..n /\ went \in {0} \cup 1..n /\ set \in {0} \cup 1..n
  BY PlacesIn
<1>0. /\ IsStatement(m) /\ ~Granted(m, Resumes) /\ ~Granted(m, {"pause"}) /\ ~Granted(m, {"setBreakpoints"})
      /\ IsStop(m) <=> why # "none"
  BY DEF IsStatement, IsStop, Granted
<1>2. /\ LastStop(u, n + 1) = (IF why = "none" THEN stop ELSE n + 1) /\ LastStatement(u, n + 1) = n + 1
      /\ LastGrant(u, n + 1, Resumes) = went /\ LastGrant(u, n + 1, {"setBreakpoints"}) = set
      /\ LastGrant(u, n + 1, {"pause"}) = LastGrant(s, n, {"pause"})
  BY <1>0, LastOnes
<1>9. /\ e \in ControllerT /\ e.bps = c.bps /\ e.prev_line = l
      /\ e.pause_pending = (IF why = "none" THEN c.pause_pending ELSE FALSE)
      /\ e.step = (IF why = "none" THEN c.step ELSE Run)
  <2>1. c \in ControllerT /\ Run \in [kind : {"run", "over", "in", "out"}, depth : Nat]
    BY DEF Follows, Run
  <2> QED BY <2>1 DEF Passed, Stopped, ControllerT
<1>10. PauseFollows(s, n, c)
  BY DEF Follows
<1> HIDE DEF n, u, stop, went, set, e
<1>3. BpsFollow(u, n + 1, e)
  BY <1>1, <1>2, <1>9 DEF Follows, BpsFollow, set, n
<1>4. LineFollows(u, n + 1, e)
  BY <1>1, <1>2, <1>9 DEF LineFollows
<1>5. CASE why = "none"
  <2>5. Going(u, n + 1) <=> Going(s, n)
    BY <1>2, <1>5 DEF Going, went, stop
  <2>6. StepFollows(u, n + 1, e)
    <3>1. CASE Going(s, n)
      <4>1. stop # 0 /\ went # 0 /\ c.step = [kind |-> Kind(s[went].command), depth |-> s[stop].depth]
        BY <1>1, <3>1 DEF Follows, StepFollows, Going, went, stop, n
      <4> QED BY <1>1, <1>2, <1>5, <1>9, <2>5, <3>1, <4>1 DEF StepFollows
    <3>2. CASE ~Going(s, n)
      BY <1>5, <1>9, <2>5, <3>2 DEF Follows, StepFollows, n
    <3> QED BY <3>1, <3>2
  <2>7. PauseDue(u, n + 1) <=> PauseDue(s, n)
    BY <1>2, <1>5 DEF PauseDue, went, stop
  <2>8. PauseFollows(u, n + 1, e)
    BY <1>5, <1>9, <1>10, <2>7 DEF PauseFollows
  <2> QED BY <1>1, <1>3, <1>4, <1>5, <1>9, <2>6, <2>8 DEF Follows, u, e
<1>6. CASE why # "none"
  <2>1. ~Going(u, n + 1)
    <3>1. \A k \in {0} \cup 1..n : ~(k > n + 1)
      BY <1>1
    <3> QED BY <1>1, <1>2, <1>6, <3>1 DEF Going
  <2>2. StepFollows(u, n + 1, e)
    BY <1>6, <1>9, <2>1 DEF StepFollows
  <2>3. StoppedNow(u, n + 1, e, d)
    BY <1>1, <1>2, <1>6, <1>9, <2>1 DEF StoppedNow
  <2> QED BY <1>1, <1>3, <1>4, <1>6, <1>9, <2>2, <2>3 DEF Follows, u, e
<1> QED BY <1>5, <1>6

-----------------------------------------------------------------------------
(* The inductive invariant.                                                *)

Typed ==
  /\ view \in {"running", "stopped", "over", "left"} /\ requests \in Nat
  /\ chan \in Seq(Request) /\ out \in Seq(Message) /\ read \in 0..Len(out)
  /\ phase \in {"between", "drain", "stop", "tail", "gone"}
  /\ depth \in Nat /\ left \in Nat /\ line \in {0} \cup Lines
  /\ phase \in {"drain", "stop"} => line \in Lines

\* Requests to resume and to inspect reach a program that is stopped, a request
\* to resume ends that, and to disconnect is a client's last.
Steers(r) == r.command \in Resumes \cup {"inspect"}
Orderly(ch, ph, v) ==
  /\ \A i \in 1..Len(ch) : Steers(ch[i]) => ph = "stop"
  /\ \A i, k \in 1..Len(ch) : i < k /\ ch[i].command \in Resumes => ~Steers(ch[k])
  /\ \A i \in 1..Len(ch) : ch[i].command = "disconnect" => i = Len(ch) /\ v = "left"
Quiet(ch) == \A i \in 1..Len(ch) : ch[i].command \notin Resumes

\* A client that knows of a stop has not asked to go on, nor has one that could
\* still learn of it.
KnowsStop(v, ph, ch) == v = "stopped" => ph = "stop" /\ Quiet(ch)
UnseenStop(v, ph, ch, o, r) ==
  \A k \in 1..Len(o) : k > r /\ IsStop(o[k]) /\ v # "left" =>
    /\ v = "running" /\ ph = "stop" /\ Quiet(ch)
    /\ \A i \in 1..Len(o) : i > r /\ IsStop(o[i]) => i = k
Ended(v, ph, o) ==
  /\ v = "over" => ph \in {"tail", "gone"}
  /\ \A k \in 1..Len(o) : o[k].t = "exited" => ph \in {"tail", "gone"}
Refuses(o) == \A k \in 1..Len(o) : o[k].t = "response" /\ o[k].ok = FALSE => o[k].command \in {"setBreakpoints", "pause"}

IInv ==
  /\ Typed /\ Owed(out)
  /\ phase # "gone" => Follows(out, ctl, phase, depth)
  /\ Orderly(chan, phase, view) /\ KnowsStop(view, phase, chan)
  /\ UnseenStop(view, phase, chan, out, read) /\ Ended(view, phase, out) /\ Refuses(out)

-----------------------------------------------------------------------------
(* What a step does to it.                                                 *)

\* A request taken from the channel: what is left is as orderly.
LEMMA Taken ==
  ASSUME NEW ch \in Seq(Request), NEW ph, NEW v, ch # << >>, Orderly(ch, ph, v)
  PROVE  /\ Head(ch) \in Request /\ Tail(ch) \in Seq(Request)
         /\ Steers(Head(ch)) => ph = "stop"
         /\ Orderly(Tail(ch), ph, v) /\ (Quiet(ch) => Quiet(Tail(ch)) /\ Head(ch).command \notin Resumes)
         /\ Head(ch).command \in Resumes => ~Quiet(ch) /\ \A p : Orderly(Tail(ch), p, v)
         /\ Head(ch).command = "disconnect" => v = "left" /\ \A p : Orderly(Tail(ch), p, v)
<1>1. /\ Len(ch) \in Nat /\ 1 \in 1..Len(ch) /\ Head(ch) = ch[1] /\ Tail(ch) \in Seq(Request)
      /\ Len(Tail(ch)) = Len(ch) - 1 /\ ch[1] \in Request
  OBVIOUS
<1>2. \A i \in 1..Len(Tail(ch)) : Tail(ch)[i] = ch[i + 1] /\ i + 1 \in 1..Len(ch) /\ 1 < i + 1 /\ i \in Nat
  <2> TAKE i \in 1..Len(Tail(ch))
  <2>1. Tail(ch)[i] = ch[i + 1]
    OBVIOUS
  <2> DEFINE n == Len(ch)
             t == Len(Tail(ch))
  <2>2. n \in Nat /\ t = n - 1 /\ i \in 1..t
    <3>1. n \in Nat /\ t = n - 1
      BY <1>1, Zenon
    <3>2. i \in 1..t
      BY Zenon
    <3> QED BY <3>1, <3>2
  <2> HIDE DEF n, t
  <2>3. i + 1 \in 1..n /\ 1 < i + 1 /\ i \in Nat
    BY <2>2
  <2> QED BY <2>1, <2>3 DEF n
<1>3. \A i, k \in 1..Len(Tail(ch)) : i < k => i + 1 < k + 1
  BY <1>2
<1>4. \A i \in 1..Len(Tail(ch)) : i + 1 = Len(ch) => i = Len(Tail(ch))
  <2> DEFINE n == Len(ch)
             t == Len(Tail(ch))
  <2>1. n \in Nat /\ t = n - 1
    BY <1>1, Zenon
  <2> HIDE DEF n, t
  <2>2. \A i \in 1..t : i + 1 = n => i = t
    BY <2>1
  <2> QED BY <2>2 DEF n, t
<1>5. Orderly(Tail(ch), ph, v)
  BY <1>2, <1>3, <1>4 DEF Orderly
<1>6. (Steers(ch[1]) => ph = "stop") /\ (ch[1].command = "disconnect" => 1 = Len(ch) /\ v = "left")
  BY <1>1 DEF Orderly
<1>7. Quiet(ch) => Quiet(Tail(ch)) /\ ch[1].command \notin Resumes
  BY <1>1, <1>2 DEF Quiet
<1>8. ASSUME ch[1].command \in Resumes, NEW p PROVE ~Quiet(ch) /\ Orderly(Tail(ch), p, v)
  <2>1. \A i \in 1..Len(Tail(ch)) : ~Steers(Tail(ch)[i])
    BY <1>1, <1>2, <1>8 DEF Orderly
  <2> QED BY <1>1, <1>5, <1>8, <2>1 DEF Orderly, Quiet
<1>9. ASSUME ch[1].command = "disconnect", NEW p PROVE Orderly(Tail(ch), p, v)
  <2>1. \A k \in 1..Len(Tail(ch)) : FALSE
    <3> DEFINE n == Len(ch)
               t == Len(Tail(ch))
    <3>1. n = 1 /\ t = n - 1
      BY <1>1, <1>6, <1>9
    <3> HIDE DEF n, t
    <3>2. \A k \in 1..t : FALSE
      BY <3>1
    <3> QED BY <3>2 DEF t
  <2> QED BY <2>1 DEF Orderly
<1> QED BY <1>1, <1>5, <1>6, <1>7, <1>8, <1>9

\* A request sent.
LEMMA Sent ==
  ASSUME NEW ch \in Seq(Request), NEW r \in Request, NEW ph, NEW v, Orderly(ch, ph, v), v # "left",
         Steers(r) => ph = "stop" /\ Quiet(ch), NEW w, r.command = "disconnect" <=> w = "left"
  PROVE  /\ Append(ch, r) \in Seq(Request) /\ Orderly(Append(ch, r), ph, w)
         /\ Quiet(ch) /\ r.command \notin Resumes => Quiet(Append(ch, r))
<1> DEFINE u == Append(ch, r)
<1>1. /\ Len(ch) \in Nat /\ u \in Seq(Request) /\ Len(u) = Len(ch) + 1 /\ u[Len(ch) + 1] = r
      /\ \A i \in 1..Len(ch) : u[i] = ch[i] /\ i \in Nat /\ i < Len(ch) + 1
      /\ \A i \in 1..(Len(ch) + 1) : i \in 1..Len(ch) \/ i = Len(ch) + 1
  OBVIOUS
<1> HIDE DEF u
<1>2. \A i \in 1..Len(u) : Steers(u[i]) => ph = "stop"
  BY <1>1 DEF Orderly
<1>3. \A i, k \in 1..Len(u) : i < k /\ u[i].command \in Resumes => ~Steers(u[k])
  <2> TAKE i \in 1..Len(u), k \in 1..Len(u)
  <2>1. CASE k \in 1..Len(ch)
    <3>1. i < k => i \in 1..Len(ch)
      BY <1>1, <2>1
    <3> QED BY <1>1, <2>1, <3>1 DEF Orderly
  <2>2. CASE k = Len(ch) + 1
    <3>1. i < k => i \in 1..Len(ch)
      BY <1>1, <2>2
    <3> QED BY <1>1, <2>2, <3>1 DEF Quiet
  <2> QED BY <1>1, <2>1, <2>2
<1>4. \A i \in 1..Len(u) : u[i].command = "disconnect" => i = Len(u) /\ w = "left"
  BY <1>1 DEF Orderly
<1>5. Quiet(ch) /\ r.command \notin Resumes => Quiet(u)
  BY <1>1 DEF Quiet
<1> QED BY <1>1, <1>2, <1>3, <1>4, <1>5 DEF Orderly, u

\* A request of the client.
LEMMA AskKeeps ==
  ASSUME IInv, NEW command \in Commands, NEW lines \in LineSets, Ask(command, lines),
         view # "left", view' \in {"running", "stopped", "over", "left"},
         command = "disconnect" <=> view' = "left",
         command \in Resumes \cup {"inspect"} => view = "stopped",
         command \in Resumes => view' = "running",
         command \notin Resumes \cup {"disconnect"} => view' = view
  PROVE  IInv'
<1> DEFINE r == [id |-> requests + 1, command |-> command, lines |-> lines]
<1>1. /\ chan' = Append(chan, r) /\ requests' = requests + 1 /\ out' = out /\ read' = read /\ phase' = phase
      /\ ctl' = ctl /\ line' = line /\ depth' = depth /\ left' = left
  BY DEF Ask
<1>2. r \in Request /\ r.command = command
  BY DEF IInv, Typed, Request
<1> HIDE DEF r
<1>3. Steers(r) => phase = "stop" /\ Quiet(chan) /\ view = "stopped"
  BY <1>2 DEF Steers, IInv, KnowsStop
<1>4. /\ chan' \in Seq(Request) /\ Orderly(chan', phase, view')
      /\ Quiet(chan) /\ command \notin Resumes => Quiet(chan')
  BY <1>1, <1>2, <1>3, Sent DEF IInv, Typed
<1>5. Typed'
  BY <1>1, <1>4 DEF IInv, Typed
<1>6. KnowsStop(view', phase, chan')
  BY <1>4 DEF IInv, KnowsStop, Resumes
<1>7. UnseenStop(view', phase, chan', out, read)
  <2> SUFFICES ASSUME NEW k \in 1..Len(out), k > read, IsStop(out[k]), view' # "left"
               PROVE  /\ view' = "running" /\ phase = "stop" /\ Quiet(chan')
                      /\ \A i \in 1..Len(out) : i > read /\ IsStop(out[i]) => i = k
    BY DEF UnseenStop
  <2>1. /\ view = "running" /\ phase = "stop" /\ Quiet(chan)
        /\ \A i \in 1..Len(out) : i > read /\ IsStop(out[i]) => i = k
    BY DEF IInv, UnseenStop
  <2>2. command \notin Resumes \cup {"inspect", "disconnect"}
    BY <2>1
  <2> QED BY <1>4, <2>1, <2>2
<1>8. Ended(view', phase, out)
  BY DEF IInv, Ended
<1> QED BY <1>1, <1>4, <1>5, <1>6, <1>7, <1>8 DEF IInv

\* A request answered: the phase stays, or the answer lets a stopped program go
\* on, or a client that has left is let go.
LEMMA AnswerKeeps ==
  ASSUME IInv, chan # << >>, NEW ok \in BOOLEAN, Answers(ok), Unseen,
         UNCHANGED <<line, depth, left>>,
         \/ phase' = phase
         \/ phase = "stop" /\ phase' = "between" /\ ~Quiet(chan)
         \/ phase' = "gone" /\ view = "left",
         Orderly(Tail(chan), phase', view),
         ok = FALSE => Head(chan).command \in {"setBreakpoints", "pause"},
         phase' # "gone" => Follows(out', ctl', phase', depth)
  PROVE  IInv'
<1> DEFINE m == Response(Head(chan), ok)
           n == Len(out)
<1>1. /\ chan' = Tail(chan) /\ Tail(chan) \in Seq(Request) /\ Head(chan) \in Request
      /\ Quiet(chan) => Quiet(Tail(chan))
  BY Taken DEF IInv, Typed, Answers
<1>2. m \in Message /\ m.t = "response" /\ m.ok = ok /\ m.command = Head(chan).command /\ ~IsStatement(m) /\ ~IsStop(m)
  BY <1>1 DEF Response, Message, Request, IsStatement, IsStop
<1>3. out' = Append(out, m) /\ view' = view /\ requests' = requests /\ read' = read
  BY DEF Answers, Unseen
<1>4. Owed(out')
  BY <1>2, <1>3, NoDebt DEF IInv, Typed
<1> HIDE DEF m
<1>5. /\ n \in Nat /\ Len(out') = n + 1 /\ out'[n + 1] = m /\ out' \in Seq(Message)
      /\ \A k \in 1..n : out'[k] = out[k]
  BY <1>2, <1>3, PlacesIn DEF IInv, Typed
<1> HIDE DEF n
<1>6. \A k \in 1..(n + 1) : k \in 1..n \/ k = n + 1
  BY <1>5
<1>7. Typed'
  <2>1. read \in 0..n
    BY DEF IInv, Typed, n
  <2>2. read' \in 0..Len(out')
    BY <1>3, <1>5, <2>1
  <2> QED BY <1>1, <1>3, <1>5, <2>2 DEF IInv, Typed
<1>8. KnowsStop(view, phase', chan')
  BY <1>1 DEF IInv, KnowsStop
<1>9. UnseenStop(view, phase', chan', out', read)
  <2> SUFFICES ASSUME NEW k \in 1..(n + 1), k > read, IsStop(out'[k]), view # "left"
               PROVE  /\ view = "running" /\ phase' = "stop" /\ Quiet(chan')
                      /\ \A i \in 1..(n + 1) : i > read /\ IsStop(out'[i]) => i = k
    BY <1>5 DEF UnseenStop
  <2>1. \A i \in 1..(n + 1) : IsStop(out'[i]) => i \in 1..n /\ IsStop(out[i])
    BY <1>2, <1>5, <1>6
  <2>2. /\ view = "running" /\ phase = "stop" /\ Quiet(chan)
        /\ \A i \in 1..n : i > read /\ IsStop(out[i]) => i = k
    BY <2>1 DEF IInv, UnseenStop, n
  <2> QED BY <1>1, <2>1, <2>2
<1>10. Ended(view, phase', out')
  <2>1. \A k \in 1..(n + 1) : out'[k].t = "exited" => phase \in {"tail", "gone"}
    BY <1>2, <1>5, <1>6 DEF IInv, Ended, n
  <2>2. phase \in {"tail", "gone"} => phase' \in {"tail", "gone"}
    OBVIOUS
  <2> QED BY <1>5, <2>1, <2>2 DEF IInv, Ended
<1>11. Refuses(out')
  BY <1>2, <1>5, <1>6 DEF IInv, Refuses, n
<1>12. depth' = depth /\ Orderly(chan', phase', view)
  BY <1>1
<1> QED BY <1>3, <1>4, <1>7, <1>8, <1>9, <1>10, <1>11, <1>12 DEF IInv

-----------------------------------------------------------------------------
(* The client's steps.                                                     *)

\* A client asks for breakpoints.
LEMMA AskBreakpointsKeeps == ASSUME IInv, AskBreakpoints PROVE IInv'
<1>1. PICK lines \in BpSets : Ask("setBreakpoints", lines)
  BY DEF AskBreakpoints
<1>2. view \in {"running", "stopped"} /\ view' = view /\ lines \in LineSets
  BY DEF AskBreakpoints, LineSets
<1> QED BY <1>1, <1>2, AskKeeps DEF Commands, Resumes

\* A client asks for a pause.
LEMMA AskPauseKeeps == ASSUME IInv, AskPause PROVE IInv'
<1>1. Ask("pause", {}) /\ view = "running" /\ view' = view /\ {} \in LineSets
  BY DEF AskPause, LineSets
<1> QED BY <1>1, AskKeeps DEF Commands, Resumes

\* A client looks at the stop it knows of.
LEMMA AskInspectKeeps == ASSUME IInv, AskInspect PROVE IInv'
<1>1. Ask("inspect", {}) /\ view = "stopped" /\ view' = view /\ {} \in LineSets
  BY DEF AskInspect, LineSets
<1> QED BY <1>1, AskKeeps DEF Commands, Resumes

\* A client goes on from the stop it knows of.
LEMMA AskResumeKeeps == ASSUME IInv, AskResume PROVE IInv'
<1>1. PICK command \in Resumes : Ask(command, {})
  BY DEF AskResume
<1>2. view = "stopped" /\ view' = "running" /\ {} \in LineSets
  BY DEF AskResume, LineSets
<1> QED BY <1>1, <1>2, AskKeeps DEF Commands, Resumes

\* A client leaves.
LEMMA AskDisconnectKeeps == ASSUME IInv, AskDisconnect PROVE IInv'
<1>1. Ask("disconnect", {}) /\ view # "left" /\ view' = "left" /\ {} \in LineSets
  BY DEF AskDisconnect, LineSets
<1> QED BY <1>1, AskKeeps DEF Commands, Resumes

\* A client reads a message: it learns of a stop when there is one.
LEMMA ReceiveKeeps == ASSUME IInv, Receive PROVE IInv'
<1> DEFINE m == out[read + 1]
<1>1. /\ read < Len(out) /\ read' = read + 1 /\ requests' = requests /\ chan' = chan /\ out' = out /\ phase' = phase
      /\ ctl' = ctl /\ line' = line /\ depth' = depth /\ left' = left
  BY DEF Receive
<1>2. read \in Nat /\ Len(out) \in Nat /\ read + 1 \in 1..Len(out) /\ read' \in 0..Len(out) /\ m \in Message
  BY <1>1 DEF IInv, Typed
<1>3. IsStop(m) => m.t # "exited"
  BY DEF IsStop, IsStatement
<1>4. view' = IF view = "left" THEN "left" ELSE IF IsStop(m) THEN "stopped"
              ELSE IF m.t = "exited" THEN "over" ELSE view
  BY <1>1, <1>3 DEF Receive
<1> HIDE DEF m
<1>5. IsStop(m) /\ view # "left" => view = "running" /\ phase = "stop" /\ Quiet(chan)
  BY <1>2 DEF m, IInv, UnseenStop
<1>6. m.t = "exited" => phase \in {"tail", "gone"}
  BY <1>2 DEF m, IInv, Ended
<1>7. view' \in {"running", "stopped", "over", "left"} /\ (view' = "left" <=> view = "left")
  BY <1>4 DEF IInv, Typed
<1>8. Typed'
  BY <1>1, <1>2, <1>7 DEF IInv, Typed
<1>9. Orderly(chan, phase, view')
  BY <1>7 DEF IInv, Orderly
<1>10. KnowsStop(view', phase, chan)
  BY <1>4, <1>5 DEF IInv, KnowsStop
<1>11. UnseenStop(view', phase, chan, out, read')
  <2> SUFFICES ASSUME NEW k \in 1..Len(out), k > read', IsStop(out[k]), view' # "left"
               PROVE  /\ view' = "running" /\ phase = "stop" /\ Quiet(chan)
                      /\ \A i \in 1..Len(out) : i > read' /\ IsStop(out[i]) => i = k
    BY DEF UnseenStop
  <2>1. k > read /\ read + 1 # k /\ read + 1 > read /\ \A i \in 1..Len(out) : i > read' => i > read
    BY <1>1, <1>2
  <2>2. /\ view = "running" /\ phase = "stop" /\ Quiet(chan)
        /\ \A i \in 1..Len(out) : i > read /\ IsStop(out[i]) => i = k
    BY <1>7, <2>1 DEF IInv, UnseenStop
  <2>3. m.t # "exited"
    BY <1>6, <2>2
  <2>4. ~IsStop(m)
    BY <1>2, <2>1, <2>2 DEF m
  <2> QED BY <1>4, <2>1, <2>2, <2>3, <2>4
<1>12. Ended(view', phase, out)
  BY <1>4, <1>6 DEF IInv, Ended
<1> QED BY <1>1, <1>8, <1>9, <1>10, <1>11, <1>12 DEF IInv

-----------------------------------------------------------------------------
(* The program's steps.                                                    *)

\* A program that runs: no client knows of a stop, or could learn of one, or has
\* been told that the program is over.
LEMMA NotStopped ==
  ASSUME IInv, phase \in {"between", "drain", "tail"}
  PROVE  /\ \A i \in 1..Len(chan) : ~Steers(chan[i])
         /\ view # "stopped"
         /\ \A k \in 1..Len(out) : k > read /\ IsStop(out[k]) => view = "left"
         /\ phase # "tail" => view # "over" /\ \A k \in 1..Len(out) : out[k].t # "exited"
         /\ \A p : Orderly(chan, p, view)
         /\ Follows(out, ctl, phase, depth)
         /\ chan # << >> => Head(chan).command \in {"setBreakpoints", "pause", "disconnect"}
<1>1. \A i \in 1..Len(chan) : ~Steers(chan[i])
  BY DEF IInv, Orderly
<1>2. \A p : Orderly(chan, p, view)
  BY <1>1 DEF IInv, Orderly
<1>3. view # "stopped" /\ \A k \in 1..Len(out) : k > read /\ IsStop(out[k]) => view = "left"
  BY DEF IInv, KnowsStop, UnseenStop
<1>4. phase # "tail" => view # "over" /\ \A k \in 1..Len(out) : out[k].t # "exited"
  BY DEF IInv, Ended
<1>5. chan # << >> => Head(chan) \in Request /\ ~Steers(Head(chan))
  BY Taken DEF IInv, Typed
<1>6. chan # << >> => Head(chan).command \in {"setBreakpoints", "pause", "disconnect"}
  BY <1>5 DEF Request, Commands, Steers
<1>7. Follows(out, ctl, phase, depth)
  BY DEF IInv
<1> QED BY <1>1, <1>2, <1>3, <1>4, <1>6, <1>7

\* The program reaches a statement.
LEMMA ReachKeeps == ASSUME IInv, Reach PROVE IInv'
<1>1. /\ phase = "between" /\ left > 0 /\ phase' = "drain" /\ left' = left - 1 /\ line' \in Lines
      /\ depth' \in 1..MaxDepth /\ chan' = chan /\ out' = out /\ ctl' = ctl /\ view' = view
      /\ requests' = requests /\ read' = read
  BY DEF Reach, Unseen
<1>2. left' \in Nat /\ depth' \in Nat
  BY <1>1, SessionAssumption DEF IInv, Typed
<1>3. Typed'
  BY <1>1, <1>2 DEF IInv, Typed
<1>4. Follows(out, ctl, "drain", depth')
  BY <1>1, NotStopped DEF Follows
<1>5. Orderly(chan, "drain", view) /\ KnowsStop(view, "drain", chan)
  BY <1>1, NotStopped DEF KnowsStop
<1>6. UnseenStop(view, "drain", chan, out, read) /\ Ended(view, "drain", out)
  BY <1>1, NotStopped DEF UnseenStop, Ended
<1> QED BY <1>1, <1>3, <1>4, <1>5, <1>6 DEF IInv

\* The running program answers a request.
LEMMA HandleRunningKeeps == ASSUME IInv, HandleRunning PROVE IInv'
<1> DEFINE m == Response(Head(chan), TRUE)
<1>1. phase = "drain" /\ chan # << >> /\ phase' = phase /\ UNCHANGED <<line, depth, left>> /\ Unseen
  BY DEF HandleRunning
<1>2. Head(chan).command \in {"setBreakpoints", "pause"} /\ Head(chan) \in Request
  BY <1>1, NotStopped, Taken DEF HandleRunning, Arrived, IInv, Typed
<1>3. Answers(TRUE) /\ ctl' = IF Head(chan).command = "pause" THEN RequestPause(ctl)
                              ELSE SetBreakpoints(ctl, Head(chan).lines)
  BY <1>1, <1>2 DEF HandleRunning, Arrived
<1>4. /\ m \in Message /\ m.t = "response" /\ m.ok = TRUE /\ m.command = Head(chan).command
      /\ m.lines = Head(chan).lines /\ m.lines \in LineSets
  BY <1>2 DEF Response, Message, Request
<1>5. out' = Append(out, m) /\ depth' = depth /\ out \in Seq(Message) /\ Follows(out, ctl, "drain", depth)
  BY <1>1, <1>3, NotStopped DEF Answers, IInv, Typed
<1> HIDE DEF m
<1>6. Follows(out', ctl', "drain", depth)
  <2>1. CASE Head(chan).command = "setBreakpoints"
    BY <1>3, <1>4, <1>5, <2>1, BreakpointsFollow
  <2>2. CASE Head(chan).command = "pause"
    BY <1>3, <1>4, <1>5, <2>2, PauseFollowed
  <2> QED BY <1>2, <2>1, <2>2
<1>7. Orderly(Tail(chan), phase, view)
  BY <1>1, Taken DEF IInv, Typed
<1> QED BY <1>1, <1>3, <1>5, <1>6, <1>7, AnswerKeeps

\* The program decides whether to stop.
LEMMA DecideKeeps == ASSUME IInv, Decide PROVE IInv'
<1> DEFINE why == Reason(ctl, line, depth)
           m == Statement(why)
           n == Len(out)
<1>1. /\ phase = "drain" /\ chan = << >> /\ out' = Append(out, m) /\ chan' = chan /\ view' = view /\ read' = read
      /\ requests' = requests /\ line' = line /\ depth' = depth /\ left' = left
      /\ IF why = "none" THEN phase' = "between" /\ ctl' = Passed(ctl, line)
         ELSE phase' = "stop" /\ ctl' = Stopped(ctl, line)
  BY DEF Decide, Unseen
<1>2. /\ line \in Lines /\ depth \in Nat /\ out \in Seq(Message) /\ m.t # "exited" /\ m.t # "response"
      /\ m = [t |-> "statement", why |-> why, line |-> line, depth |-> depth]
  BY <1>1 DEF IInv, Typed, Statement
<1>3. Follows(out, ctl, "drain", depth)
  BY <1>1, NotStopped
<1>4. m \in Message /\ Owed(out')
  BY <1>1, <1>2, <1>3, DecisionOwed DEF Follows
<1>5. IsStop(m) <=> why # "none"
  BY <1>2 DEF IsStop, IsStatement
<1> HIDE DEF m, why
<1>6. Follows(out', ctl', phase', depth)
  BY <1>1, <1>2, <1>3, <1>4, StatementFollowed
<1>7. /\ n \in Nat /\ Len(out') = n + 1 /\ out'[n + 1] = m /\ out' \in Seq(Message)
      /\ \A k \in 1..n : out'[k] = out[k]
  BY <1>1, <1>2, <1>4, PlacesIn
<1> HIDE DEF n
<1>8. \A k \in 1..(n + 1) : k \in 1..n \/ k = n + 1
  BY <1>7
<1>9. Typed'
  <2>1. read \in 0..n
    BY DEF IInv, Typed, n
  <2>2. read' \in 0..Len(out')
    BY <1>1, <1>7, <2>1
  <2> QED BY <1>1, <1>2, <1>7, <2>2 DEF IInv, Typed
<1>10. Quiet(chan) /\ Orderly(chan, phase', view)
  BY <1>1 DEF Quiet, Orderly
<1>11. view # "stopped" /\ view # "over" /\ (view # "left" => view = "running")
  BY <1>1, NotStopped DEF IInv, Typed
<1>12. KnowsStop(view, phase', chan)
  BY <1>11 DEF KnowsStop
<1>13. UnseenStop(view, phase', chan, out', read)
  <2> SUFFICES ASSUME NEW k \in 1..(n + 1), k > read, IsStop(out'[k]), view # "left"
               PROVE  /\ view = "running" /\ phase' = "stop" /\ Quiet(chan)
                      /\ \A i \in 1..(n + 1) : i > read /\ IsStop(out'[i]) => i = k
    BY <1>7 DEF UnseenStop
  <2>1. \A i \in 1..n : ~(i > read /\ IsStop(out[i]))
    BY <1>1, NotStopped DEF n
  <2>2. \A i \in 1..(n + 1) : i > read /\ IsStop(out'[i]) => i = n + 1
    BY <1>7, <1>8, <2>1
  <2>3. k = n + 1 /\ IsStop(m)
    BY <1>7, <2>2
  <2> QED BY <1>1, <1>5, <1>10, <1>11, <2>2, <2>3
<1>14. Ended(view, phase', out')
  <2>1. \A k \in 1..n : out[k].t # "exited"
    BY <1>1, NotStopped DEF n
  <2> QED BY <1>2, <1>7, <1>8, <1>11, <2>1 DEF Ended
<1>15. Refuses(out')
  BY <1>2, <1>7, <1>8 DEF IInv, Refuses, n
<1> QED BY <1>1, <1>4, <1>6, <1>9, <1>10, <1>12, <1>13, <1>14, <1>15 DEF IInv

\* The stopped program answers a request, and goes on when told to.
LEMMA HandleStoppedKeeps == ASSUME IInv, HandleStopped PROVE IInv'
<1> DEFINE m == Response(Head(chan), TRUE)
           command == Head(chan).command
<1>1. /\ phase = "stop" /\ chan # << >> /\ UNCHANGED <<line, depth, left>> /\ Unseen /\ Answers(TRUE)
      /\ phase' = After(command)
  BY DEF HandleStopped
<1>2. Head(chan) \in Request /\ command \in Resumes \cup {"setBreakpoints", "pause", "inspect"}
  BY <1>1, Taken DEF HandleStopped, Arrived, IInv, Typed, Request, Commands
<1>3. /\ m \in Message /\ m.t = "response" /\ m.ok = TRUE /\ m.command = command
      /\ m.lines = Head(chan).lines /\ m.lines \in LineSets
  BY <1>2 DEF Response, Message, Request
<1>4. /\ out' = Append(out, m) /\ depth' = depth /\ out \in Seq(Message) /\ depth \in Nat
      /\ Follows(out, ctl, "stop", depth)
  BY <1>1 DEF Answers, IInv, Typed
<1>5. ctl' = IF command = "setBreakpoints" THEN SetBreakpoints(ctl, Head(chan).lines)
             ELSE IF command \in Resumes THEN Stepping(ctl, Kind(command), depth) ELSE ctl
  BY DEF HandleStopped, Arrived, Resumes
<1> HIDE DEF m
<1>6. CASE command \in Resumes
  <2>1. ~Quiet(chan) /\ Orderly(Tail(chan), "between", view)
    BY <1>1, <1>6, Taken DEF IInv, Typed
  <2>2. phase' = "between" /\ ctl' = Stepping(ctl, Kind(m.command), depth)
    BY <1>1, <1>3, <1>5, <1>6 DEF After, Resumes
  <2>3. Follows(out', ctl', "between", depth)
    BY <1>3, <1>4, <1>6, <2>2, ResumeFollowed
  <2> QED BY <1>1, <1>4, <2>1, <2>2, <2>3, AnswerKeeps
<1>7. CASE command \notin Resumes
  <2>1. phase' = "stop" /\ Orderly(Tail(chan), "stop", view)
    BY <1>1, <1>7, Taken DEF After, IInv, Typed
  <2>2. Follows(out', ctl', "stop", depth)
    <3>1. CASE command = "setBreakpoints"
      BY <1>3, <1>4, <1>5, <3>1, BreakpointsFollow
    <3>2. CASE command = "pause"
      BY <1>3, <1>4, <1>5, <3>2, PauseFollowed DEF Resumes
    <3>3. CASE command = "inspect"
      <4>1. Neutral(m) /\ ctl' = ctl
        BY <1>3, <1>5, <3>3 DEF Neutral, IsStatement, Granted, Resumes
      <4> QED BY <1>3, <1>4, <4>1, NeutralFollows
    <3> QED BY <1>2, <1>7, <3>1, <3>2, <3>3
  <2> QED BY <1>1, <1>4, <2>1, <2>2, AnswerKeeps
<1> QED BY <1>6, <1>7

\* The client that leaves is let go.
LEMMA DisconnectKeeps == ASSUME IInv, Disconnect PROVE IInv'
<1>1. /\ chan # << >> /\ Head(chan).command = "disconnect" /\ phase' = "gone" /\ Answers(TRUE) /\ Unseen
      /\ UNCHANGED <<line, depth, left>>
  BY DEF Disconnect, Arrived
<1>2. view = "left" /\ Orderly(Tail(chan), "gone", view)
  BY <1>1, Taken DEF IInv, Typed
<1> QED BY <1>1, <1>2, AnswerKeeps

\* The program is over.
LEMMA FinishKeeps == ASSUME IInv, Finish PROVE IInv'
<1> DEFINE m == [t |-> "exited"]
           n == Len(out)
<1>1. /\ phase = "between" /\ phase' = "tail" /\ out' = Append(out, m) /\ chan' = chan /\ ctl' = ctl
      /\ view' = view /\ read' = read /\ requests' = requests /\ line' = line /\ depth' = depth /\ left' = left
  BY DEF Finish, AfterRun, Unseen
<1>2. m \in Message /\ m.t = "exited" /\ out \in Seq(Message)
  BY DEF Message, IInv, Typed
<1> HIDE DEF m
<1>3. Neutral(m) /\ ~IsStatement(m) /\ ~IsStop(m)
  BY <1>2 DEF Neutral, IsStatement, IsStop, Granted
<1>4. Owed(out')
  BY <1>1, <1>2, <1>3, NoDebt
<1>5. Follows(out', ctl, "tail", depth)
  <2>1. Follows(out', ctl, "between", depth)
    BY <1>1, <1>2, <1>3, NotStopped, NeutralFollows
  <2> QED BY <2>1 DEF Follows
<1>6. /\ n \in Nat /\ Len(out') = n + 1 /\ out'[n + 1] = m /\ out' \in Seq(Message)
      /\ \A k \in 1..n : out'[k] = out[k]
  BY <1>1, <1>2, PlacesIn
<1> HIDE DEF n
<1>7. \A k \in 1..(n + 1) : k \in 1..n \/ k = n + 1
  BY <1>6
<1>8. Typed'
  <2>1. read \in 0..n
    BY DEF IInv, Typed, n
  <2>2. read' \in 0..Len(out')
    BY <1>1, <1>6, <2>1
  <2> QED BY <1>1, <1>2, <1>6, <2>2 DEF IInv, Typed
<1>9. Orderly(chan, "tail", view) /\ KnowsStop(view, "tail", chan)
  BY <1>1, NotStopped DEF KnowsStop
<1>10. UnseenStop(view, "tail", chan, out', read)
  <2>1. \A k \in 1..n : k > read /\ IsStop(out[k]) => view = "left"
    BY <1>1, NotStopped DEF n
  <2> QED BY <1>3, <1>6, <1>7, <2>1 DEF UnseenStop
<1>11. Ended(view, "tail", out') /\ Refuses(out')
  BY <1>2, <1>6, <1>7 DEF IInv, Refuses, Ended, n
<1> QED BY <1>1, <1>4, <1>5, <1>8, <1>9, <1>10, <1>11 DEF IInv

\* A request that comes when the program is over is refused.
LEMMA HandleTailKeeps == ASSUME IInv, HandleTail PROVE IInv'
<1> DEFINE m == Response(Head(chan), FALSE)
<1>1. /\ phase = "tail" /\ chan # << >> /\ phase' = phase /\ ctl' = ctl /\ UNCHANGED <<line, depth, left>>
      /\ Unseen /\ Answers(FALSE)
  BY DEF HandleTail
<1>2. Head(chan).command \in {"setBreakpoints", "pause"} /\ Head(chan) \in Request
  BY <1>1, NotStopped, Taken DEF HandleTail, Arrived, IInv, Typed
<1>3. m \in Message /\ Neutral(m)
  BY <1>2 DEF Response, Message, Request, Neutral, IsStatement, Granted
<1>4. out' = Append(out, m) /\ depth' = depth /\ out \in Seq(Message) /\ Follows(out, ctl, "tail", depth)
  BY <1>1, NotStopped DEF Answers, IInv, Typed
<1> HIDE DEF m
<1>5. Follows(out', ctl', phase', depth')
  BY <1>1, <1>3, <1>4, NeutralFollows
<1>6. Orderly(Tail(chan), phase, view)
  BY <1>1, Taken DEF IInv, Typed
<1> QED BY <1>1, <1>2, <1>5, <1>6, AnswerKeeps

-----------------------------------------------------------------------------
(* Every state of a session.                                               *)

\* A session begins with the breakpoints of its configuration.
LEMMA InitGood == ASSUME Init PROVE IInv
<1>1. PICK lines \in BpSets :
        /\ ctl = SetBreakpoints(New, lines)
        /\ out = <<[t |-> "response", id |-> 0, command |-> "setBreakpoints", lines |-> lines, ok |-> TRUE]>>
  BY DEF Init
<1> DEFINE m == [t |-> "response", id |-> 0, command |-> "setBreakpoints", lines |-> lines, ok |-> TRUE]
<1>2. m \in Message /\ lines \in LineSets /\ m.lines = lines /\ m.t = "response"
  BY DEF Message, LineSets, Commands
<1>3. ~IsStatement(m) /\ ~IsStop(m) /\ ~Granted(m, Resumes) /\ ~Granted(m, {"pause"}) /\ Granted(m, {"setBreakpoints"})
  BY DEF IsStatement, IsStop, Granted, Resumes
<1>4. out = Append(<< >>, m) /\ << >> \in Seq(Message) /\ Len(<< >>) = 0
  BY <1>1
<1> HIDE DEF m
<1>5. Len(out) = 1 /\ out[1] = m /\ out \in Seq(Message) /\ 1..1 = {1} /\ 0 + 1 = 1 /\ 1..0 = {}
  BY <1>2, <1>4
<1>6. LastStop(<< >>, 0) = 0 /\ LastStatement(<< >>, 0) = 0 /\ \A C : LastGrant(<< >>, 0, C) = 0
  <2>1. /\ {k \in 1..0 : IsStop(<< >>[k])} = {} /\ {k \in 1..0 : IsStatement(<< >>[k])} = {}
        /\ \A C : {k \in 1..0 : Granted(<< >>[k], C)} = {}
    BY <1>5
  <2> QED BY <2>1 DEF LastStop, LastStatement, LastGrant, LastOf
<1>7. /\ LastStop(out, 1) = 0 /\ LastStatement(out, 1) = 0 /\ LastGrant(out, 1, Resumes) = 0
      /\ LastGrant(out, 1, {"pause"}) = 0 /\ LastGrant(out, 1, {"setBreakpoints"}) = 1
  <2> DEFINE s == << >>
  <2>1. s \in Seq(Message) /\ out = Append(s, m) /\ Len(s) = 0
    BY <1>4
  <2>2. /\ LastStop(s, 0) = 0 /\ LastStatement(s, 0) = 0 /\ \A C : LastGrant(s, 0, C) = 0
    BY <1>6
  <2> HIDE DEF s
  <2>3. \A C : /\ LastStop(out, 0 + 1) = (IF IsStop(m) THEN 0 + 1 ELSE LastStop(s, 0))
               /\ LastStatement(out, 0 + 1) = (IF IsStatement(m) THEN 0 + 1 ELSE LastStatement(s, 0))
               /\ LastGrant(out, 0 + 1, C) = (IF Granted(m, C) THEN 0 + 1 ELSE LastGrant(s, 0, C))
    <3> TAKE C
    <3>1. /\ LastStop(Append(s, m), Len(s) + 1) = IF IsStop(m) THEN Len(s) + 1 ELSE LastStop(s, Len(s))
          /\ LastStatement(Append(s, m), Len(s) + 1) = IF IsStatement(m) THEN Len(s) + 1 ELSE LastStatement(s, Len(s))
          /\ LastGrant(Append(s, m), Len(s) + 1, C) = IF Granted(m, C) THEN Len(s) + 1 ELSE LastGrant(s, Len(s), C)
      <4>1. s \in Seq(Message) /\ m \in Message
        BY <1>2, <2>1
      <4> QED BY <4>1, LastOnes
    <3> QED BY <2>1, <3>1
  <2> QED BY <1>3, <1>5, <2>2, <2>3
<1>8. ctl = [bps |-> lines, step |-> [kind |-> "run", depth |-> 0], pause_pending |-> FALSE, prev_line |-> 0]
  BY <1>1 DEF SetBreakpoints, New, Run
<1>9. ctl \in ControllerT
  BY <1>2, <1>8 DEF ControllerT
<1>10. Follows(out, ctl, phase, depth)
  BY <1>2, <1>5, <1>7, <1>8, <1>9
  DEF Init, Follows, BpsFollow, LineFollows, StepFollows, PauseFollows, PauseDue, Going, Run
<1>11. Typed
  <2>1. read = 1 /\ 1 \in 0..1 /\ 0 \in Nat /\ 1 \in Nat
    BY DEF Init
  <2> QED BY <1>5, <2>1, SessionAssumption DEF Init, Typed
<1>12. Owed(out)
  BY <1>3, <1>5 DEF Owed
<1>13. Orderly(chan, phase, view) /\ KnowsStop(view, phase, chan)
  BY DEF Init, Orderly, KnowsStop
<1>14. UnseenStop(view, phase, chan, out, read) /\ Ended(view, phase, out) /\ Refuses(out)
  BY <1>2, <1>3, <1>5 DEF Init, UnseenStop, Ended, Refuses, m
<1> QED BY <1>10, <1>11, <1>12, <1>13, <1>14 DEF IInv

\* Every step keeps the invariant.
LEMMA NextKeeps == ASSUME IInv, [Next]_vars PROVE IInv'
<1>1. CASE AskBreakpoints
  BY <1>1, AskBreakpointsKeeps
<1>2. CASE AskPause
  BY <1>2, AskPauseKeeps
<1>3. CASE AskInspect
  BY <1>3, AskInspectKeeps
<1>4. CASE AskResume
  BY <1>4, AskResumeKeeps
<1>5. CASE AskDisconnect
  BY <1>5, AskDisconnectKeeps
<1>6. CASE Receive
  BY <1>6, ReceiveKeeps
<1>7. CASE Reach
  BY <1>7, ReachKeeps
<1>8. CASE HandleRunning
  BY <1>8, HandleRunningKeeps
<1>9. CASE Decide
  BY <1>9, DecideKeeps
<1>10. CASE HandleStopped
  BY <1>10, HandleStoppedKeeps
<1>11. CASE Disconnect
  BY <1>11, DisconnectKeeps
<1>12. CASE Finish
  BY <1>12, FinishKeeps
<1>13. CASE HandleTail
  BY <1>13, HandleTailKeeps
<1>14. CASE UNCHANGED vars
  BY <1>14 DEF vars, IInv, Typed
<1> QED BY <1>1, <1>2, <1>3, <1>4, <1>5, <1>6, <1>7, <1>8, <1>9, <1>10, <1>11, <1>12, <1>13, <1>14
        DEF Next, Client, Server

\* In every session the controller follows the record of what was answered, the
\* channel is orderly, and the client's view of a stop is right.
THEOREM SessionGood == Spec => []IInv
<1> QED BY InitGood, NextKeeps, PTL DEF Spec

\* The program stops at a statement exactly when what the client was answered by
\* then calls for it, and says why (should_stop, handle_running, on_stop).
THEOREM StopsAreOwed == Spec => []StopsWhenOwed
<1>1. IInv => StopsWhenOwed
  <2>1. Owed(out) => StopsWhenOwed
    BY DEF Owed, StopsWhenOwed, Since, LastStop, LastGrant, LastStatement, LastOf
  <2> QED BY <2>1 DEF IInv
<1> QED BY <1>1, SessionGood, PTL

\* A client that has seen a stop finds the program there until it goes on, and
\* what it asks of a stopped program is never refused.
THEOREM ClientIsRight == Spec => []ClientKnows
<1>1. IInv => ClientKnows
  <2> SUFFICES ASSUME IInv PROVE ClientKnows
    OBVIOUS
  <2>1. ASSUME view = "stopped"
        PROVE  phase = "stop" /\ IsStop(out[LastStatement(out, Len(out))])
    <3>1. phase = "stop"
      BY <2>1 DEF IInv, KnowsStop
    <3>2. StoppedNow(out, Len(out), ctl, depth)
      BY <3>1 DEF IInv, Follows
    <3> DEFINE K == {k \in 1..Len(out) : IsStop(out[k])}
    <3>3. K \subseteq 1..Len(out) /\ Len(out) \in Nat
      BY DEF IInv, Typed
    <3>4. LastOf(K) # 0 => LastOf(K) \in K
      BY <3>3, LastPlaces
    <3> QED BY <3>1, <3>2, <3>4 DEF StoppedNow, LastStop
  <2>2. \A i \in DOMAIN out : out[i].t = "response" /\ ~out[i].ok => out[i].command \in {"setBreakpoints", "pause"}
    <3>1. DOMAIN out = 1..Len(out) /\ \A i \in 1..Len(out) : out[i] \in Message
      BY DEF IInv, Typed
    <3>2. \A i \in 1..Len(out) : out[i].t = "response" /\ ~out[i].ok => out[i].ok = FALSE
      <4> TAKE i \in 1..Len(out)
      <4>1. out[i].t = "response" => out[i].ok \in BOOLEAN
        BY <3>1 DEF Message
      <4> QED BY <4>1
    <3> QED BY <3>1, <3>2 DEF IInv, Refuses
  <2>3. LastStatement(out, Len(out)) = Since(Len(out), IsStatement)
    BY DEF LastStatement, LastOf, Since
  <2> QED BY <2>1, <2>2, <2>3 DEF ClientKnows
<1> QED BY <1>1, SessionGood, PTL
=============================================================================
