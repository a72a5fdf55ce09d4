-------------------------------- MODULE Regex --------------------------------
(***************************************************************************)
(* The backtracking matcher (regex.rs).  match_node recurses with a        *)
(* continuation; here the continuation is the sequence k of what is left   *)
(* to match, and the calls waiting for a failure, with what they would try *)
(* next, are the stack alts.  The captures are one array that every path   *)
(* writes: a group sets its slot when it closes, and puts the old value    *)
(* back when everything after its opening has failed.                      *)
(***************************************************************************)
EXTENDS Naturals, Sequences

CONSTANTS
  Nodes,      \* the nodes patterns are made of
  Height(_),  \* how deep a node is: nodes own theirs (Box, Vec), so every pattern is a finite tree
  Patterns,   \* compiled patterns: root and ignore_case
  Groups,     \* group_count, the same for all of them
  Chars,      \* characters
  Texts,      \* the texts searched
  MaxSteps,   \* MAX_STEPS
  Unbounded,  \* u32::MAX, the max of * and +: more turns than a text has characters
  Lower(_),   \* to_lowercase
  Upper(_),   \* to_uppercase
  WordChars,  \* the characters is_word accepts
  Newline

Kinds == {"empty", "char", "any", "class", "start", "end", "boundary", "group", "concat", "alt", "repeat"}

\* The nodes a node owns.
Under(n) ==
  CASE n.n \in {"group", "repeat"} -> {n.inner}
    [] n.n = "concat" -> {n.parts[i] : i \in DOMAIN n.parts}
    [] n.n = "alt" -> {n.arms[i] : i \in DOMAIN n.arms}
    [] OTHER -> {}

ASSUME NodesAssumption ==
  \A n \in Nodes :
    /\ n.n \in Kinds
    /\ n.n \in {"group", "repeat"} => n.inner \in Nodes
    /\ n.n = "concat" => n.parts \in Seq(Nodes)
    /\ n.n = "alt" => n.arms \in Seq(Nodes) /\ n.arms # << >>
    /\ n.n = "group" => n.index \in 0..Groups
    /\ n.n = "repeat" => n.min \in Nat /\ n.max \in Nat /\ n.greedy \in BOOLEAN
ASSUME TreesAssumption ==
  \A n \in Nodes : Height(n) \in Nat /\ \A x \in Under(n) : Height(x) < Height(n)
ASSUME PatternsAssumption == \A p \in Patterns : p.root \in Nodes
ASSUME TextsAssumption == \A t \in Texts : t \in Seq(Chars)
ASSUME BoundsAssumption == MaxSteps \in Nat /\ Groups \in Nat

VARIABLES
  re, text,   \* the pattern and the text
  start,      \* where the attempt being made starts
  mode,       \* "match" what k says; "back" up; or over: "found" or "none"
  k,          \* nodes to match, groups to close ("close") and repeats to go on ("again")
  pos, caps,  \* the position, and each group's span, or << >>
  alts,       \* what to do on failure, the innermost last
  steps

vars == <<re, text, start, mode, k, pos, caps, alts, steps>>

NoCaps == [i \in 1..Groups |-> << >>]

Init ==
  /\ re \in Patterns /\ text \in Texts
  /\ start = 0 /\ pos = 0
  /\ mode = "match" /\ k = <<re.root>>
  /\ caps = NoCaps
  /\ alts = << >> /\ steps = 0

(***************************************************************************)
(* Characters.                                                             *)
(***************************************************************************)
Eq(a, b) == a = b \/ (re.ignore_case /\ Lower(a) = Lower(b))

IsWord(c) == c \in WordChars

ItemHas(item, c) ==
  CASE item.i = "ch" -> Eq(item.c, c)
    [] item.i = "range" -> c \in item.of \/ (re.ignore_case /\ {Lower(c), Upper(c)} \cap item.of # {})
    [] item.i = "word" -> IsWord(c) = item.want

ClassMatches(node, c) == (\E item \in node.items : ItemHas(item, c)) # node.negated

Accepts(node, c) ==
  CASE node.n = "char" -> Eq(node.c, c)
    [] node.n = "any" -> c # Newline
    [] node.n = "class" -> ClassMatches(node, c)

WordAt(p) == p \in DOMAIN text /\ IsWord(text[p])

Holds(node) ==
  CASE node.n = "empty" -> TRUE
    [] node.n = "start" -> pos = 0
    [] node.n = "end" -> pos = Len(text)
    [] node.n = "boundary" -> (WordAt(pos) # WordAt(pos + 1)) = node.want

(***************************************************************************)
(* The step of a node, counted; beyond the limit it fails.                 *)
(***************************************************************************)
Node == Head(k)
Rest == Tail(k)

Visit(kinds) ==
  /\ mode = "match" /\ k # << >> /\ Node.n \in kinds /\ steps < MaxSteps
  /\ steps' = steps + 1
  /\ UNCHANGED <<re, text, start>>

GiveUp ==
  /\ mode = "match" /\ k # << >> /\ Node.n \in Kinds /\ steps >= MaxSteps
  /\ mode' = "back"
  /\ steps' = MaxSteps + 1
  /\ UNCHANGED <<re, text, start, k, pos, caps, alts>>

Fails == mode' = "back" /\ UNCHANGED <<k, pos, caps, alts>>

\* One character taken.
Consume ==
  /\ Visit({"char", "any", "class"})
  /\ IF pos < Len(text) /\ Accepts(Node, text[pos + 1])
     THEN k' = Rest /\ pos' = pos + 1 /\ UNCHANGED <<mode, caps, alts>>
     ELSE Fails

\* None taken: an anchor, a boundary, nothing.
Anchor ==
  /\ Visit({"empty", "start", "end", "boundary"})
  /\ IF Holds(Node) THEN k' = Rest /\ UNCHANGED <<mode, pos, caps, alts>> ELSE Fails

Captures(node) == node.index # 0

OpenGroup ==
  /\ Visit({"group"})
  /\ k' = IF Captures(Node)
          THEN <<Node.inner, [n |-> "close", index |-> Node.index, from |-> pos]>> \o Rest
          ELSE <<Node.inner>> \o Rest
  /\ alts' = IF Captures(Node)
             THEN Append(alts, [a |-> "undo", index |-> Node.index, span |-> caps[Node.index]])
             ELSE alts
  /\ UNCHANGED <<mode, pos, caps>>

\* match_seq
Concat ==
  /\ Visit({"concat"})
  /\ k' = Node.parts \o Rest
  /\ UNCHANGED <<mode, pos, caps, alts>>

\* The first arm; the others are tried when it, or what follows it, fails.
Arm(arms, pending) == [a |-> "arm", arms |-> arms, pos |-> pos, k |-> pending]

Alt ==
  /\ Visit({"alt"})
  /\ k' = <<Head(Node.arms)>> \o Rest
  /\ alts' = Append(alts, Arm(Tail(Node.arms), Rest))
  /\ UNCHANGED <<mode, pos, caps>>

(***************************************************************************)
(* match_repeat, when done turns of rep are behind.                        *)
(***************************************************************************)
CanMoreOver(rep, done) == done <= rep.max   \* off by one
CanMore(rep, done) == done < rep.max
CanStop(rep, done) == done >= rep.min
Turn(rep, done, from, pending) ==
  <<rep.inner, [n |-> "again", rep |-> rep, done |-> done, from |-> from]>> \o pending

Greedy(rep, done, pending) ==
  IF CanMore(rep, done)
  THEN /\ k' = Turn(rep, done, pos, pending)
       /\ alts' = IF CanStop(rep, done)
                  THEN Append(alts, [a |-> "stop", pos |-> pos, k |-> pending]) ELSE alts
       /\ UNCHANGED mode
  ELSE IF CanStop(rep, done) THEN k' = pending /\ UNCHANGED <<mode, alts>>
  ELSE mode' = "back" /\ UNCHANGED <<k, alts>>

Lazy(rep, done, pending) ==
  IF CanStop(rep, done)
  THEN /\ k' = pending
       /\ alts' = IF CanMore(rep, done)
                  THEN Append(alts, [a |-> "more", pos |-> pos, k |-> Turn(rep, done, pos, pending)])
                  ELSE alts
       /\ UNCHANGED mode
  ELSE IF CanMore(rep, done) THEN k' = Turn(rep, done, pos, pending) /\ UNCHANGED <<mode, alts>>
  ELSE mode' = "back" /\ UNCHANGED <<k, alts>>

Iterate(rep, done, pending) ==
  IF rep.greedy THEN Greedy(rep, done, pending) ELSE Lazy(rep, done, pending)

Repeat ==
  /\ Visit({"repeat"})
  /\ Iterate(Node, 0, Rest)
  /\ UNCHANGED <<pos, caps>>

(***************************************************************************)
(* The closures passed as continuations.                                   *)
(***************************************************************************)
Continue(n) ==
  /\ mode = "match" /\ k # << >> /\ Node.n = n
  /\ UNCHANGED <<re, text, start, steps, pos>>

SpanInclusive(from) == <<from, pos + 1>>   \* one past the end
SpanFrom(from) == <<from, pos>>

CloseGroup ==
  /\ Continue("close")
  /\ caps' = [caps EXCEPT ![Node.index] = SpanFrom(Node.from)]
  /\ k' = Rest
  /\ UNCHANGED <<mode, alts>>

\* A turn that took nothing fails, or the repeat would go on for ever.
EmptyTurn == pos = Node.from
Again ==
  /\ Continue("again")
  /\ IF EmptyTurn THEN mode' = "back" /\ UNCHANGED <<k, alts>>
     ELSE Iterate(Node.rep, Node.done + 1, Rest)
  /\ UNCHANGED caps

Accept ==
  /\ mode = "match" /\ k = << >>
  /\ mode' = "found"
  /\ UNCHANGED <<re, text, start, k, pos, caps, alts, steps>>

(***************************************************************************)
(* Failure goes back to the innermost call that has something left to do.  *)
(***************************************************************************)
Latest == alts[Len(alts)]
Others == SubSeq(alts, 1, Len(alts) - 1)
Back(a) ==
  /\ mode = "back" /\ alts # << >> /\ Latest.a = a
  /\ UNCHANGED <<re, text, start, steps>>

Unrestored(index, span) == caps   \* the undo forgotten
Restored(index, span) == [caps EXCEPT ![index] = span]
Undo ==
  /\ Back("undo")
  /\ caps' = Restored(Latest.index, Latest.span)
  /\ alts' = Others
  /\ UNCHANGED <<mode, k, pos>>

NextArm ==
  /\ Back("arm")
  /\ pos' = Latest.pos
  /\ IF Latest.arms = << >> THEN k' = Latest.k /\ alts' = Others /\ UNCHANGED mode
     ELSE /\ k' = <<Head(Latest.arms)>> \o Latest.k
          /\ alts' = Append(Others, [Latest EXCEPT !.arms = Tail(@)])
          /\ mode' = "match"
  /\ UNCHANGED caps

\* The greedy repeat stops here after all; the lazy one takes a turn.
StopOrMore ==
  /\ Back("stop") \/ Back("more")
  /\ k' = Latest.k /\ pos' = Latest.pos
  /\ alts' = Others
  /\ mode' = "match"
  /\ UNCHANGED caps

\* find_at: the next start, with captures and steps of its own.
NextStart ==
  /\ mode = "back" /\ alts = << >>
  /\ IF start < Len(text)
     THEN /\ start' = start + 1 /\ pos' = start + 1
          /\ mode' = "match" /\ k' = <<re.root>>
          /\ caps' = NoCaps /\ steps' = 0
     ELSE mode' = "none" /\ UNCHANGED <<start, pos, k, caps, steps>>
  /\ UNCHANGED <<re, text, alts>>

Next ==
  \/ GiveUp \/ Consume \/ Anchor \/ OpenGroup \/ Concat \/ Alt \/ Repeat
  \/ CloseGroup \/ Again \/ Accept \/ Undo \/ NextArm \/ StopOrMore \/ NextStart

Spec == Init /\ [][Next]_vars

(***************************************************************************)
(* Properties.                                                             *)
(***************************************************************************)
\* What a match reports can be sliced: it is in the text, and so is the span of
\* every group, which starts no earlier than the match and has an end no
\* earlier than its start; abandoned paths leave nothing outside either.
SpansInText ==
  /\ start <= pos /\ pos <= Len(text)
  /\ \A i \in 1..Groups : caps[i] # << >> =>
       start <= caps[i][1] /\ caps[i][1] <= caps[i][2] /\ caps[i][2] <= Len(text)
=============================================================================
