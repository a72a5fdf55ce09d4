--------------------------------- MODULE Dap ---------------------------------
(***************************************************************************)
(* A debugging session of mersey dap (dap.rs), once configured: a client   *)
(* sends requests at any time, the reader thread passes them on in order,  *)
(* and the program, whose statements call the hook, answers them: those    *)
(* that have come, when it reaches a statement; every one, while it is     *)
(* stopped at one; and what is left when it is over.  The pipe and the     *)
(* channel, one after the other, are one queue; what is written to the     *)
(* client is kept whole, with how much of it has been read.                *)
(***************************************************************************)
EXTENDS DebugController, Sequences, SequencesExt, FiniteSetsExt

CONSTANTS
  Lines,        \* the lines of the program
  BpSets,       \* the sets of breakpoints a client asks for
  MaxDepth,     \* how deep its calls go
  MaxStmts,     \* how many statements it runs
  MaxRequests   \* how many requests the client makes

ASSUME LinesAssumption == Lines \subseteq Nat \ {0}   \* the lexer counts from 1
ASSUME SessionAssumption == {MaxDepth, MaxStmts, MaxRequests} \subseteq Nat

VARIABLES
  view,      \* the client: "running" or "stopped", "over" once told, "left"
  requests,  \* how many it has sent
  chan,      \* requests on their way
  out,       \* responses, events and the statements run, in order
  read,      \* how many of them the client has seen
  phase,     \* "between" statements, "drain"ing at one, "stop", "tail" or "gone"
  ctl, line, depth, left

vars == <<view, requests, chan, out, read, phase, ctl, line, depth, left>>

Init ==
  /\ view = "running" /\ requests = 0
  /\ chan = << >>
  /\ \E lines \in BpSets :   \* set, and answered, during configuration
       /\ ctl = SetBreakpoints(New, lines)
       /\ out = <<[t |-> "response", id |-> 0, command |-> "setBreakpoints", lines |-> lines, ok |-> TRUE]>>
  /\ read = 1
  /\ phase = "between" /\ left = MaxStmts
  /\ line = 0 /\ depth = 1

(***************************************************************************)
(* What is written.                                                        *)
(***************************************************************************)
Response(req, ok) == [t |-> "response", id |-> req.id, command |-> req.command, lines |-> req.lines, ok |-> ok]
Statement(why) == [t |-> "statement", why |-> why, line |-> line, depth |-> depth]
IsStatement(m) == m.t = "statement"
IsStop(m) == IsStatement(m) /\ m.why # "none"
Answers(ok) == /\ out' = Append(out, Response(Head(chan), ok))
               /\ chan' = Tail(chan)
Arrived(command) == chan # << >> /\ Head(chan).command = command

Unseen == UNCHANGED <<view, requests, read>>

(***************************************************************************)
(* The client.  It resumes and inspects only what it has seen stop.        *)
(***************************************************************************)
Resumes == {"continue", "next", "stepIn", "stepOut"}

Ask(command, lines) ==
  /\ requests < MaxRequests
  /\ requests' = requests + 1
  /\ chan' = Append(chan, [id |-> requests + 1, command |-> command, lines |-> lines])
  /\ UNCHANGED <<out, read, phase, ctl, line, depth, left>>

AskBreakpoints ==
  view \in {"running", "stopped"} /\ (\E lines \in BpSets : Ask("setBreakpoints", lines)) /\ UNCHANGED view
AskPause == view = "running" /\ Ask("pause", {}) /\ UNCHANGED view
\* stackTrace, scopes and variables.
AskInspect == view = "stopped" /\ Ask("inspect", {}) /\ UNCHANGED view
AskResume ==
  /\ view = "stopped" /\ \E command \in Resumes : Ask(command, {})
  /\ view' = "running"
AskDisconnect == view # "left" /\ Ask("disconnect", {}) /\ view' = "left"

Receive ==
  /\ read < Len(out)
  /\ read' = read + 1
  /\ view' = CASE view = "left" -> view
               [] view # "left" /\ IsStop(out[read']) -> "stopped"
               [] view # "left" /\ out[read'].t = "exited" -> "over"
               [] OTHER -> view
  /\ UNCHANGED <<requests, chan, out, phase, ctl, line, depth, left>>

(***************************************************************************)
(* A statement (debug_stmt, on_stmt).                                      *)
(***************************************************************************)
\* The depth may change by any number of frames from one statement to the next:
\* a chain of returned calls ends several, an arrow of one expression has none of
\* its own statements.
Reach ==
  /\ phase = "between" /\ left > 0
  /\ phase' = "drain" /\ left' = left - 1
  /\ line' \in Lines
  /\ depth' \in 1..MaxDepth
  /\ UNCHANGED <<chan, out, ctl>> /\ Unseen

\* handle_running
HandleRunning ==
  /\ phase = "drain" /\ chan # << >> /\ ~Arrived("disconnect")
  /\ ctl' = CASE Arrived("setBreakpoints") -> SetBreakpoints(ctl, Head(chan).lines)
              [] Arrived("pause") -> RequestPause(ctl)
              [] OTHER -> ctl
  /\ Answers(Head(chan).command \in {"setBreakpoints", "pause"})
  /\ UNCHANGED <<phase, line, depth, left>> /\ Unseen

Decide ==
  /\ phase = "drain" /\ chan = << >>
  /\ LET why == Reason(ctl, line, depth)
     IN /\ out' = Append(out, Statement(why))
        /\ IF why = "none" THEN phase' = "between" /\ ctl' = Passed(ctl, line)
           ELSE phase' = "stop" /\ ctl' = Stopped(ctl, line)
  /\ UNCHANGED <<chan, line, depth, left>> /\ Unseen

(***************************************************************************)
(* Stopped: blocked in the hook until told to go on.                       *)
(***************************************************************************)
Kind(command) == CASE command = "next" -> "over" [] command = "stepIn" -> "in"
                   [] command = "stepOut" -> "out" [] command = "continue" -> "run"

AfterReturning(command) == IF command = "inspect" THEN "stop" ELSE "between"   \* every other answer returns
After(command) == IF command \in Resumes THEN "between" ELSE "stop"

HandleStopped ==
  /\ phase = "stop" /\ chan # << >> /\ ~Arrived("disconnect")
  /\ phase' = After(Head(chan).command)
  /\ ctl' = CASE Arrived("setBreakpoints") -> SetBreakpoints(ctl, Head(chan).lines)
              [] Head(chan).command \in Resumes -> Stepping(ctl, Kind(Head(chan).command), depth)
              [] OTHER -> ctl
  /\ Answers(TRUE)
  /\ UNCHANGED <<line, depth, left>> /\ Unseen

Disconnect ==
  /\ phase \in {"drain", "stop", "tail"} /\ Arrived("disconnect")
  /\ phase' = "gone"
  /\ Answers(TRUE)
  /\ UNCHANGED <<ctl, line, depth, left>> /\ Unseen

(***************************************************************************)
(* The program is over; the tail of the session is served.                 *)
(***************************************************************************)
AfterRunGone == "gone"   \* the process ends with the program
AfterRun == "tail"

Finish ==
  /\ phase = "between"
  /\ phase' = AfterRun
  /\ out' = Append(out, [t |-> "exited"])
  /\ UNCHANGED <<chan, ctl, line, depth, left>> /\ Unseen

HandleTail ==
  /\ phase = "tail" /\ chan # << >> /\ ~Arrived("disconnect")
  /\ Answers(FALSE)
  /\ UNCHANGED <<phase, ctl, line, depth, left>> /\ Unseen

Client == AskBreakpoints \/ AskPause \/ AskInspect \/ AskResume \/ AskDisconnect \/ Receive
Server == Reach \/ HandleRunning \/ Decide \/ HandleStopped \/ Disconnect \/ Finish \/ HandleTail

Next == Client \/ Server

\* The program does not wait for the client but in a stop.
Spec == Init /\ [][Next]_vars /\ WF_vars(Server)

(***************************************************************************)
(* Properties.                                                             *)
(***************************************************************************)
Since(i, P(_)) == LET is == {k \in 1..i : P(out[k])} IN IF is = {} THEN 0 ELSE Max(is)
Granted(m, commands) == m.t = "response" /\ m.ok /\ m.command \in commands

\* The program stops at a statement exactly when what the client has been
\* answered by then calls for it: a pause granted since it last went on, a
\* breakpoint of the last set granted on a line other than that of the
\* statement before, or a step, counted from the depth of the stop it was
\* asked at; and it says the first of the three.
StopsWhenOwed ==
  LET j == Len(out)
      stop == Since(j - 1, IsStop)
      went == Since(j - 1, LAMBDA m : Granted(m, Resumes))
      paused == Since(j - 1, LAMBDA m : Granted(m, {"pause"})) > IF went > stop THEN went ELSE stop
      set == Since(j - 1, LAMBDA m : Granted(m, {"setBreakpoints"}))
      before == Since(j - 1, IsStatement)
      atBp == /\ out[j].line \in out[set].lines
              /\ before = 0 \/ out[before].line # out[j].line
      stepped == /\ went > stop
                 /\ \/ out[went].command = "stepIn"
                    \/ out[went].command = "next" /\ out[j].depth <= out[stop].depth
                    \/ out[went].command = "stepOut" /\ out[j].depth < out[stop].depth
  IN IsStatement(out[j]) =>
       out[j].why = IF paused THEN "pause" ELSE IF atBp THEN "breakpoint" ELSE IF stepped THEN "step" ELSE "none"

\* A client that has seen a stop and not gone on is right: the program is still
\* at that statement, and no resume or inspection is ever refused.
ClientKnows ==
  /\ view = "stopped" => phase = "stop" /\ IsStop(out[Since(Len(out), IsStatement)])
  /\ \A i \in DOMAIN out : out[i].t = "response" /\ ~out[i].ok => out[i].command \in {"setBreakpoints", "pause"}

\* Every request is answered, whatever the program does meanwhile: run, stop or
\* end; unless the client leaves.
EveryRequestAnswered ==
  \A i \in 1..MaxRequests :
    requests >= i ~> (\E j \in DOMAIN out : out[j].t = "response" /\ out[j].id = i) \/ view = "left"
=============================================================================
