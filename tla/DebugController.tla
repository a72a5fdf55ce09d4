--------------------------- MODULE DebugController ---------------------------
(***************************************************************************)
(* The policy every debugger front-end shares (debug.rs): a controller is  *)
(* the breakpoints of the one source of the model, what the front-end last *)
(* asked for, whether it asked for a pause, and the line of the statement  *)
(* before.  The operators are its methods.                                 *)
(***************************************************************************)
EXTENDS Naturals

Run == [kind |-> "run", depth |-> 0]

New == [bps |-> {}, step |-> Run, pause_pending |-> FALSE, prev_line |-> 0]

SetBreakpoints(ctl, lines) == [ctl EXCEPT !.bps = lines]
RequestPause(ctl) == [ctl EXCEPT !.pause_pending = TRUE]

\* resume, step_over, step_in and step_out, from a stop so many frames deep.
Stepping(ctl, kind, depth) == [ctl EXCEPT !.step = [kind |-> kind, depth |-> depth]]

HitBp(ctl, line) == line \in ctl.bps /\ ctl.prev_line # line
HitStep(ctl, depth) ==
  \/ ctl.step.kind = "in"
  \/ ctl.step.kind = "over" /\ depth <= ctl.step.depth
  \/ ctl.step.kind = "out" /\ depth < ctl.step.depth

\* should_stop: the decision at a statement, and the controller after it.
Reason(ctl, line, depth) ==
  CASE ctl.pause_pending -> "pause"
    [] ~ctl.pause_pending /\ HitBp(ctl, line) -> "breakpoint"
    [] ~ctl.pause_pending /\ ~HitBp(ctl, line) /\ HitStep(ctl, depth) -> "step"
    [] OTHER -> "none"

Passed(ctl, line) == [ctl EXCEPT !.prev_line = line]
StoppedPending(ctl, line) == [Passed(ctl, line) EXCEPT !.step = Run]   \* the pause not taken back
Stopped(ctl, line) == [Passed(ctl, line) EXCEPT !.step = Run, !.pause_pending = FALSE]
=============================================================================
