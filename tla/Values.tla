-------------------------------- MODULE Values --------------------------------
(***************************************************************************)
(* Values, as both engines have them: a value is a number, an error, a     *)
(* function's name or null, and a bool is 0 or 1.                          *)
(***************************************************************************)
EXTENDS Naturals, Sequences, SequencesExt

CONSTANTS
  MaxDepth,    \* MAX_CALL_DEPTH
  RangeError,  \* the error thrown beyond it
  Null         \* Value::Null; also, in a scope, that x is not declared there

Truthy(v) == v # 0
BoolOf(b) == IF b THEN 1 ELSE 0
BinValue(op, a, b) == IF op = "+" THEN a + b ELSE BoolOf(a = b)
=============================================================================
