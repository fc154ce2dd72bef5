------------------------------ MODULE Reductions ------------------------------
(***************************************************************************)
(* internal/reduce/reduce.go on one element.  Integers of every width are  *)
(* the signed and unsigned integers of Width bits, whose sums wrap; a      *)
(* complex64 is the pair of its parts, small whole numbers, on which       *)
(* floating point is exact.  float32 and float64 are left out.             *)
(***************************************************************************)
EXTENDS Integers

CONSTANT Width   \* bits of an integer element

DTypes == {"uint", "int", "bool", "complex64"}
ReductionOps == {"sum", "max", "min"}

\* The integer of Width bits that x is congruent to.
Wrap(dt, x) ==
    LET u == x % 2 ^ Width
    IN  IF dt = "int" /\ u >= 2 ^ (Width - 1) THEN u - 2 ^ Width ELSE u

applyOrdered(dt, op, dst, v) ==
    CASE op = "sum" -> Wrap(dt, dst + v)
      [] op = "max" -> IF v > dst THEN v ELSE dst
      [] op = "min" -> IF v < dst THEN v ELSE dst

applyBool(op, dst, v) == IF op = "min" THEN dst /\ v ELSE dst \/ v

complexLess(a, b) == a[1] < b[1] \/ (a[1] = b[1] /\ a[2] < b[2])

applyComplex64(op, dst, v) ==
    CASE op = "sum" -> <<dst[1] + v[1], dst[2] + v[2]>>
      [] op = "max" -> IF complexLess(dst, v) THEN v ELSE dst
      [] op = "min" -> IF complexLess(v, dst) THEN v ELSE dst

apply(dt, op, dst, v) ==
    CASE dt = "bool" -> applyBool(op, dst, v)
      [] dt = "complex64" -> applyComplex64(op, dst, v)
      [] OTHER -> applyOrdered(dt, op, dst, v)
===============================================================================
