-------------------------------- MODULE TimeOps --------------------------------
(***************************************************************************)
(* include/ckit/time.h: the arithmetic of struct timespec, and of struct   *)
(* timeval, which is the same with microseconds for nanoseconds.  A time   *)
(* is a record of seconds and of a fraction, in units of which a second    *)
(* has PER_SEC.                                                            *)
(***************************************************************************)
EXTENDS Integers

CONSTANT PER_SEC

\* C's division truncates towards zero, and the remainder has the sign of the
\* dividend.
CDiv(a, b) == IF a >= 0 THEN a \div b ELSE -((-a) \div b)
CMod(a, b) == a - b * CDiv(a, b)

\* The slip of a carry without a borrow.
normalize_CarryOnly(t) ==
  IF t.frac >= PER_SEC THEN [sec |-> t.sec + 1, frac |-> t.frac - PER_SEC] ELSE t

\* timespec_normalize: one carry or one borrow.
normalize(t) ==
  IF t.frac >= PER_SEC THEN [sec |-> t.sec + 1, frac |-> t.frac - PER_SEC]
  ELSE IF t.frac < 0 THEN [sec |-> t.sec - 1, frac |-> t.frac + PER_SEC]
  ELSE t

\* timespec_add_nsec, timeval_add_usec.
add_units(t, n) ==
  normalize([sec |-> t.sec + CDiv(n, PER_SEC), frac |-> t.frac + CMod(n, PER_SEC)])

\* timeval_sub_usec.
sub_units(t, n) ==
  normalize([sec |-> t.sec - CDiv(n, PER_SEC), frac |-> t.frac - CMod(n, PER_SEC)])

add(t, u) == normalize([sec |-> t.sec + u.sec, frac |-> t.frac + u.frac])

sub(t, u) == normalize([sec |-> t.sec - u.sec, frac |-> t.frac - u.frac])

lt(t, u) == t.sec < u.sec \/ (t.sec = u.sec /\ t.frac < u.frac)

--------------------------------------------------------------------------------
(* The reference: a time is a number of units.                             *)

Units(t) == t.sec * PER_SEC + t.frac

Time == [sec : Int, frac : 0..(PER_SEC - 1)]

\* A time that is the given number of units.
Is(t, n) == t \in Time /\ Units(t) = n

\* The macros compute with the numbers of units that two normalised times and
\* a signed amount n stand for, and leave their results normalised: one carry
\* or borrow in timespec_normalize is enough for all of them.
Exact(t, u, n) ==
  /\ Is(add(t, u), Units(t) + Units(u))
  /\ Is(sub(t, u), Units(t) - Units(u))
  /\ Is(add_units(t, n), Units(t) + n)
  /\ Is(sub_units(t, n), Units(t) - n)
  /\ lt(t, u) <=> Units(t) < Units(u)
================================================================================
