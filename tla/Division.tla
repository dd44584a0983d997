------------------------------- MODULE Division -------------------------------
(***************************************************************************)
(* Division by a number that is fixed in advance (convey/bolite.h), which  *)
(* the routers use for every item: one multiplication and one shift.  The  *)
(* numbers have 32 bits in the code, and Width bits here.                  *)
(***************************************************************************)
EXTENDS Integers

CONSTANT Width

VARIABLES
  divisor,   \* the divisor and what is prepared for it
  answer     \* the numerator and the quotient of the last division
divisionVars == <<divisor, answer>>

Word == 0 .. 2^Width - 1
None == [numerator |-> 0, quotient |-> 0]

\* The number of the highest bit of n.
top_bit(n) == CHOOSE k \in 0 .. Width-1 : 2^k <= n /\ n < 2^(k + 1)

\* MUTANT: the reciprocal is rounded down.
prep_low(n) ==
  LET k == top_bit(n)
  IN IF n = 0 THEN [value |-> n, shift |-> Width, magic |-> 0]
     ELSE IF n = 2^k THEN [value |-> n, shift |-> k, magic |-> 0]
     ELSE [value |-> n, shift |-> k + 1,
           magic |-> ((2^(Width + 1 + k) - 1) \div n) % 2^Width]

\* _divbymul32_prep
prep(n) ==
  LET k == top_bit(n)
  IN IF n = 0 THEN [value |-> n, shift |-> Width, magic |-> 0]
     ELSE IF n = 2^k THEN [value |-> n, shift |-> k, magic |-> 0]
     ELSE [value |-> n, shift |-> k + 1,
           magic |-> (1 + (2^(Width + 1 + k) - 1) \div n) % 2^Width]

\* _divbymul32, whose sum has more bits than a number
divbymul32(numerator, d) ==
  ((numerator * d.magic) \div 2^Width + numerator) \div 2^d.shift

DivisionInit == /\ \E n \in Word : divisor = prep(n)
                /\ answer = None

Divide == /\ answer = None
          /\ \E n \in Word : answer' = [numerator |-> n,
                                        quotient |-> divbymul32(n, divisor)]
          /\ UNCHANGED divisor

\* The quotient is exact for every numerator; "division by 0 will always yield
\* 0" (bolite.h:195).
Exact == answer.quotient = IF divisor.value = 0 THEN 0
                           ELSE answer.numerator \div divisor.value
=============================================================================
