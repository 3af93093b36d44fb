------------------------------- MODULE MCUnits --------------------------------
(***************************************************************************)
(* The three loops that run inside one call, Unit by Unit: long division,  *)
(* long multiplication and the drawing of a random number.  A behaviour is *)
(* one of the three, the others stay idle.                                 *)
(***************************************************************************)
EXTENDS LongDivision, LongMultiplication, RandomState

\* Divisions whose estimates are hard: top Units that are small, all nines,
\* equal, or followed by a small or a large Unit.
MCNumerators ==
  { Finite(neg, c, e) :
      neg \in BOOLEAN, e \in {-3, -1, 0, 2},
      c \in { 1, 7, 10, 99, 100, 101, 998, 1000, 1999, 9801, 9999, 10000, 99999 } }

MCDenominators ==
  { Finite(FALSE, c, 0) :
      c \in { 1, 3, 9, 10, 11, 99, 100, 101, 109, 199, 899, 990, 999, 1001, 1099, 1999, 9001, 9999, 10001 } }

\* Coefficients of one to ten Units: all nines, for the largest partial
\* products and carries of two places, single ones, zeros in between.
AllNines(n) == [ i \in 1..n |-> 99 ]
One(n) == [ i \in 1..n |-> IF i = n THEN 1 ELSE 0 ]
Mixed(n) == [ i \in 1..n |-> ((37 * i + 12) % 99) + 1 ]
MCFactors == {<<0>>, <<7>>} \cup
  UNION { { AllNines(n), One(n), Mixed(n) } : n \in {1, 2, 3, 4, 5, 7, 10} }

\* Words that give small, rejected and ordinary chunks of ten bits.
MCWords == { 0, 65535, 41234 }
MCRequests == { <<1, -1>>, <<5, 0>>, <<6, -6>>, <<7, 3>>, <<9, -9>>, <<0, 0>>, <<10, 0>> }

NoMultiplication ==
  /\ operands = [ lhs |-> <<0>>, rhs |-> <<0>> ]
  /\ zacc = << >> /\ row = 1 /\ lazy = 0 /\ item = 1
  /\ product = << >> /\ stage = "idle"

NoRandom ==
  /\ ring = << >> /\ index = 0 /\ supply = 0 /\ supplyBits = 0
  /\ number = Unwritten /\ q = 0 /\ rest = 0 /\ phase = "none"
  /\ words = << >> /\ chunks = << >>

NoDivision ==
  /\ task = CHOOSE t \in Tasks : TRUE
  /\ var1 = << >> /\ var1units = 0 /\ var2ulen = Len(UnitsOf(task.rhs))
  /\ exponent = 0 /\ thisunit = 0 /\ acc = << >> /\ accdigits = 0
  /\ pc = "idle"

UnitsInit == \/ Init /\ NoMultiplication /\ NoRandom
             \/ NoDivision /\ MultiplyInit /\ NoRandom
             \/ NoDivision /\ NoMultiplication /\ RandomInit

\* The machines a step is not of.
OfDivision == UNCHANGED <<productVars, randomVars>>
OfMultiplication == UNCHANGED <<vars, randomVars>>
OfRandom == UNCHANGED <<vars, productVars>>

UnitsNext == \/ TooLow /\ OfDivision
             \/ Identical /\ OfDivision
             \/ Subtract /\ OfDivision
             \/ NextUnit /\ OfDivision
             \/ AddRow /\ OfMultiplication
             \/ ResolveItem /\ OfMultiplication
             \/ UnchunkItem /\ OfMultiplication
             \/ AddUnit /\ OfMultiplication
             \/ CallFails /\ OfRandom
             \/ CallStarts /\ OfRandom
             \/ DrawTop /\ OfRandom
             \/ DrawUnit /\ OfRandom
             \/ CallReturns /\ OfRandom

UnitsVars == <<vars, productVars, randomVars>>
UnitsSpec == UnitsInit /\ [][UnitsNext]_UnitsVars
=============================================================================
