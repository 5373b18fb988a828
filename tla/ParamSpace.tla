------------------------------ MODULE ParamSpace ------------------------------
(***************************************************************************)
(* The parameter space of a request: parserProps (util/util.cpp) turns     *)
(* each property's list of values into the list of the configurations to   *)
(* test, one strategy instance each.  A value is its index in its list.    *)
(***************************************************************************)
EXTENDS Integers, Sequences, SequencesExt, FiniteSets

CONSTANTS MaxProps,   \* bounds the number of properties
          MaxValues   \* bounds the number of values of one

ASSUME BoundsAssumption == MaxProps \in Nat /\ MaxValues \in Nat \ {0}

VARIABLES space,  \* the number of values of each property, in the order of the names
          ret,    \* the configurations: the values' indices, in the same order
          props   \* how many properties the loop has written

vars == <<space, ret, props>>

totalSpace(sizes) == FoldLeft(LAMBDA n, size : n * size, 1, sizes)

Init ==
  /\ space \in UNION {[1 .. k -> 1 .. MaxValues] : k \in 0 .. MaxProps}
  /\ ret = [i \in 1 .. totalSpace(space) |-> <<>>]
  /\ props = 0

\* Mutant: the values in blocks.
ValueInBlocks(i, size) == i \div size

\* prop_vals[i % prop_size]
ValueOf(i, size) == i % size

WriteProp ==
  /\ props < Len(space)
  /\ ret' = [i \in DOMAIN ret |-> Append(ret[i], ValueOf(i - 1, space[props + 1]))]
  /\ props' = props + 1
  /\ UNCHANGED space

Next == WriteProp

Spec == Init /\ [][Next]_vars

-----------------------------------------------------------------------------
(* Properties of the finished list.                                        *)

Finished == props = Len(space)

Combinations == {c \in [1 .. Len(space) -> 0 .. MaxValues - 1] :
                   \A p \in 1 .. Len(space) : c[p] < space[p]}

Coprime(a, b) == \A d \in 2 .. a : a % d = 0 => b % d # 0

\* Two properties whose numbers of values have no common divisor are tested in
\* every combination, whatever the others are.
CoprimePairsComplete ==
  Finished =>
    \A p, q \in 1 .. Len(space) : p # q /\ Coprime(space[p], space[q]) =>
      {<<ret[i][p], ret[i][q]>> : i \in DOMAIN ret}
        = (0 .. space[p] - 1) \X (0 .. space[q] - 1)

\* What the test says and the code does not do.

\* The test looks for every combination of its properties' values in the list
\* (their numbers, 11, 3 and 10, happen to have no common divisor).
EveryCombination == Finished => Range(ret) = Combinations
=============================================================================
