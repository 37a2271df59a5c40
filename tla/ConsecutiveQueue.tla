-------------------------- MODULE ConsecutiveQueue --------------------------
(***************************************************************************)
(* What a queue of indexed items promises: the next item whenever it is     *)
(* among those that wait, and null else.                                    *)
(***************************************************************************)
EXTENDS Integers

CONSTANT Indices

VARIABLES
  waiting,  \* the items that were put and not taken
  next,     \* the index of the next one to take
  entered,  \* all that were put
  result    \* what the last call returned: an item, -1 for null, -2 for nothing

consecutiveVars == <<waiting, next, entered, result>>

CInit == waiting = {} /\ next = 0 /\ entered = {} /\ result = -2

Put(i) ==
  /\ i \in Indices \ entered
  /\ entered' = entered \cup {i} /\ waiting' = waiting \cup {i}
  /\ result' = -2
  /\ UNCHANGED next

Take ==
  /\ next \in waiting
  /\ waiting' = waiting \ {next} /\ next' = next + 1 /\ result' = next
  /\ UNCHANGED entered

Miss == next \notin waiting /\ result' = -1 /\ UNCHANGED <<waiting, next, entered>>

CNext == (\E i \in Indices : Put(i)) \/ Take \/ Miss

CSpec == CInit /\ [][CNext]_consecutiveVars
=============================================================================
