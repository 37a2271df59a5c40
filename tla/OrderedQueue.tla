---------------------------- MODULE OrderedQueue ----------------------------
(***************************************************************************)
(* OrderedQueue of lib/avsc: a heap of items by index that gives them back  *)
(* only consecutively; the queue of BlockDecoder and of BlockEncoder.  It   *)
(* implements ConsecutiveQueue, which those modules use in its place.       *)
(* Mut... operators are faulty variants of the operator that follows.       *)
(***************************************************************************)
EXTENDS Integers, SequencesExt

CONSTANT Indices   \* of the items: 0 to some number, each pushed once, in any order

ASSUME IndicesAssumption ==
  /\ Indices \subseteq Nat /\ IsFiniteSet(Indices)
  /\ Indices = 0 .. Cardinality(Indices) - 1

VARIABLES
  items,    \* _items, by index
  next,     \* _index
  entered,  \* what was pushed so far
  result    \* what the last call returned

queueVars == <<items, next, entered, result>>

NoItem == -1      \* null
Done == -2        \* of push, which returns nothing

\* Places are counted from 0, as in the code.
Swap(list, i, j) == [list EXCEPT ![i + 1] = list[j + 1], ![j + 1] = list[i + 1]]
Parent(i) == (i - 1) \div 2

\* A turn of the loop of push: the item at its place moves up unless its parent comes before it.
Rise(s) ==
  IF s.at > 0 /\ s.list[s.at + 1] < s.list[Parent(s.at) + 1]
  THEN [list |-> Swap(s.list, s.at, Parent(s.at)), at |-> Parent(s.at)] ELSE s

\* The smaller child of i, the first if they are equal or there is no other.
MutChild(list, i) == 2 * i + 1
Child(list, i) ==
  LET first == 2 * i + 1
  IN  IF first + 1 >= Len(list) \/ list[first + 1] <= list[first + 2] THEN first ELSE first + 1

\* A turn of the loop of pop: the item at its place moves down unless its children come after it.
Sink(s) ==
  IF s.at < Len(s.list) \div 2 /\ s.list[Child(s.list, s.at) + 1] < s.list[s.at + 1]
  THEN [list |-> Swap(s.list, s.at, Child(s.list, s.at)), at |-> Child(s.list, s.at)] ELSE s

\* The list after the loop, which has fewer turns than there are items.
Sifted(Turn(_), list, place) ==
  LET turns[n \in 0..Len(list)] == IF n = 0 THEN [list |-> list, at |-> place] ELSE Turn(turns[n - 1])
  IN  turns[Len(list)].list

QInit == items = <<>> /\ next = 0 /\ entered = {} /\ result = Done

Push(i) ==
  /\ i \notin entered
  /\ entered' = entered \cup {i}
  /\ items' = Sifted(Rise, Append(items, i), Len(items))
  /\ result' = Done
  /\ UNCHANGED next

Pop ==
  /\ IF items = <<>> \/ Head(items) > next
     THEN result' = NoItem /\ UNCHANGED <<items, next>>
     ELSE /\ result' = Head(items)
          /\ next' = next + 1
          /\ items' = IF Len(items) = 1 THEN <<>>
                      ELSE Sifted(Sink, <<Last(items)>> \o SubSeq(items, 2, Len(items) - 1), 0)
  /\ UNCHANGED entered

QNext == (\E i \in Indices : Push(i)) \/ Pop

QSpec == QInit /\ [][QNext]_queueVars

QTypeOK ==
  /\ entered \subseteq Indices /\ next \in 0 .. Cardinality(Indices)
  /\ ToSet(items) \subseteq entered /\ IsInjective(items)
  /\ result \in Indices \cup {NoItem, Done}

\* OrderedQueue: whatever order the blocks come in, pop gives the next one as soon as it is
\* there, and nothing before.
Promise == INSTANCE ConsecutiveQueue WITH waiting <- ToSet(items)
QueueImplements == Promise!CSpec
=============================================================================
