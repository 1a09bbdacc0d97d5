--------------------------- MODULE MempoolProofs ---------------------------
(***************************************************************************)
(* What the copy of the mempool guarantees for any transactions, fees and  *)
(* number of changes.  MempoolInv is the inductive invariant: it follows   *)
(* every change of the node's mempool to the copy.  That the speeds made   *)
(* from the copy are in order follows from the types alone, by what the    *)
(* sums of the library's folds are.                                        *)
(***************************************************************************)
EXTENDS Mempool, TLAPS, SequenceTheorems, FiniteSetTheorems

\* What is on its way to the copy.
Items == Waiting \cup (IF hand = Nothing THEN {} ELSE {hand})

About(h) == {i \in Items : i.hash = h}

\* What a record, or a removal, makes of the entry of its transaction.
Value(i) == IF i.fee < 0 THEN Absent ELSE i.fee

\* Nothing tells of a change to come, and what tells of the last change is true.
ItemsCurrent ==
    \A i \in Items : i.nr <= events /\ (i.nr = events => Value(i) = node[i.hash])

\* The consumer works on the oldest of the items about its transaction.
InOrder ==
    hand # Nothing /\ hand.hash \notin lost =>
        \A j \in Waiting : j.hash = hand.hash => hand.nr <= j.nr

\* The latest item about a transaction tells what the node has, or the copy has
\* it when there is none.  Before the mempool is read as a whole, that much is
\* known only of transactions that are not in it.
LatestTrue ==
    \A h \in Hashes \ lost : "fill" \in open \/ node[h] = Absent =>
        /\ About(h) = {} => pool[h] = node[h]
        /\ \A i \in About(h) : (\A j \in About(h) : j.nr <= i.nr) => Value(i) = node[h]

Typed == TypeOK /\ adds \in Seq(Item) /\ dels \in Seq(Item)

\* The mempool is read as a whole once.
FilledOnce == "fill" \notin open => fill = {}

MempoolInv == Typed /\ FilledOnce /\ ItemsCurrent /\ InOrder /\ LatestTrue

-----------------------------------------------------------------------------
\* No item is nothing.
LEMMA NothingIsNoItem == Nothing \notin Item
  BY DEF Nothing, Item

\* What a queue holds after an append and after its head is taken.
LEMMA QueueItems ==
    ASSUME NEW S, NEW s \in Seq(S), NEW x \in S
    PROVE  /\ ToSet(Append(s, x)) = ToSet(s) \cup {x}
           /\ Append(s, x) \in Seq(S)
           /\ ToSet(s) \subseteq S
<1>1. Len(Append(s, x)) = Len(s) + 1 /\ DOMAIN Append(s, x) = 1..(Len(s) + 1)
  BY AppendProperties
<1>2. \A i \in 1..Len(s) : Append(s, x)[i] = s[i]
  BY AppendProperties
<1>3. Append(s, x)[Len(s) + 1] = x
  BY AppendProperties
<1>4. QED
  BY <1>1, <1>2, <1>3, AppendProperties, ElementOfSeq DEF ToSet

\* Taking the head off a queue leaves the rest of what is in it.
LEMMA QueueHead ==
    ASSUME NEW S, NEW s \in Seq(S), s # <<>>
    PROVE  /\ Head(s) \in S /\ Tail(s) \in Seq(S)
           /\ ToSet(s) = ToSet(Tail(s)) \cup {Head(s)}
<1>1. Len(s) \in Nat /\ Len(s) > 0 /\ DOMAIN s = 1..Len(s)
  BY EmptySeq, LenProperties
<1>2. Head(s) = s[1] /\ Head(s) \in S /\ Tail(s) \in Seq(S)
      /\ Len(Tail(s)) = Len(s) - 1 /\ \A i \in 1..Len(Tail(s)) : Tail(s)[i] = s[i + 1]
  BY HeadTailProperties, <1>1
<1>3. DOMAIN Tail(s) = 1..(Len(s) - 1)
  BY <1>2, LenProperties
<1> DEFINE t == Tail(s)
<1>4. ASSUME NEW i \in 1..Len(s), i # 1
      PROVE  s[i] \in ToSet(t)
  <2> DEFINE n == Len(s)
  <2>0. n \in Nat /\ i \in 1..n /\ Len(t) = n - 1
    BY <1>1, <1>2
  <2> HIDE DEF n, t
  <2>1. (i - 1) \in 1..Len(t) /\ (i - 1) + 1 = i
    BY <2>0, <1>4
  <2> USE DEF t
  <2>2. t[i - 1] = s[(i - 1) + 1]
    BY <2>1, <1>2
  <2>3. QED
    BY <2>1, <2>2, <1>2, <1>3 DEF ToSet
<1>5. \A i \in 1..Len(t) : t[i] \in ToSet(s)
  <2>1. \A i \in 1..Len(t) : (i + 1) \in 1..Len(s)
    BY <1>1, <1>2
  <2>2. QED
    BY <2>1, <1>1, <1>2 DEF ToSet
<1>6. s[1] \in ToSet(s)
  BY <1>1 DEF ToSet
<1> HIDE DEF t
<1>7. ToSet(t) \subseteq ToSet(s)
  BY <1>2, <1>3, <1>5 DEF ToSet, t
<1>8. ToSet(s) \subseteq ToSet(t) \cup {s[1]}
  BY <1>1, <1>4 DEF ToSet
<1>9. QED
  BY <1>2, <1>6, <1>7, <1>8 DEF t

-----------------------------------------------------------------------------
\* Nothing has been read at first.
LEMMA InitMempool == Init => MempoolInv
<1> SUFFICES ASSUME Init PROVE MempoolInv
  OBVIOUS
<1> USE MempoolAssumption DEF Init
<1>1. Waiting = {} /\ Items = {}
  BY DEF Waiting, Items, ToSet
<1>2. Typed
  BY <1>1 DEF Typed, TypeOK, Absent
<1>3. QED
  BY <1>1, <1>2 DEF MempoolInv, FilledOnce, ItemsCurrent, InOrder, LatestTrue, About, Absent

\* A change of the node's mempool that a stream tells of is the latest.
LEMMA ToldKeeps ==
    ASSUME MempoolInv, NEW h \in Hashes, NEW i \in Item,
           i.hash = h, i.nr = events', Value(i) = node'[h], events' = events + 1,
           \A g \in Hashes \ {h} : node'[g] = node[g],
           Waiting' = Waiting \cup {i}, lost \subseteq lost',
           UNCHANGED <<open, hand, pool>>
    PROVE  ItemsCurrent' /\ InOrder' /\ LatestTrue'
<1> USE DEF MempoolInv, Typed, TypeOK
<1>1. Items' = Items \cup {i} /\ i \in Items'
  BY DEF Items
<1>2. \A j \in Items : j \in Item /\ j.nr \in Nat /\ j.nr <= events /\ j.nr < events'
  BY MempoolAssumption DEF ItemsCurrent, Items, Item, Value
<1>3. ItemsCurrent'
  BY <1>1, <1>2 DEF ItemsCurrent, Value
<1>4. InOrder'
  BY <1>2 DEF InOrder, Items
<1>5. ASSUME NEW g \in Hashes \ lost', "fill" \in open \/ node'[g] = Absent
      PROVE  /\ About(g)' = {} => pool'[g] = node'[g]
             /\ \A k \in About(g)' : (\A j \in About(g)' : j.nr <= k.nr) => Value(k) = node'[g]
  <2>1. CASE g = h
    <3>1. i \in About(g)' /\ About(g)' = About(g) \cup {i}
      BY <1>1, <2>1 DEF About
    <3>2. \A k \in About(g) : ~(i.nr <= k.nr)
      BY <1>2 DEF About
    <3>3. QED
      BY <3>1, <3>2, <2>1
  <2>2. CASE g # h
    <3>1. About(g)' = About(g)
      BY <1>1, <2>2 DEF About
    <3>2. QED
      BY <3>1, <2>2, <1>5 DEF LatestTrue
  <2>3. QED
    BY <2>1, <2>2
<1>6. QED
  BY <1>3, <1>4, <1>5 DEF LatestTrue, Value

-----------------------------------------------------------------------------
\* The consumer takes the oldest item about its transaction, or that is recorded.
LEMMA TakeKeeps ==
    ASSUME MempoolInv, NEW i \in Waiting, Take(i), Waiting' \cup {i} = Waiting
    PROVE  /\ ItemsCurrent' /\ InOrder' /\ LatestTrue'
           /\ lost' \subseteq Hashes /\ Waiting' \subseteq Item /\ hand' \in Item
<1> USE DEF MempoolInv, Typed, TypeOK, Take
<1>1. i \in Item /\ i # Nothing /\ i.hash \in Hashes
  BY NothingIsNoItem DEF Item
<1>2. Items' = Items
  BY <1>1 DEF Items
<1>3. ItemsCurrent'
  BY <1>2 DEF ItemsCurrent
<1>4. InOrder'
  <2>1. \A j \in Waiting : j \in Item /\ j.nr \in Nat /\ i.nr \in Nat
    BY MempoolAssumption, <1>1 DEF Item
  <2>2. QED
    BY <2>1 DEF InOrder
<1>5. LatestTrue'
  BY <1>1, <1>2 DEF LatestTrue, About
<1>6. QED
  BY <1>1, <1>3, <1>4, <1>5

\* A record that enters the mempool is the latest about its transaction.
LEMMA NodeAddsKeeps ==
    ASSUME MempoolInv, NEW h \in Hashes, NEW f \in Fees, NodeAdds(h, f)
    PROVE  MempoolInv'
<1> USE MempoolAssumption DEF MempoolInv, Typed, TypeOK, FilledOnce, NodeAdds
<1> DEFINE i == Record(h, f, events + 1)
<1>1. i \in Item /\ i.hash = h /\ i.nr = events' /\ Value(i) = f /\ f # Absent
  BY DEF Item, Record, Value, Absent
<1>2. node'[h] = f /\ \A g \in Hashes \ {h} : node'[g] = node[g]
  OBVIOUS
<1> HIDE DEF i
<1>3. CASE "add" \in open
  <2>1. adds' = Append(adds, i) /\ adds' \in Seq(Item) /\ Waiting' = Waiting \cup {i}
    BY <1>1, <1>3, QueueItems DEF Waiting, i
  <2>2. ItemsCurrent' /\ InOrder' /\ LatestTrue'
    BY <2>1, <1>1, <1>2, <1>3, ToldKeeps
  <2>3. Typed'
    BY <2>1, <1>1, <1>3
  <2>4. QED
    BY <2>2, <2>3
<1>4. CASE "add" \notin open
  <2>1. Items' = Items /\ Waiting' = Waiting
    BY <1>4 DEF Items, Waiting
  <2>2. \A j \in Items : j \in Item /\ j.nr \in Nat /\ j.nr <= events /\ j.nr < events'
    BY DEF ItemsCurrent, Items, Item
  <2>3. ItemsCurrent' /\ InOrder'
    BY <2>1, <2>2, <1>4 DEF ItemsCurrent, InOrder
  <2>4. LatestTrue'
    BY <2>1, <1>1, <1>2, <1>4 DEF LatestTrue, About
  <2>5. Typed'
    BY <2>1, <1>4
  <2>6. QED
    BY <2>3, <2>4, <2>5
<1>5. QED
  BY <1>3, <1>4

\* So is the removal of one; with no stream to tell, the transaction is lost.
LEMMA NodeRemovesKeeps ==
    ASSUME MempoolInv, NEW h \in Hashes, NodeRemoves(h)
    PROVE  MempoolInv'
<1> USE MempoolAssumption DEF MempoolInv, Typed, TypeOK, FilledOnce, NodeRemoves
<1> DEFINE i == Removal(h, events + 1)
<1>1. i \in Item /\ i.hash = h /\ i.nr = events' /\ Value(i) = Absent
  BY DEF Item, Removal, Value, Absent
<1>2. node'[h] = Absent /\ \A g \in Hashes \ {h} : node'[g] = node[g]
  OBVIOUS
<1> HIDE DEF i
<1>3. CASE "delete" \in open
  <2>1. dels' = Append(dels, i) /\ dels' \in Seq(Item) /\ Waiting' = Waiting \cup {i}
    BY <1>1, <1>3, QueueItems DEF Waiting, i
  <2>2. ItemsCurrent' /\ InOrder' /\ LatestTrue'
    BY <2>1, <1>1, <1>2, <1>3, ToldKeeps
  <2>3. Typed'
    BY <2>1, <1>1, <1>3
  <2>4. QED
    BY <2>2, <2>3
<1>4. CASE "delete" \notin open
  <2>1. Items' = Items /\ Waiting' = Waiting
    BY <1>4 DEF Items, Waiting
  <2>2. \A j \in Items : j \in Item /\ j.nr \in Nat /\ j.nr <= events /\ j.nr < events'
    BY DEF ItemsCurrent, Items, Item
  <2>3. ItemsCurrent' /\ InOrder'
    BY <2>1, <2>2, <1>4 DEF ItemsCurrent, InOrder
  <2>4. h \in lost' \/ (About(h) = {} /\ pool[h] = Absent)
    BY <1>4 DEF Heard, About, Items
  <2>5. LatestTrue'
    BY <2>1, <2>4, <1>2, <1>4 DEF LatestTrue, About
  <2>6. Typed'
    BY <2>1, <1>4
  <2>7. QED
    BY <2>3, <2>5, <2>6
<1>5. QED
  BY <1>3, <1>4

-----------------------------------------------------------------------------
\* The fill tells of every transaction in the mempool, as it is.
LEMMA OpenKeeps ==
    ASSUME MempoolInv, NEW t \in Streams, Open(t)
    PROVE  MempoolInv'
<1> USE MempoolAssumption DEF MempoolInv, Typed, TypeOK, FilledOnce, Open
<1>1. CASE t # "fill"
  <2>1. Items' = Items /\ Waiting' = Waiting
    BY <1>1 DEF Items, Waiting
  <2>2. QED
    BY <2>1, <1>1 DEF ItemsCurrent, InOrder, LatestTrue, About
<1>2. CASE t = "fill"
  <2> DEFINE F == {Record(h, node[h], events) : h \in {g \in Hashes : node[g] # Absent}}
  <2>1. fill' = F /\ "fill" \in open'
    BY <1>2
  <2>2. \A i \in F : /\ i \in Item /\ i.nr = events /\ i.hash \in Hashes
                     /\ node[i.hash] # Absent /\ Value(i) = node[i.hash]
    <3>1. ASSUME NEW h \in Hashes, node[h] # Absent
          PROVE  LET i == Record(h, node[h], events)
                 IN i \in Item /\ i.nr = events /\ i.hash = h /\ Value(i) = node[h]
      <4> DEFINE f == node[h]
      <4>1. f \in Fees /\ ~(f < 0)
        BY <3>1 DEF Absent
      <4> HIDE DEF f
      <4>2. Record(h, f, events) \in Item /\ Value(Record(h, f, events)) = f
        BY <4>1 DEF Item, Record, Value
      <4>3. QED
        BY <4>2 DEF Record, f
    <3>2. QED
      BY <3>1
  <2>3. ASSUME NEW h \in Hashes, node[h] # Absent
        PROVE  \E i \in F : i.hash = h
    <3>1. Record(h, node[h], events) \in F
      BY <2>3
    <3>2. QED
      BY <3>1 DEF Record
  <2>4. fill = {} /\ Waiting' = Waiting \cup F /\ Items' = Items \cup F
    BY <2>1, <1>2 DEF Waiting, Items
  <2> HIDE DEF F
  <2>5. \A j \in Items : j \in Item /\ j.nr \in Nat /\ j.nr <= events
    BY DEF ItemsCurrent, Items, Item
  <2>6. Typed' /\ FilledOnce'
    BY <2>1, <2>2, <2>4
  <2>7. ItemsCurrent'
    BY <2>2, <2>4 DEF ItemsCurrent
  <2>8. InOrder'
    BY <2>2, <2>4, <2>5 DEF InOrder, Items
  <2>9. ASSUME NEW h \in Hashes \ lost, NEW i \in About(h)',
               \A j \in About(h)' : j.nr <= i.nr
        PROVE  Value(i) = node[h]
    <3>1. CASE i \in F
      BY <3>1, <2>2 DEF About
    <3>2. CASE i \notin F /\ node[h] = Absent
      <4>1. About(h) \subseteq About(h)' /\ i \in About(h)
        BY <2>4, <3>2 DEF About
      <4>2. QED
        BY <4>1, <3>2, <2>9 DEF LatestTrue
    <3>3. CASE i \notin F /\ node[h] # Absent
      <4>1. PICK j \in F : j.hash = h
        BY <2>3, <3>3
      <4>2. i \in Items /\ i.hash = h /\ events <= i.nr
        BY <4>1, <3>3, <2>2, <2>4, <2>9 DEF About
      <4>3. QED
        BY <4>2, <2>5 DEF ItemsCurrent
    <3>4. QED
      BY <3>1, <3>2, <3>3
  <2>10. ASSUME NEW h \in Hashes \ lost, About(h)' = {}
         PROVE  pool[h] = node[h]
    <3>1. About(h) = {} /\ node[h] = Absent
      BY <2>10, <2>3, <2>4 DEF About
    <3>2. QED
      BY <3>1 DEF LatestTrue
  <2>11. LatestTrue'
    BY <2>9, <2>10 DEF LatestTrue
  <2>12. QED
    BY <2>6, <2>7, <2>8, <2>11
<1>3. QED
  BY <1>1, <1>2

-----------------------------------------------------------------------------
\* The streams hand over what they hold; the consumer enters it.
LEMMA StreamKeeps ==
    ASSUME MempoolInv,
           EventGetAllMempool \/ EventAddMempoolRecord \/ EventDeleteMempool
    PROVE  MempoolInv'
<1> USE MempoolAssumption DEF MempoolInv, Typed, TypeOK, FilledOnce
<1>1. ASSUME NEW i \in fill, Take(i), fill' = fill \ {i}, UNCHANGED <<adds, dels>>
      PROVE  MempoolInv'
  <2>1. i \in Waiting /\ Waiting' \cup {i} = Waiting
    BY <1>1 DEF Waiting
  <2>2. QED
    BY <2>1, <1>1, TakeKeeps DEF Take
<1>2. CASE EventAddMempoolRecord
  <2>1. /\ Head(adds) \in Item /\ Tail(adds) \in Seq(Item)
        /\ ToSet(adds) = ToSet(Tail(adds)) \cup {Head(adds)}
    BY <1>2, QueueHead DEF EventAddMempoolRecord
  <2>2. Head(adds) \in Waiting /\ Waiting' \cup {Head(adds)} = Waiting
    BY <2>1, <1>2 DEF Waiting, EventAddMempoolRecord
  <2>3. QED
    BY <2>1, <2>2, <1>2, TakeKeeps DEF Take, EventAddMempoolRecord
<1>3. CASE EventDeleteMempool
  <2>1. /\ Head(dels) \in Item /\ Tail(dels) \in Seq(Item)
        /\ ToSet(dels) = ToSet(Tail(dels)) \cup {Head(dels)}
    BY <1>3, QueueHead DEF EventDeleteMempool
  <2>2. Head(dels) \in Waiting /\ Waiting' \cup {Head(dels)} = Waiting
    BY <2>1, <1>3 DEF Waiting, EventDeleteMempool
  <2>3. QED
    BY <2>1, <2>2, <1>3, TakeKeeps DEF Take, EventDeleteMempool
<1>4. QED
  BY <1>1, <1>2, <1>3 DEF EventGetAllMempool

\* What the consumer enters is what the oldest item says; the later ones wait.
LEMMA ApplyKeeps ==
    ASSUME MempoolInv, Apply
    PROVE  MempoolInv'
<1> USE MempoolAssumption DEF MempoolInv, Typed, TypeOK, FilledOnce, Apply
<1>1. hand \in Item /\ hand.hash \in Hashes /\ pool' = [pool EXCEPT ![hand.hash] = Value(hand)]
  BY DEF Item, Value
<1>2. Waiting' = Waiting /\ Items' = Waiting /\ Items = Waiting \cup {hand}
  BY DEF Waiting, Items
<1>3. Typed' /\ FilledOnce'
  <2>1. Value(hand) \in Fees \cup {Absent}
    BY <1>1 DEF Item, Value, Absent
  <2>2. QED
    BY <2>1, <1>1, <1>2
<1>4. ItemsCurrent' /\ InOrder'
  BY <1>2 DEF ItemsCurrent, InOrder
<1>5. ASSUME NEW h \in Hashes \ lost, "fill" \in open \/ node[h] = Absent
      PROVE  /\ About(h)' = {} => pool'[h] = node[h]
             /\ \A i \in About(h)' : (\A j \in About(h)' : j.nr <= i.nr) => Value(i) = node[h]
  <2>1. CASE h # hand.hash
    <3>1. About(h)' = About(h) /\ pool'[h] = pool[h]
      BY <1>1, <1>2, <2>1 DEF About
    <3>2. QED
      BY <3>1, <1>5 DEF LatestTrue
  <2>2. CASE h = hand.hash
    <3>1. About(h) = About(h)' \cup {hand} /\ pool'[h] = Value(hand)
      BY <1>1, <1>2, <2>2 DEF About
    <3>2. \A i \in About(h)' : hand.nr <= i.nr
      BY <1>2, <2>2 DEF About, InOrder
    <3>3. hand.nr <= hand.nr
      BY <1>1 DEF Item
    <3>4. QED
      BY <3>1, <3>2, <3>3, <1>5 DEF LatestTrue
  <2>3. QED
    BY <2>1, <2>2
<1>6. LatestTrue'
  BY <1>5 DEF LatestTrue
<1>7. QED
  BY <1>3, <1>4, <1>6

\* Every step keeps the invariant.
LEMMA NextKeeps == MempoolInv /\ [Next]_vars => MempoolInv'
<1> SUFFICES ASSUME MempoolInv, [Next]_vars PROVE MempoolInv'
  OBVIOUS
<1>1. CASE \E h \in Hashes : NodeRemoves(h) \/ \E f \in Fees : NodeAdds(h, f)
  BY <1>1, NodeAddsKeeps, NodeRemovesKeeps
<1>2. CASE \E t \in Streams : Open(t)
  BY <1>2, OpenKeeps
<1>3. CASE EventGetAllMempool \/ EventAddMempoolRecord \/ EventDeleteMempool
  BY <1>3, StreamKeeps
<1>4. CASE Apply
  BY <1>4, ApplyKeeps
<1>5. CASE UNCHANGED vars
  BY <1>5 DEF vars, MempoolInv, Typed, TypeOK, FilledOnce, ItemsCurrent, InOrder, LatestTrue,
              Items, Waiting, About, Value
<1>6. QED
  BY <1>1, <1>2, <1>3, <1>4, <1>5 DEF Next

-----------------------------------------------------------------------------
\* Every change of the node's mempool is on its way to the copy or in it.
THEOREM MempoolInvariant == Spec => []MempoolInv
<1>1. QED
  BY InitMempool, NextKeeps, PTL DEF Spec

\* Types, and the copy has nothing but fees, for any transactions and fees.
THEOREM MempoolTyped == Spec => []TypeOK
<1>1. MempoolInv => TypeOK
  BY DEF MempoolInv, Typed
<1>2. QED
  BY <1>1, MempoolInvariant, PTL

\* Three goroutines and one consumer leave the copy as the node's mempool is,
\* but for transactions whose items overtook each other or were not sent.
THEOREM MempoolMirrorsNode == Spec => []RestMirrorsNode
<1>1. MempoolInv => RestMirrorsNode
  <2> SUFFICES ASSUME MempoolInv, open = Streams, Waiting = {}, hand = Nothing,
                      NEW h \in Hashes \ lost
               PROVE  pool[h] = node[h]
    BY DEF RestMirrorsNode
  <2>1. About(h) = {} /\ "fill" \in open
    BY DEF About, Items, Streams
  <2>2. QED
    BY <2>1 DEF MempoolInv, LatestTrue
<1>2. QED
  BY <1>1, MempoolInvariant, PTL

-----------------------------------------------------------------------------
(* Sums: SumFunctionOnSet of the library, and what its fold computes.        *)

\* If a subset of a finite set is in P whenever the smaller ones are, all are.  The
\* order of the subsets is well founded, which takes the place of induction.
LEMMA SubsetInduction ==
    ASSUME NEW S, IsFiniteSet(S), NEW P,
           \A T \in SUBSET S : (SUBSET T) \ {T} \subseteq P => T \in P
    PROVE  SUBSET S \subseteq P
<1> DEFINE Bad == (SUBSET S) \ P
<1>1. SUFFICES ASSUME Bad # {} PROVE FALSE
  OBVIOUS
<1>2. IsWellFoundedOn(StrictSubsetOrdering(S), SUBSET S)
  BY FS_StrictSubsetOrderingWellFounded, FS_FiniteSubsetsOfFinite
<1>3. Bad \subseteq SUBSET S
  OBVIOUS
<1>4. PICK T \in Bad : \A U \in Bad : ~(<<U, T>> \in StrictSubsetOrdering(S))
  <2> HIDE DEF Bad
  <2>1. QED
    BY <1>1, <1>2, <1>3, WFMin
<1>5. \A U \in (SUBSET T) \ {T} : U \notin Bad
  BY <1>4 DEF StrictSubsetOrdering
<1>6. QED
  BY <1>5

\* The member the fold takes first.
Pick(s) == CHOOSE x \in s : TRUE

\* The sums of F over the subsets of S, as the fold of the library adds them up.
Sums(F, S, g) == g = [s \in SUBSET S |-> IF s = {} THEN 0 ELSE F[Pick(s)] + g[s \ {Pick(s)}]]

\* It is one of them.
LEMMA PickIn == ASSUME NEW s, s # {} PROVE Pick(s) \in s
  BY DEF Pick

\* The operator of the library, by its definition.
LEMMA SumIsFold ==
    ASSUME NEW F, NEW S
    PROVE  SumFunctionOnSet(F, S) = (CHOOSE g : Sums(F, S, g))[S]
  BY DEF SumFunctionOnSet, FoldFunctionOnSet, MapThenFoldSet, Sums, Pick

\* There is no other function with these sums.
LEMMA SumsOne ==
    ASSUME NEW F, NEW S, IsFiniteSet(S), NEW g, NEW h, Sums(F, S, g), Sums(F, S, h)
    PROVE  g = h
<1> DEFINE P == {s \in SUBSET S : g[s] = h[s]}
<1>1. /\ g = [s \in SUBSET S |-> g[s]] /\ h = [s \in SUBSET S |-> h[s]]
      /\ \A s \in SUBSET S : g[s] = IF s = {} THEN 0 ELSE F[Pick(s)] + g[s \ {Pick(s)}]
      /\ \A s \in SUBSET S : h[s] = IF s = {} THEN 0 ELSE F[Pick(s)] + h[s \ {Pick(s)}]
  BY DEF Sums
<1>2. ASSUME NEW T \in SUBSET S, (SUBSET T) \ {T} \subseteq P PROVE T \in P
  <2>1. CASE T = {}
    BY <1>1, <2>1
  <2>2. CASE T # {}
    <3>1. T \ {Pick(T)} \in P
      BY <1>2, <2>2, PickIn
    <3>2. QED
      BY <1>1, <2>2, <3>1
  <2>3. QED
    BY <2>1, <2>2
<1>3. SUBSET S \subseteq P
  <2> HIDE DEF P
  <2>1. QED
    BY <1>2, SubsetInduction
<1>4. \A s \in SUBSET S : g[s] = h[s]
  BY <1>3
<1>5. QED
  BY <1>1, <1>4

\* A sum is that of the members left when one is picked, and the picked one.
LEMMA SumPicks ==
    ASSUME NEW F, NEW S, IsFiniteSet(S)
    PROVE  SumFunctionOnSet(F, S) = IF S = {} THEN 0
                                    ELSE F[Pick(S)] + SumFunctionOnSet(F, S \ {Pick(S)})
<1> DEFINE Picked(s) == IF s = {} THEN 0 ELSE F[Pick(s)] + SumFunctionOnSet(F, s \ {Pick(s)})
           P == {s \in SUBSET S : SumFunctionOnSet(F, s) = Picked(s)}
<1>1. ASSUME NEW T \in SUBSET S, (SUBSET T) \ {T} \subseteq P PROVE T \in P
  <2> DEFINE g == [s \in SUBSET T |-> IF s = T THEN Picked(T) ELSE SumFunctionOnSet(F, s)]
  <2>1. ASSUME NEW s \in SUBSET T
        PROVE  g[s] = IF s = {} THEN 0 ELSE F[Pick(s)] + g[s \ {Pick(s)}]
    <3>1. g[s] = Picked(s)
      BY <1>1
    <3>2. s # {} => s \ {Pick(s)} \in (SUBSET T) \ {T}
      BY PickIn
    <3>3. s # {} => g[s \ {Pick(s)}] = SumFunctionOnSet(F, s \ {Pick(s)})
      BY <3>2
    <3>4. QED
      BY <3>1, <3>3
  <2>2. Sums(F, T, g)
    <3>1. g = [s \in SUBSET T |-> g[s]]
      OBVIOUS
    <3> HIDE DEF g
    <3>2. [s \in SUBSET T |-> g[s]]
             = [s \in SUBSET T |-> IF s = {} THEN 0 ELSE F[Pick(s)] + g[s \ {Pick(s)}]]
      BY <2>1
    <3>3. QED
      BY <3>1, <3>2 DEF Sums
  <2>3. g[T] = Picked(T)
    OBVIOUS
  <2> HIDE DEF g
  <2>4. Sums(F, T, CHOOSE c : Sums(F, T, c))
    BY <2>2
  <2>5. IsFiniteSet(T)
    BY FS_Subset
  <2>6. (CHOOSE c : Sums(F, T, c)) = g
    BY <2>2, <2>4, <2>5, SumsOne
  <2>7. QED
    BY <2>3, <2>6, SumIsFold
<1>2. SUBSET S \subseteq P
  <2> HIDE DEF P
  <2>1. QED
    BY <1>1, SubsetInduction
<1>3. QED
  BY <1>2

\* A sum of natural numbers is one, and any member may be taken from it.
LEMMA SumTakes ==
    ASSUME NEW S, IsFiniteSet(S), NEW F, \A x \in S : F[x] \in Nat
    PROVE  /\ SumFunctionOnSet(F, S) \in Nat
           /\ \A x \in S : SumFunctionOnSet(F, S) = F[x] + SumFunctionOnSet(F, S \ {x})
<1> DEFINE P == {s \in SUBSET S :
                    /\ SumFunctionOnSet(F, s) \in Nat
                    /\ \A x \in s : SumFunctionOnSet(F, s) = F[x] + SumFunctionOnSet(F, s \ {x})}
<1>1. ASSUME NEW T \in SUBSET S, (SUBSET T) \ {T} \subseteq P PROVE T \in P
  <2>1. IsFiniteSet(T)
    BY FS_Subset
  <2>2. CASE T = {}
    <3>1. SumFunctionOnSet(F, T) = 0
      BY <2>1, <2>2, SumPicks
    <3>2. QED
      BY <2>2, <3>1
  <2>3. CASE T # {}
    <3> DEFINE y == Pick(T)
    <3>1. y \in T
      BY <2>3, PickIn
    <3>2. SumFunctionOnSet(F, T) = F[y] + SumFunctionOnSet(F, T \ {y})
      BY <2>1, <2>3, SumPicks
    <3> HIDE DEF y
    <3>3. \A x \in T : T \ {x} \in P
      BY <1>1
    <3>4. SumFunctionOnSet(F, T) \in Nat
      BY <3>1, <3>2, <3>3
    <3>5. ASSUME NEW x \in T, x # y
          PROVE  SumFunctionOnSet(F, T) = F[x] + SumFunctionOnSet(F, T \ {x})
      <4>1. SumFunctionOnSet(F, T \ {y}) = F[x] + SumFunctionOnSet(F, (T \ {y}) \ {x})
        BY <3>1, <3>3, <3>5
      <4>2. SumFunctionOnSet(F, T \ {x}) = F[y] + SumFunctionOnSet(F, (T \ {x}) \ {y})
        BY <3>1, <3>3, <3>5
      <4>3. (T \ {y}) \ {x} = (T \ {x}) \ {y}
        OBVIOUS
      <4>4. SumFunctionOnSet(F, (T \ {x}) \ {y}) \in Nat
        <5>1. (T \ {x}) \ {y} \in P
          BY <1>1, <3>1
        <5>2. QED
          BY <5>1
      <4>5. F[x] \in Nat /\ F[y] \in Nat
        BY <3>1
      <4>6. PICK n \in Nat : n = SumFunctionOnSet(F, (T \ {x}) \ {y})
        BY <4>4
      <4>7. SumFunctionOnSet(F, T \ {y}) = F[x] + n /\ SumFunctionOnSet(F, T \ {x}) = F[y] + n
        BY <4>1, <4>2, <4>3, <4>6
      <4>8. QED
        BY <3>2, <4>5, <4>7
    <3>6. QED
      BY <3>2, <3>4, <3>5
  <2>4. QED
    BY <2>2, <2>3
<1>2. SUBSET S \subseteq P
  <2> HIDE DEF P
  <2>1. QED
    BY <1>1, SubsetInduction
<1>3. QED
  BY <1>2

\* The sum of fewer is no more.
LEMMA SumSubset ==
    ASSUME NEW S, IsFiniteSet(S), NEW F, \A x \in S : F[x] \in Nat, NEW T \in SUBSET S
    PROVE  SumFunctionOnSet(F, T) <= SumFunctionOnSet(F, S)
<1> DEFINE P == {U \in SUBSET S : T \subseteq U => SumFunctionOnSet(F, T) <= SumFunctionOnSet(F, U)}
<1>1. ASSUME NEW U \in SUBSET S, (SUBSET U) \ {U} \subseteq P PROVE U \in P
  <2> SUFFICES ASSUME T \subseteq U, T # U
               PROVE  SumFunctionOnSet(F, T) <= SumFunctionOnSet(F, U)
    <3>1. SumFunctionOnSet(F, T) \in Nat
      BY FS_Subset, SumTakes
    <3>2. QED
      BY <3>1
  <2>1. PICK x \in U : x \notin T
    OBVIOUS
  <2>2. U \ {x} \in P /\ T \subseteq U \ {x}
    BY <1>1, <2>1
  <2>3. /\ SumFunctionOnSet(F, T) \in Nat /\ SumFunctionOnSet(F, U \ {x}) \in Nat /\ F[x] \in Nat
        /\ SumFunctionOnSet(F, U) = F[x] + SumFunctionOnSet(F, U \ {x})
    <3>1. IsFiniteSet(T) /\ IsFiniteSet(U) /\ IsFiniteSet(U \ {x})
      BY FS_Subset
    <3>2. (\A y \in T : F[y] \in Nat) /\ (\A y \in U : F[y] \in Nat)
      OBVIOUS
    <3>3. QED
      BY <3>1, <3>2, SumTakes
  <2>4. SumFunctionOnSet(F, T) <= SumFunctionOnSet(F, U \ {x})
    BY <2>2
  <2>5. QED
    BY <2>3, <2>4
<1>2. SUBSET S \subseteq P
  <2> HIDE DEF P
  <2>1. QED
    BY <1>1, SubsetInduction
<1>3. QED
  BY <1>2

\* Sums compare as what is added.
LEMMA SumCompares ==
    ASSUME NEW S, IsFiniteSet(S), NEW F, NEW G, \A x \in S : F[x] \in Nat /\ G[x] \in Nat,
           \A x \in S : F[x] <= G[x]
    PROVE  SumFunctionOnSet(F, S) <= SumFunctionOnSet(G, S)
<1> DEFINE P == {U \in SUBSET S : SumFunctionOnSet(F, U) <= SumFunctionOnSet(G, U)}
<1>1. ASSUME NEW U \in SUBSET S, (SUBSET U) \ {U} \subseteq P PROVE U \in P
  <2>1. IsFiniteSet(U)
    BY FS_Subset
  <2>2. CASE U = {}
    <3>1. SumFunctionOnSet(F, U) = 0 /\ SumFunctionOnSet(G, U) = 0
      BY <2>1, <2>2, SumPicks
    <3>2. QED
      BY <3>1
  <2>3. CASE U # {}
    <3>1. PICK x \in U : TRUE
      BY <2>3
    <3>2. IsFiniteSet(U \ {x}) /\ U \ {x} \in P
      BY <1>1, FS_Subset
    <3>3. /\ SumFunctionOnSet(F, U) = F[x] + SumFunctionOnSet(F, U \ {x})
          /\ SumFunctionOnSet(G, U) = G[x] + SumFunctionOnSet(G, U \ {x})
          /\ SumFunctionOnSet(F, U \ {x}) \in Nat /\ SumFunctionOnSet(G, U \ {x}) \in Nat
      BY <2>1, <3>2, SumTakes
    <3>4. F[x] \in Nat /\ G[x] \in Nat /\ F[x] <= G[x]
      OBVIOUS
    <3>5. SumFunctionOnSet(F, U \ {x}) <= SumFunctionOnSet(G, U \ {x})
      BY <3>2
    <3>6. QED
      BY <3>3, <3>4, <3>5
  <2>4. QED
    BY <2>2, <2>3
<1>2. SUBSET S \subseteq P
  <2> HIDE DEF P
  <2>1. QED
    BY <1>1, SubsetInduction
<1>3. QED
  BY <1>2

\* A factor of everything that is added is one of the sum.
LEMMA SumScales ==
    ASSUME NEW S, IsFiniteSet(S), NEW F, NEW G, NEW p \in Nat, \A x \in S : F[x] \in Nat,
           \A x \in S : G[x] = p * F[x]
    PROVE  SumFunctionOnSet(G, S) = p * SumFunctionOnSet(F, S)
<1> DEFINE P == {U \in SUBSET S : SumFunctionOnSet(G, U) = p * SumFunctionOnSet(F, U)}
<1>1. ASSUME NEW U \in SUBSET S, (SUBSET U) \ {U} \subseteq P PROVE U \in P
  <2>1. IsFiniteSet(U)
    BY FS_Subset
  <2>2. CASE U = {}
    <3>1. SumFunctionOnSet(F, U) = 0 /\ SumFunctionOnSet(G, U) = 0
      BY <2>1, <2>2, SumPicks
    <3>2. QED
      BY <3>1
  <2>3. CASE U # {}
    <3>1. PICK x \in U : TRUE
      BY <2>3
    <3>2. IsFiniteSet(U \ {x}) /\ U \ {x} \in P
      BY <1>1, FS_Subset
    <3>3. \A y \in S : G[y] \in Nat
      <4>1. \A n \in Nat : p * n \in Nat
        OBVIOUS
      <4>2. QED
        BY <4>1
    <3>4. /\ SumFunctionOnSet(F, U) = F[x] + SumFunctionOnSet(F, U \ {x})
          /\ SumFunctionOnSet(G, U) = G[x] + SumFunctionOnSet(G, U \ {x})
          /\ SumFunctionOnSet(F, U \ {x}) \in Nat
      BY <2>1, <3>2, <3>3, SumTakes
    <3>5. F[x] \in Nat /\ G[x] = p * F[x]
      OBVIOUS
    <3>6. SumFunctionOnSet(G, U \ {x}) = p * SumFunctionOnSet(F, U \ {x})
      BY <3>2
    <3>7. \A m, n \in Nat : p * m + p * n = p * (m + n)
      OBVIOUS
    <3>8. QED
      BY <3>4, <3>5, <3>6, <3>7
  <2>4. QED
    BY <2>2, <2>3
<1>2. SUBSET S \subseteq P
  <2> HIDE DEF P
  <2>1. QED
    BY <1>1, SubsetInduction
<1>3. QED
  BY <1>2

\* A quotient is on the side of a bound its dividend is on.
LEMMA Quotient ==
    ASSUME NEW x \in Nat, NEW p \in Nat, NEW d \in Nat \ {0}
    PROVE  /\ x \div d \in Nat
           /\ p * d <= x => p <= x \div d
           /\ x <= p * d => x \div d <= p
<1> DEFINE q == x \div d
<1>1. q \in Nat /\ d * q <= x /\ x < d * q + d
  OBVIOUS
<1> HIDE DEF q
<1>2. ASSUME p * d <= x, q < p PROVE FALSE
  <2>1. q + 1 <= p
    BY <1>1, <1>2
  <2>2. d * (q + 1) <= d * p
    BY <1>1, <2>1
  <2>3. d * (q + 1) = d * q + d /\ d * p = p * d
    BY <1>1
  <2>4. QED
    BY <1>1, <1>2, <2>2, <2>3
<1>3. ASSUME x <= p * d, p < q PROVE FALSE
  <2>1. p + 1 <= q
    BY <1>1, <1>3
  <2>2. d * (p + 1) <= d * q
    BY <1>1, <2>1
  <2>3. d * (p + 1) = p * d + d
    OBVIOUS
  <2>4. QED
    BY <1>1, <1>3, <2>2, <2>3
<1>4. QED
  BY <1>1, <1>2, <1>3 DEF q

-----------------------------------------------------------------------------
(* The sorted list of fees: its positions and the averages over them.        *)

\* The fees that come before a fee.
Over(f) == {g \in Fees : g > f}

\* Every fee is a number, and so many pay it.
LEMMA CountTyped ==
    ASSUME TypeOK
    PROVE  Count \in [Fees -> Nat] /\ Fees \subseteq Nat /\ IsFiniteSet(Fees)
<1>1. ASSUME NEW f \in Fees
      PROVE  settled[f] + Cardinality({h \in Hashes : pool[h] = f}) \in Nat
  <2>1. IsFiniteSet({h \in Hashes : pool[h] = f})
    BY MempoolAssumption, FS_Subset
  <2>2. Cardinality({h \in Hashes : pool[h] = f}) \in Nat
    BY <2>1, FS_CardinalityType
  <2>3. QED
    BY <2>2 DEF TypeOK
<1>2. QED
  BY <1>1, MempoolAssumption DEF Count

\* Those that pay more come first, and all of a fee before those that pay less.
LEMMA Positions ==
    ASSUME TypeOK
    PROVE  /\ Size \in Nat
           /\ \A f \in Fees : Count[f] \in Nat /\ Above(f) \in Nat /\ Above(f) + Count[f] <= Size
           /\ \A f, g \in Fees : g < f => Above(f) + Count[f] <= Above(g)
<1>1. Count \in [Fees -> Nat] /\ Fees \subseteq Nat /\ IsFiniteSet(Fees)
  BY CountTyped
<1> HIDE DEF Count
<1>2. Size \in Nat
  BY <1>1, SumTakes DEF Size
<1>3. ASSUME NEW f \in Fees
      PROVE  /\ Over(f) \cup {f} \in SUBSET Fees
             /\ Above(f) \in Nat
             /\ SumFunctionOnSet(Count, Over(f) \cup {f}) = Above(f) + Count[f]
  <2>1. Over(f) \in SUBSET Fees /\ Over(f) \cup {f} \in SUBSET Fees
    BY DEF Over
  <2>2. IsFiniteSet(Over(f)) /\ IsFiniteSet(Over(f) \cup {f})
    BY <1>1, <2>1, FS_Subset
  <2>3. Above(f) = SumFunctionOnSet(Count, Over(f))
    BY DEF Above, Over
  <2>4. SumFunctionOnSet(Count, Over(f)) \in Nat
    BY <1>1, <2>1, <2>2, SumTakes
  <2>5. SumFunctionOnSet(Count, Over(f) \cup {f})
           = Count[f] + SumFunctionOnSet(Count, (Over(f) \cup {f}) \ {f})
    BY <1>1, <2>1, <2>2, SumTakes
  <2>6. (Over(f) \cup {f}) \ {f} = Over(f)
    BY <1>1 DEF Over
  <2>7. Count[f] \in Nat
    BY <1>1
  <2>8. QED
    BY <2>1, <2>3, <2>4, <2>5, <2>6, <2>7
<1>4. ASSUME NEW f \in Fees PROVE Above(f) + Count[f] <= Size
  <2>1. IsFiniteSet(Fees) /\ \A g \in Fees : Count[g] \in Nat
    BY <1>1
  <2>2. Over(f) \cup {f} \in SUBSET Fees
    BY <1>3
  <2>3. SumFunctionOnSet(Count, Over(f) \cup {f}) <= SumFunctionOnSet(Count, Fees)
    BY <2>1, <2>2, SumSubset
  <2>4. SumFunctionOnSet(Count, Over(f) \cup {f}) = Above(f) + Count[f]
    BY <1>3
  <2>5. QED
    BY <2>3, <2>4 DEF Size
<1>5. ASSUME NEW f \in Fees, NEW g \in Fees, g < f
      PROVE  Above(f) + Count[f] <= Above(g)
  <2>1. Over(f) \cup {f} \in SUBSET Over(g)
    <3> SUFFICES ASSUME NEW h \in Over(f) \cup {f} PROVE h \in Over(g)
      OBVIOUS
    <3>1. h \in Fees /\ (h = f \/ h > f)
      BY DEF Over
    <3>2. h \in Nat /\ f \in Nat /\ g \in Nat
      BY <1>1, <3>1
    <3>3. QED
      BY <1>5, <3>1, <3>2 DEF Over
  <2>2. IsFiniteSet(Over(g)) /\ Over(g) \subseteq Fees
    BY <1>1, FS_Subset DEF Over
  <2>3. SumFunctionOnSet(Count, Over(f) \cup {f}) <= SumFunctionOnSet(Count, Over(g))
    BY <1>1, <2>1, <2>2, SumSubset
  <2>4. QED
    BY <1>3, <2>3 DEF Above, Over
<1>6. QED
  BY <1>1, <1>2, <1>3, <1>4, <1>5

\* The least of some fees.
LEMMA LeastFee ==
    ASSUME NEW S \in SUBSET Nat, S # {}
    PROVE  \E m \in S : \A f \in S : m <= f
<1>1. PICK m \in S : \A f \in S : ~(<<f, m>> \in OpToRel(<, Nat))
  BY NatLessThanWellFounded, WFMin
<1>2. \A f \in S : m <= f
  <2> SUFFICES ASSUME NEW f \in S, ~(m <= f) PROVE FALSE
    OBVIOUS
  <2>1. f < m /\ f \in Nat /\ m \in Nat
    OBVIOUS
  <2>2. QED
    BY <1>1, <2>1 DEF OpToRel
<1>3. QED
  BY <1>2

\* How many of the positions each fee has.
Widths(a, b) == [f \in Fees |-> Within(a, b, f)]

\* The position x, moved to the nearest of those from a to b.
Clip(a, b, x) == Smaller(b, Larger(a, x))

\* A fee has the positions between its first and its last, moved so.
LEMMA WithinClips ==
    ASSUME TypeOK, NEW a \in Nat, NEW b \in Nat, a <= b, NEW f \in Fees
    PROVE  /\ Within(a, b, f) \in Nat
           /\ Within(a, b, f) = Clip(a, b, Above(f) + Count[f]) - Clip(a, b, Above(f))
           /\ Within(a, b, f) > 0 => Above(f) < b /\ a < Above(f) + Count[f]
<1>1. PICK lo \in Nat, n \in Nat : lo = Above(f) /\ n = Count[f]
  BY Positions
<1>2. Larger(0, Smaller(b, lo + n) - Larger(a, lo)) \in Nat
  BY DEF Larger, Smaller
<1>3. Larger(0, Smaller(b, lo + n) - Larger(a, lo)) = Clip(a, b, lo + n) - Clip(a, b, lo)
  BY DEF Larger, Smaller, Clip
<1>4. Larger(0, Smaller(b, lo + n) - Larger(a, lo)) > 0 => lo < b /\ a < lo + n
  BY DEF Larger, Smaller
<1>5. QED
  BY <1>1, <1>2, <1>3, <1>4 DEF Within

\* The fees that are paid at some positions pay at each of them once.
LEMMA WidthsAddUp ==
    ASSUME TypeOK, NEW a \in Nat, NEW b \in Nat, a <= b, b <= Size
    PROVE  /\ Widths(a, b) \in [Fees -> Nat]
           /\ SumFunctionOnSet(Widths(a, b), Fees) = b - a
<1>1. Count \in [Fees -> Nat] /\ Fees \subseteq Nat /\ IsFiniteSet(Fees)
  BY CountTyped
<1>2. Widths(a, b) \in [Fees -> Nat] /\ \A f \in Fees : Widths(a, b)[f] = Within(a, b, f)
  BY WithinClips DEF Widths
<1> DEFINE Upper(T) == \A f \in T, g \in Fees : g > f => g \in T
           P == {T \in SUBSET Fees : Upper(T) =>
                   SumFunctionOnSet(Widths(a, b), T) = Clip(a, b, SumFunctionOnSet(Count, T)) - a}
<1>3. ASSUME NEW T \in SUBSET Fees, (SUBSET T) \ {T} \subseteq P PROVE T \in P
  <2>1. IsFiniteSet(T)
    BY <1>1, FS_Subset
  <2>2. CASE T = {}
    <3>1. SumFunctionOnSet(Widths(a, b), T) = 0 /\ SumFunctionOnSet(Count, T) = 0
      BY <2>1, <2>2, SumPicks
    <3>2. Clip(a, b, 0) = a
      BY DEF Clip, Larger, Smaller
    <3>3. QED
      BY <3>1, <3>2
  <2>3. CASE T # {} /\ Upper(T)
    <3>1. PICK m \in T : \A f \in T : m <= f
      BY <1>1, <2>3, LeastFee
    <3>2. T \ {m} = Over(m)
      <4>1. \A g \in Fees : g > m => g \in T
        BY <2>3
      <4>2. \A g \in T : g # m => g \in Fees /\ g > m
        BY <1>1, <3>1
      <4>3. \A g \in Fees : g > m => g # m
        BY <1>1
      <4> HIDE DEF P, Upper
      <4>4. QED
        BY <4>1, <4>2, <4>3 DEF Over
    <3>3. T \ {m} \in P /\ Upper(T \ {m})
      BY <1>1, <1>3, <3>1, <3>2 DEF Over
    <3>4. SumFunctionOnSet(Count, T \ {m}) = Above(m)
      BY <3>2 DEF Above, Over
    <3>5. SumFunctionOnSet(Widths(a, b), T \ {m}) = Clip(a, b, Above(m)) - a
      BY <3>3, <3>4
    <3>6. SumFunctionOnSet(Count, T) = Count[m] + Above(m)
      <4> HIDE DEF P
      <4>1. \A x \in T : Count[x] \in Nat
        BY <1>1
      <4>2. QED
        BY <2>1, <3>4, <4>1, SumTakes
    <3>7. SumFunctionOnSet(Widths(a, b), T)
             = Within(a, b, m) + SumFunctionOnSet(Widths(a, b), T \ {m})
      <4> HIDE DEF P
      <4>1. \A x \in T : Widths(a, b)[x] \in Nat
        BY <1>2
      <4>2. QED
        BY <1>2, <2>1, <4>1, SumTakes
    <3>8. Within(a, b, m) = Clip(a, b, Above(m) + Count[m]) - Clip(a, b, Above(m))
      BY WithinClips
    <3>9. PICK lo \in Nat, n \in Nat : lo = Above(m) /\ n = Count[m]
      BY Positions
    <3>10. Clip(a, b, lo + n) \in Int /\ Clip(a, b, lo) \in Int /\ lo + n = n + lo
      BY DEF Clip, Larger, Smaller
    <3>11. QED
      BY <3>5, <3>6, <3>7, <3>8, <3>9, <3>10
  <2>4. QED
    BY <2>2, <2>3
<1>4. SUBSET Fees \subseteq P
  <2> HIDE DEF P
  <2>1. QED
    BY <1>1, <1>3, SubsetInduction
<1>5. SumFunctionOnSet(Widths(a, b), Fees) = Clip(a, b, Size) - a
  BY <1>4 DEF Size
<1>6. Clip(a, b, Size) = b
  BY Positions DEF Clip, Larger, Smaller
<1>7. QED
  BY <1>2, <1>5, <1>6

\* Each position of the list has one fee.
LEMMA FeeAtPosition ==
    ASSUME TypeOK, NEW i \in Nat, i < Size
    PROVE  /\ FeeAt(i) \in Fees /\ Count[FeeAt(i)] > 0
           /\ Above(FeeAt(i)) <= i /\ i < Above(FeeAt(i)) + Count[FeeAt(i)]
<1>1. Fees \subseteq Nat /\ IsFiniteSet(Fees) /\ Size \in Nat
  BY CountTyped, Positions
<1>2. /\ Widths(i, i + 1) \in [Fees -> Nat]
      /\ SumFunctionOnSet(Widths(i, i + 1), Fees) = 1
  <2>1. i + 1 \in Nat /\ i <= i + 1 /\ i + 1 <= Size /\ (i + 1) - i = 1
    BY <1>1
  <2>2. QED
    BY <2>1, WidthsAddUp
<1>3. PICK f \in Fees : Within(i, i + 1, f) > 0
  <2>1. SUFFICES ASSUME \A f \in Fees : ~(Within(i, i + 1, f) > 0) PROVE FALSE
    OBVIOUS
  <2>2. PICK G \in [Fees -> Nat] : G = Widths(i, i + 1)
    BY <1>2
  <2>3. \A f \in Fees : G[f] \in Nat /\ G[f] = 0 * G[f]
    <3>1. \A f \in Fees : Within(i, i + 1, f) = G[f]
      BY <2>2 DEF Widths
    <3>2. QED
      BY <2>1, <3>1
  <2>4. SumFunctionOnSet(G, Fees) = 0 * SumFunctionOnSet(G, Fees)
    <3>1. IsFiniteSet(Fees)
      BY <1>1
    <3>2. \A f \in Fees : G[f] \in Nat
      OBVIOUS
    <3>3. \A f \in Fees : G[f] = 0 * G[f]
      BY <2>3
    <3>4. QED
      BY <3>1, <3>2, <3>3, SumScales
  <2>5. QED
    BY <1>2, <2>2, <2>4
<1>4. Above(f) <= i /\ i < Above(f) + Count[f]
  <2>1. Above(f) < i + 1 /\ i < Above(f) + Count[f]
    BY <1>3, WithinClips
  <2>2. QED
    BY <2>1, Positions
<1>5. FeeAt(i) \in Fees /\ Above(FeeAt(i)) <= i /\ i < Above(FeeAt(i)) + Count[FeeAt(i)]
  BY <1>4 DEF FeeAt
<1>6. QED
  BY <1>5, Positions

\* The list is sorted, the highest fee first.
LEMMA FeesDescend ==
    ASSUME TypeOK, NEW i \in Nat, NEW j \in Nat, i <= j, j < Size
    PROVE  FeeAt(j) <= FeeAt(i) /\ FeeAt(i) \in Nat /\ FeeAt(j) \in Nat
<1>1. Fees \subseteq Nat /\ Size \in Nat
  BY CountTyped, Positions
<1>2. FeeAt(i) \in Fees /\ Above(FeeAt(i)) <= i /\ i < Above(FeeAt(i)) + Count[FeeAt(i)]
  BY <1>1, FeeAtPosition
<1>3. FeeAt(j) \in Fees /\ Above(FeeAt(j)) <= j /\ j < Above(FeeAt(j)) + Count[FeeAt(j)]
  BY <1>1, FeeAtPosition
<1>4. ASSUME FeeAt(i) < FeeAt(j) PROVE FALSE
  <2>1. Above(FeeAt(j)) + Count[FeeAt(j)] <= Above(FeeAt(i))
    BY <1>2, <1>3, <1>4, Positions
  <2>2. /\ Above(FeeAt(i)) \in Nat /\ Above(FeeAt(j)) \in Nat /\ Count[FeeAt(j)] \in Nat
    BY <1>2, <1>3, Positions
  <2>3. QED
    BY <1>2, <1>3, <2>1, <2>2
<1>5. FeeAt(i) \in Nat /\ FeeAt(j) \in Nat
  BY <1>1, <1>2, <1>3
<1>6. QED
  BY <1>4, <1>5

\* The average over some positions is no less, and no more, than a bound of the
\* fees that are paid there.
LEMMA AverageBetween ==
    ASSUME TypeOK, NEW a \in Nat, NEW b \in Nat, a < b, b <= Size, NEW p \in Nat
    PROVE  /\ Average(a, b) \in Nat
           /\ (\A f \in Fees : Within(a, b, f) > 0 => p <= f) => p <= Average(a, b)
           /\ (\A f \in Fees : Within(a, b, f) > 0 => f <= p) => Average(a, b) <= p
<1>1. Fees \subseteq Nat /\ IsFiniteSet(Fees) /\ Size \in Nat
  BY CountTyped, Positions
<1>2. PICK W \in [Fees -> Nat] : W = Widths(a, b) /\ SumFunctionOnSet(W, Fees) = b - a
  BY WidthsAddUp
<1>3. PICK d \in Nat \ {0} : d = b - a
  OBVIOUS
<1> DEFINE F == [f \in Fees |-> f * W[f]]
           G == [f \in Fees |-> p * W[f]]
<1>4. /\ \A f \in Fees : F[f] = f * W[f] /\ G[f] = p * W[f] /\ W[f] = Within(a, b, f)
      /\ DOMAIN F = Fees
  BY <1>2 DEF Widths
<1>5. \A f \in Fees : F[f] \in Nat /\ G[f] \in Nat
  <2>1. \A m, n \in Nat : m * n \in Nat
    OBVIOUS
  <2>2. QED
    BY <1>1, <2>1
<1>6. Average(a, b) = SumFunctionOnSet(F, Fees) \div d
  <2>1. F = [f \in Fees |-> f * Within(a, b, f)]
    BY <1>4
  <2>2. SumFunction(F) = SumFunctionOnSet(F, Fees)
    BY <1>4 DEF SumFunction
  <2>3. QED
    BY <1>3, <2>1, <2>2 DEF Average
<1> HIDE DEF F, G
<1>7. SumFunctionOnSet(G, Fees) = p * d
  <2>1. \A f \in Fees : W[f] \in Nat
    BY <1>2
  <2>2. \A f \in Fees : G[f] = p * W[f]
    BY <1>4
  <2>3. SumFunctionOnSet(G, Fees) = p * SumFunctionOnSet(W, Fees)
    <3>1. IsFiniteSet(Fees)
      BY <1>1
    <3>2. QED
      BY <2>1, <2>2, <3>1, SumScales
  <2>4. QED
    BY <1>2, <1>3, <2>3
<1>8. SumFunctionOnSet(F, Fees) \in Nat
  BY <1>1, <1>5, SumTakes
<1>9. ASSUME \A f \in Fees : Within(a, b, f) > 0 => p <= f
      PROVE  SumFunctionOnSet(G, Fees) <= SumFunctionOnSet(F, Fees)
  <2>1. \A m, n, k \in Nat : (n > 0 => m <= k) => m * n <= k * n
    BY Z3
  <2>2. \A f \in Fees : G[f] <= F[f]
    BY <1>1, <1>2, <1>4, <1>9, <2>1
  <2>3. QED
    BY <1>1, <1>5, <2>2, SumCompares
<1>10. ASSUME \A f \in Fees : Within(a, b, f) > 0 => f <= p
       PROVE  SumFunctionOnSet(F, Fees) <= SumFunctionOnSet(G, Fees)
  <2>1. \A m, n, k \in Nat : (n > 0 => m <= k) => m * n <= k * n
    BY Z3
  <2>2. \A f \in Fees : F[f] <= G[f]
    BY <1>1, <1>2, <1>4, <1>10, <2>1
  <2>3. QED
    BY <1>1, <1>5, <2>2, SumCompares
<1>11. QED
  BY <1>6, <1>7, <1>8, <1>9, <1>10, Quotient

\* The average over positions that follow is no higher: the fee at the first of
\* them is between the two.
LEMMA AveragesDescend ==
    ASSUME TypeOK, NEW a \in Nat, NEW b \in Nat, NEW c \in Nat, a < b, b < c, c <= Size
    PROVE  Average(b, c) <= Average(a, b) /\ Average(a, b) \in Nat /\ Average(b, c) \in Nat
<1>1. Fees \subseteq Nat /\ Size \in Nat
  BY CountTyped, Positions
<1>2. PICK p \in Fees : Above(p) <= b /\ b < Above(p) + Count[p]
  <2>1. b < Size
    BY <1>1
  <2>2. QED
    BY <2>1, FeeAtPosition
<1>3. p \in Nat /\ Above(p) \in Nat /\ Count[p] \in Nat
  BY <1>1, Positions
<1>4. ASSUME NEW f \in Fees, Within(a, b, f) > 0 PROVE p <= f
  <2>1. Above(f) < b /\ Above(f) \in Nat /\ f \in Nat
    <3>1. Above(f) < b
      BY <1>4, WithinClips
    <3>2. QED
      BY <1>1, <3>1, Positions
  <2>2. f < p => Above(p) + Count[p] <= Above(f)
    BY Positions
  <2>3. QED
    BY <1>2, <1>3, <2>1, <2>2
<1>5. ASSUME NEW f \in Fees, Within(b, c, f) > 0 PROVE f <= p
  <2>1. b < Above(f) + Count[f] /\ Above(f) \in Nat /\ Count[f] \in Nat /\ f \in Nat
    <3>1. b < Above(f) + Count[f]
      BY <1>5, WithinClips
    <3>2. QED
      BY <1>1, <3>1, Positions
  <2>2. p < f => Above(f) + Count[f] <= Above(p)
    BY Positions
  <2>3. QED
    BY <1>2, <1>3, <2>1, <2>2
<1>6. b <= Size
  BY <1>1
<1>7. Average(a, b) \in Nat /\ p <= Average(a, b)
  BY <1>3, <1>4, <1>6, AverageBetween
<1>8. Average(b, c) \in Nat /\ Average(b, c) <= p
  BY <1>3, <1>5, AverageBetween
<1>9. QED
  BY <1>3, <1>7, <1>8

\* Five speeds are in order when each is no more than the next.
LEMMA FiveOrdered ==
    ASSUME NEW a, NEW b, NEW c, NEW d, NEW e, a <= b, b <= c, c <= d, d <= e
    PROVE  Ordered(Speeds(a, b, c, d, e))
<1>1. \A i \in 1..4 : i = 1 \/ i = 2 \/ i = 3 \/ i = 4
  OBVIOUS
<1>2. QED
  BY <1>1 DEF Ordered, Speeds

\* The speeds of Ethereum are averages over parts of the list that follow each
\* other, from the highest fees down.
LEMMA EthOrdered == TypeOK => Ordered(EthSpeeds)
<1> SUFFICES ASSUME TypeOK PROVE Ordered(EthSpeeds)
  OBVIOUS
<1>1. Size \in Nat
  BY Positions
<1>2. CASE Size > 1400
  <2>1. /\ Average(100, 400) <= Average(0, 100) /\ Average(400, 700) <= Average(100, 400)
        /\ Average(700, 1000) <= Average(400, 700) /\ Average(1000, 1300) <= Average(700, 1000)
    BY <1>1, <1>2, AveragesDescend
  <2>2. EthSpeeds = Speeds(Average(1000, 1300), Average(700, 1000), Average(400, 700),
                           Average(100, 400), Average(0, 100))
    BY <1>2 DEF EthSpeeds
  <2>3. QED
    BY <2>1, <2>2, FiveOrdered
<1>3. CASE Size > 100 /\ Size < 1400
  <2>1. PICK tenth \in Nat, q \in Nat : tenth = Size \div 10 /\ q = (Size * 225) \div 1000
    BY <1>1
  <2>2. /\ 0 < tenth /\ tenth < q /\ q < 2 * q /\ 2 * q < 4 * q /\ 4 * q < Size
        /\ 2 * q \in Nat /\ 4 * q \in Nat
    BY <1>1, <1>3, <2>1
  <2>3. /\ Average(tenth, q) <= Average(0, tenth) /\ Average(q, 2 * q) <= Average(tenth, q)
        /\ Average(2 * q, 4 * q) <= Average(q, 2 * q) /\ Average(4 * q, Size) <= Average(2 * q, 4 * q)
    <3>1. q <= Size /\ 2 * q <= Size /\ 4 * q <= Size /\ Size <= Size
      BY <1>1, <2>2
    <3>2. QED
      BY <1>1, <2>2, <3>1, AveragesDescend
  <2>4. EthSpeeds = Speeds(Average(4 * q, Size), Average(2 * q, 4 * q), Average(q, 2 * q),
                           Average(tenth, q), Average(0, tenth))
    BY <1>1, <1>3, <2>1 DEF EthSpeeds
  <2>5. QED
    BY <2>3, <2>4, FiveOrdered
<1>4. CASE ~(Size > 1400) /\ ~(Size > 100 /\ Size < 1400)
  <2>1. EthSpeeds = Speeds(9, 10, 14, 20, 25)
    BY <1>4 DEF EthSpeeds
  <2>2. QED
    BY <2>1, FiveOrdered
<1>5. QED
  BY <1>2, <1>3, <1>4

\* The ladder puts a speed up to the one below it, but does not look at those it
\* has put up: it is enough that none has to be put up twice.
LEMMA LadderOrdered ==
    ASSUME NEW a \in Nat, NEW b \in Nat, NEW c \in Nat, NEW d \in Nat, NEW e \in Nat,
           a <= Larger(c, b), b <= Larger(d, c), c <= Larger(e, d)
    PROVE  Ordered(Ladder(a, b, c, d, e))
<1>1. /\ a <= Larger(b, a) /\ Larger(b, a) <= Larger(c, b)
      /\ Larger(c, b) <= Larger(d, c) /\ Larger(d, c) <= Larger(e, d)
  BY DEF Larger
<1>2. QED
  BY <1>1, FiveOrdered DEF Ladder

\* The speeds of Bitcoin are fees at positions of the list, from the highest
\* down; the floor of two is under each fee of the list.
LEMMA BtcOrdered ==
    ASSUME TypeOK, \A f \in Fees : f < 2 => Count[f] = 0
    PROVE  Ordered(BtcSpeeds)
<1>1. Size \in Nat
  BY Positions
<1>2. ASSUME NEW i \in Nat, i < Size PROVE FeeAt(i) \in Nat /\ 2 <= FeeAt(i)
  <2>1. FeeAt(i) \in Fees /\ Count[FeeAt(i)] > 0
    BY <1>2, FeeAtPosition
  <2>2. FeeAt(i) \in Nat
    BY <2>1, CountTyped
  <2>3. QED
    BY <2>1, <2>2
<1>3. PICK h \in Nat : h = Size \div 100
  BY <1>1
<1>4. CASE Size = 0
  <2>1. BtcSpeeds = Ladder(2, 2, 3, 5, 10)
    BY <1>4 DEF BtcSpeeds
  <2>2. QED
    BY <2>1, LadderOrdered DEF Larger
<1>5. CASE Size # 0 /\ Size <= 2000
  <2>1. BtcSpeeds = Ladder(2, Larger(FeeAt(h * 80), 2), FeeAt(h * 50), FeeAt(h * 30), FeeAt(h * 5))
    BY <1>3, <1>5 DEF BtcSpeeds
  <2>2. /\ h * 5 \in Nat /\ h * 30 \in Nat /\ h * 50 \in Nat /\ h * 80 \in Nat
        /\ h * 5 <= h * 30 /\ h * 30 <= h * 50 /\ h * 50 <= h * 80 /\ h * 80 < Size
        /\ h * 5 < Size /\ h * 30 < Size /\ h * 50 < Size
    BY <1>1, <1>3, <1>5
  <2>3. /\ FeeAt(h * 80) <= FeeAt(h * 50) /\ FeeAt(h * 50) <= FeeAt(h * 30)
        /\ FeeAt(h * 30) <= FeeAt(h * 5)
    BY <2>2, FeesDescend
  <2>4. /\ FeeAt(h * 80) \in Nat /\ FeeAt(h * 50) \in Nat /\ FeeAt(h * 30) \in Nat /\ FeeAt(h * 5) \in Nat
        /\ 2 <= FeeAt(h * 80) /\ 2 <= FeeAt(h * 50)
    BY <1>2, <2>2
  <2>5. /\ Larger(FeeAt(h * 80), 2) \in Nat
        /\ 2 <= Larger(FeeAt(h * 50), Larger(FeeAt(h * 80), 2))
        /\ Larger(FeeAt(h * 80), 2) <= Larger(FeeAt(h * 30), FeeAt(h * 50))
        /\ FeeAt(h * 50) <= Larger(FeeAt(h * 5), FeeAt(h * 30))
    BY <2>3, <2>4 DEF Larger
  <2>6. QED
    BY <2>1, <2>4, <2>5, LadderOrdered
<1>6. CASE Size > 2000
  <2>1. BtcSpeeds = Ladder(Larger(FeeAt(h * 90), 2), Larger(FeeAt(h * 70), 2),
                           FeeAt(2000), FeeAt(500), FeeAt(100))
    BY <1>1, <1>3, <1>6 DEF BtcSpeeds
  <2>2. /\ h * 70 \in Nat /\ h * 90 \in Nat /\ 500 <= h * 70 /\ h * 70 <= h * 90
        /\ h * 90 < Size /\ h * 70 < Size
    BY <1>1, <1>3, <1>6
  <2>3. /\ FeeAt(h * 90) <= FeeAt(h * 70) /\ FeeAt(h * 70) <= FeeAt(500)
        /\ FeeAt(2000) <= FeeAt(500) /\ FeeAt(500) <= FeeAt(100)
    BY <1>1, <1>6, <2>2, FeesDescend
  <2>4. /\ FeeAt(h * 90) \in Nat /\ FeeAt(h * 70) \in Nat
        /\ FeeAt(2000) \in Nat /\ FeeAt(500) \in Nat /\ FeeAt(100) \in Nat
        /\ 2 <= FeeAt(h * 90) /\ 2 <= FeeAt(h * 70)
    BY <1>1, <1>2, <1>6, <2>2
  <2> DEFINE verySlow == Larger(FeeAt(h * 90), 2)
             slow     == Larger(FeeAt(h * 70), 2)
             medium   == FeeAt(2000)
             fast     == FeeAt(500)
             veryFast == FeeAt(100)
  <2>5. verySlow \in Nat /\ slow \in Nat /\ medium \in Nat /\ fast \in Nat /\ veryFast \in Nat
    BY <2>4 DEF Larger
  <2>6. verySlow <= slow /\ slow <= fast /\ medium <= fast /\ fast <= veryFast
    BY <2>3, <2>4 DEF Larger
  <2>7. BtcSpeeds = Ladder(verySlow, slow, medium, fast, veryFast)
    BY <2>1
  <2> HIDE DEF verySlow, slow, medium, fast, veryFast
  <2>8. /\ verySlow <= Larger(medium, slow) /\ slow <= Larger(fast, medium)
        /\ medium <= Larger(veryFast, fast)
    BY <2>5, <2>6 DEF Larger
  <2>9. QED
    BY <2>5, <2>7, <2>8, LadderOrdered
<1>7. QED
  BY <1>1, <1>4, <1>5, <1>6

\* Whatever the fees and however many pay them, a faster speed never costs less
\* than a slower one (getFeeRate, fetchMempool).
THEOREM MempoolSpeedsOrdered == Spec => []SpeedsOrdered
<1>1. TypeOK => SpeedsOrdered
  BY EthOrdered, BtcOrdered DEF SpeedsOrdered
<1>2. QED
  BY <1>1, MempoolTyped, PTL
=============================================================================
