------------------------------ MODULE Mempool ------------------------------
(***************************************************************************)
(* The server's copy of a node's mempool and the fee rates made from it.   *)
(* setGRPCHandlers of btc/handlers.go and eth/handlers.go opens a stream   *)
(* with the mempool as it is, one with the transactions that enter it and  *)
(* one with those that leave it, each read by a goroutine of its own that  *)
(* hands what it reads to one consumer over an unbuffered channel.         *)
(* getFeeRate of client/rest.go sorts the copy by its fees, whenever it is *)
(* asked.                                                                  *)
(*                                                                         *)
(* The transactions that come and go are the Hashes; many more that stay   *)
(* are counted by fee in "settled".  The rates of a test network are made  *)
(* from the copy of the main network, so this is the only copy they need.  *)
(***************************************************************************)
EXTENDS Integers, Sequences, SequencesExt, FiniteSets, Functions

CONSTANTS Hashes,    \* transactions that come and go
          Fees,      \* the fees they may pay
          Crowds,    \* what may be there to stay: how many pay each fee
          MaxEvents  \* bound on the changes of the node's mempool

ASSUME MempoolAssumption ==
    /\ IsFiniteSet(Hashes) /\ IsFiniteSet(Fees)
    /\ Fees \subseteq Nat \ {0} /\ MaxEvents \in Nat
    /\ \A c \in Crowds : c \in [Fees -> Nat]

VARIABLES
    node,     \* the fee of each transaction in the node's mempool
    events,   \* changes of the node's mempool so far
    open,     \* streams that are open
    fill,     \* records of EventGetAllMempool that wait
    adds,     \* records of EventAddMempoolRecord that wait
    dels,     \* hashes of EventDeleteMempool that wait
    hand,     \* what the consumer has taken from the channel
    pool,     \* the server's copy
    settled,  \* the transactions that stay
    lost      \* history: transactions that changed when a stream was not open to
              \* tell, or with a change that overtook an older one

vars == <<node, events, open, fill, adds, dels, hand, pool, settled, lost>>

Streams == {"fill", "add", "delete"}
Absent  == 0
Nothing == [hash |-> "none"]

\* "nr" is the number of the change the item tells of.
Record(h, f, nr) == [hash |-> h, fee |-> f, nr |-> nr]
Removal(h, nr)   == [hash |-> h, fee |-> -1, nr |-> nr]
Item == [hash : Hashes, fee : Fees \cup {-1}, nr : 0..MaxEvents]

Init ==
    /\ node \in [Hashes -> Fees \cup {Absent}]
    /\ events = 0 /\ open = {}
    /\ fill = {} /\ adds = <<>> /\ dels = <<>> /\ hand = Nothing
    /\ pool = [h \in Hashes |-> Absent]
    /\ settled \in Crowds
    /\ lost = {}

-----------------------------------------------------------------------------
(* Faulty variants of the definitions below.  Each is a bug this code could  *)
(* have had; a run with the variant in place must break a property.          *)

\* The consumer has no case for a hash.
ApplyRecord ==
    /\ hand # Nothing
    /\ pool' = [pool EXCEPT ![hand.hash] = hand.fee]
    /\ hand' = Nothing
    /\ UNCHANGED <<node, events, open, fill, adds, dels, settled, lost>>

-----------------------------------------------------------------------------
(* The node, a service outside this repository, and the streams it writes.   *)

Waiting == fill \cup ToSet(adds) \cup ToSet(dels)

\* The server may have h from before.
Heard(h) == pool[h] # Absent \/ \E i \in Waiting \cup {hand} : i.hash = h

NodeAdds(h, f) ==
    /\ events < MaxEvents /\ node[h] = Absent
    /\ events' = events + 1
    /\ node' = [node EXCEPT ![h] = f]
    /\ adds' = IF "add" \in open THEN Append(adds, Record(h, f, events')) ELSE adds
    /\ lost' = IF "fill" \in open /\ "add" \notin open THEN lost \cup {h} ELSE lost
    /\ UNCHANGED <<open, fill, dels, hand, pool, settled>>

NodeRemoves(h) ==
    /\ events < MaxEvents /\ node[h] # Absent
    /\ events' = events + 1
    /\ node' = [node EXCEPT ![h] = Absent]
    /\ dels' = IF "delete" \in open THEN Append(dels, Removal(h, events')) ELSE dels
    /\ lost' = IF Heard(h) /\ "delete" \notin open THEN lost \cup {h} ELSE lost
    /\ UNCHANGED <<open, fill, adds, hand, pool, settled>>

-----------------------------------------------------------------------------
(* The goroutines: each is started by itself and opens its stream.           *)

Open(t) ==
    /\ t \notin open
    /\ open' = open \cup {t}
    /\ fill' = IF t = "fill" THEN {Record(h, node[h], events) : h \in {g \in Hashes : node[g] # Absent}}
               ELSE fill
    /\ UNCHANGED <<node, events, adds, dels, hand, pool, settled, lost>>

\* The consumer takes an item from a goroutine that waits to hand it over.
Take(i) ==
    /\ hand = Nothing
    /\ hand' = i
    /\ lost' = IF \E j \in Waiting : j.hash = i.hash /\ j.nr < i.nr THEN lost \cup {i.hash} ELSE lost
    /\ UNCHANGED <<node, events, open, pool, settled>>

EventGetAllMempool ==
    \E i \in fill : Take(i) /\ fill' = fill \ {i} /\ UNCHANGED <<adds, dels>>

EventAddMempoolRecord ==
    adds # <<>> /\ Take(Head(adds)) /\ adds' = Tail(adds) /\ UNCHANGED <<fill, dels>>

\* A bug this code could have had: a removal is not handed over to a busy consumer.
DeleteUnlessBusy ==
    /\ dels # <<>> /\ dels' = Tail(dels)
    /\ \/ Take(Head(dels)) /\ UNCHANGED <<fill, adds>>
       \/ hand # Nothing /\ UNCHANGED <<node, events, open, fill, adds, hand, pool, settled, lost>>

EventDeleteMempool ==
    dels # <<>> /\ Take(Head(dels)) /\ dels' = Tail(dels) /\ UNCHANGED <<fill, adds>>

\* mempool.Store or mempool.Delete.
Apply ==
    /\ hand # Nothing
    /\ pool' = [pool EXCEPT ![hand.hash] = IF hand.fee < 0 THEN Absent ELSE hand.fee]
    /\ hand' = Nothing
    /\ UNCHANGED <<node, events, open, fill, adds, dels, settled, lost>>

Next ==
    \/ \E h \in Hashes : NodeRemoves(h) \/ \E f \in Fees : NodeAdds(h, f)
    \/ \E t \in Streams : Open(t)
    \/ EventGetAllMempool \/ EventAddMempoolRecord \/ EventDeleteMempool
    \/ Apply

Spec == Init /\ [][Next]_vars

-----------------------------------------------------------------------------
(* getFeeRate: the fees are sorted, the highest first.                       *)

Count == [f \in Fees |-> settled[f] + Cardinality({h \in Hashes : pool[h] = f})]
Above(f) == SumFunctionOnSet(Count, {g \in Fees : g > f})
Size == SumFunctionOnSet(Count, Fees)

Larger(a, b) == IF a > b THEN a ELSE b
Smaller(a, b) == IF a > b THEN b ELSE a

\* The fee at a position of the sorted list, which begins at 0.
FeeAt(i) == CHOOSE f \in Fees : Above(f) <= i /\ i < Above(f) + Count[f]

\* How many of the positions from a to b - 1 have the fee.
Within(a, b, f) == Larger(0, Smaller(b, Above(f) + Count[f]) - Larger(a, Above(f)))

\* The average over these positions.
Average(a, b) == SumFunction([f \in Fees |-> f * Within(a, b, f)]) \div (b - a)

Speeds(verySlow, slow, medium, fast, veryFast) == <<verySlow, slow, medium, fast, veryFast>>

\* A bug this code could have had: the slow and the medium speed are not compared.
LadderWithGap(verySlow, slow, medium, fast, veryFast) ==
    Speeds(verySlow, Larger(slow, verySlow), medium, Larger(fast, medium), Larger(veryFast, fast))

\* Each speed is raised to the one below it, from the fastest down.
Ladder(verySlow, slow, medium, fast, veryFast) ==
    Speeds(verySlow, Larger(slow, verySlow), Larger(medium, slow), Larger(fast, medium), Larger(veryFast, fast))

BtcSpeeds ==
    LET hundreds == Size \div 100 IN
    IF Size = 0 THEN Ladder(2, 2, 3, 5, 10)
    ELSE IF Size <= 2000
    THEN Ladder(2, Larger(FeeAt(hundreds * 80), 2), FeeAt(hundreds * 50), FeeAt(hundreds * 30), FeeAt(hundreds * 5))
    ELSE Ladder(Larger(FeeAt(hundreds * 90), 2), Larger(FeeAt(hundreds * 70), 2),
                FeeAt(2000), FeeAt(500), FeeAt(100))

\* fetchMempool, with the quantiles of fetchQuantile; the defaults in Gwei also
\* serve a mempool of 1400 exactly.
EthSpeeds ==
    LET tenth == Size \div 10
        q     == (Size * 225) \div 1000
    IN IF Size > 1400
       THEN Speeds(Average(1000, 1300), Average(700, 1000), Average(400, 700), Average(100, 400), Average(0, 100))
       ELSE IF Size > 100 /\ Size < 1400
       THEN Speeds(Average(4 * q, Size), Average(2 * q, 4 * q), Average(q, 2 * q), Average(tenth, q), Average(0, tenth))
       ELSE Speeds(9, 10, 14, 20, 25)

-----------------------------------------------------------------------------
\* Every variable holds a value of its kind; the copy has fees only.
TypeOK ==
    /\ node \in [Hashes -> Fees \cup {Absent}] /\ pool \in [Hashes -> Fees \cup {Absent}]
    /\ events \in 0..MaxEvents /\ open \subseteq Streams
    /\ Waiting \subseteq Item /\ hand \in Item \cup {Nothing}
    /\ settled \in [Fees -> Nat] /\ lost \subseteq Hashes

\* Once every stream is read, the copy has what the node has, but for the
\* transactions that came between the fill and the opening of the other streams,
\* and those with a removal, or a new record, that overtook an older one.
RestMirrorsNode ==
    (open = Streams /\ Waiting = {} /\ hand = Nothing) =>
        \A h \in Hashes \ lost : pool[h] = node[h]

Ordered(s) == \A i \in 1..4 : s[i] <= s[i + 1]

\* A faster speed never costs less than a slower one, at whatever size the
\* mempool is seen, also while it changes.  For BTC the floor of two satoshis
\* under the slow speeds is put up after the fast ones are compared, so it takes
\* fees of two at least.
SpeedsOrdered ==
    /\ Ordered(EthSpeeds)
    /\ (\A f \in Fees : f < 2 => Count[f] = 0) => Ordered(BtcSpeeds)
=============================================================================
