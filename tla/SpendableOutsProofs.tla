------------------------ MODULE SpendableOutsProofs ------------------------
(***************************************************************************)
(* What the outputs offered for spending guarantee for any outputs, and    *)
(* any number of resyncs and failing calls.  OutsInv is the inductive      *)
(* invariant; its part OutsHandled says of each output what is still to    *)
(* come before the collections show it as the node has it.                 *)
(***************************************************************************)
EXTENDS SpendableOuts, TLAPS, SequenceTheorems, FiniteSetTheorems

\* A job waits in a stream or is being handled.
Has(t, j) == \E i \in 1..Len(queue[t]) : queue[t][i] = j

\* A removal whose record in the spent collection is still to come.
Removal(t, o) ==
    \E i \in 1..Len(queue[t]) : queue[t][i] = del(o) /\ (i = 1 => at[t] # "remove")

\* A resync has dropped outputs, or will, and is not answered.
Underway == history # "idle" \/ asked > 0

\* Each resync under way is one of those counted.
ResyncsCounted == asked + (IF history = "idle" THEN 0 ELSE 1) <= resyncs

\* The delete stream inserts nothing.
DeletesRemove == \A i \in 1..Len(queue["delete"]) : queue["delete"][i].op = "delete"

\* Two goroutines insert, each having found nothing.
Inserting(t, o) == IF at[t] = "insert" /\ Current(t) = o THEN 1 ELSE 0

CopiesCounted ==
    \A o \in Outs : docs[o] + (Inserting("add", o) + Inserting("resync", o)) <= 2

\* Who is about to insert a spent output had passed the check before.
SpentOvertakes == \A t \in Streams, o \in spent : Adding(t, o) => t \in overtaken

\* An output the node does not know is nowhere.
UnknownAbsent(o) ==
    node[o] = "none" =>
        docs[o] = 0 /\ o \notin spent /\ \A t \in Streams : ~Has(t, add(o)) /\ ~Has(t, del(o))

\* An unspent one is offered, or its addition is still to come.
UnspentComing(o) ==
    node[o] = "unspent" =>
        /\ o \notin spent /\ \A t \in Streams : ~Has(t, del(o))
        /\ o \in excused \/ docs[o] > 0 \/ Underway \/ \E t \in Streams : Has(t, add(o))

\* A spent one is recorded and gone, or its removal is still to come.
SpentGoing(o) ==
    node[o] = "spent" /\ o \notin excused =>
        \/ Underway
        \/ \E t \in Streams : Removal(t, o)
        \/ o \in spent /\ (docs[o] = 0 \/ \E t \in Streams : at[t] = "remove" /\ Current(t) = o)

OutsHandled ==
    \A o \in Outs :
        /\ UnknownAbsent(o) /\ UnspentComing(o) /\ SpentGoing(o)
        /\ o \notin excused => docs[o] <= 1

OutsInv ==
    /\ TypeOK /\ ResyncsCounted /\ DeletesRemove /\ CopiesCounted
    /\ SpentOvertakes /\ OutsHandled

-----------------------------------------------------------------------------
\* How many of the two inserting goroutines a set has.
LEMMA OfTwo ==
    ASSUME NEW S \in SUBSET {"add", "resync"}
    PROVE  Cardinality(S) = (IF "add" \in S THEN 1 ELSE 0) + (IF "resync" \in S THEN 1 ELSE 0)
<1>1. S = {} \/ S = {"add"} \/ S = {"resync"} \/ S = {"add", "resync"}
  OBVIOUS
<1>2. Cardinality({}) = 0 /\ Cardinality({"add"}) = 1 /\ Cardinality({"resync"}) = 1
  BY FS_EmptySet, FS_Singleton
<1>3. Cardinality({"add"} \cup {"resync"}) = 2
  <2>1. IsFiniteSet({"add"}) /\ "resync" \notin {"add"}
    BY FS_Singleton
  <2>2. Cardinality({"add"} \cup {"resync"}) = Cardinality({"add"}) + 1
    BY <2>1, FS_AddElement
  <2>3. QED
    BY <2>2, <1>2
<1>4. {"add", "resync"} = {"add"} \cup {"resync"}
  OBVIOUS
<1>5. CASE S = {}
  BY <1>2, <1>5
<1>6. CASE S = {"add"}
  BY <1>2, <1>6
<1>7. CASE S = {"resync"}
  BY <1>2, <1>7
<1>8. CASE S = {"add", "resync"}
  BY <1>3, <1>4, <1>8
<1>9. QED
  BY <1>1, <1>5, <1>6, <1>7, <1>8

\* What is left of a queue when its head is done with.
LEMMA FinishJobs ==
    ASSUME TypeOK, NEW t \in Streams, queue[t] # <<>>, Finish(t)
    PROVE  /\ queue' \in [Streams -> Seq(Job)] /\ at' \in [Streams -> Point]
           /\ tries' \in [Streams -> 0..3] /\ at'[t] = "next"
           /\ \A u \in Streams \ {t} : queue'[u] = queue[u] /\ at'[u] = at[u]
           /\ Len(queue'[t]) = Len(queue[t]) - 1 /\ Len(queue[t]) \in Nat \ {0}
           /\ \A i \in 1..Len(queue'[t]) : queue'[t][i] = queue[t][i + 1]
           /\ Head(queue[t]) = queue[t][1] /\ Head(queue[t]) \in Job
<1>1. queue[t] \in Seq(Job) /\ queue' = [queue EXCEPT ![t] = Tail(queue[t])]
  BY DEF TypeOK, Finish
<1>2. /\ Tail(queue[t]) \in Seq(Job) /\ Len(Tail(queue[t])) = Len(queue[t]) - 1
      /\ \A i \in 1..Len(Tail(queue[t])) : Tail(queue[t])[i] = queue[t][i + 1]
      /\ Head(queue[t]) = queue[t][1] /\ Head(queue[t]) \in Job
      /\ Len(queue[t]) \in Nat \ {0}
  BY <1>1, HeadTailProperties, EmptySeq, LenProperties
<1>3. queue'[t] = Tail(queue[t]) /\ \A u \in Streams \ {t} : queue'[u] = queue[u]
  BY <1>1 DEF TypeOK
<1>4. QED
  BY <1>1, <1>2, <1>3 DEF TypeOK, Finish, Point

\* Being done with a message takes it from its queue, and no other.
LEMMA FinishHas ==
    ASSUME TypeOK, NEW t \in Streams, queue[t] # <<>>, Finish(t)
    PROVE  /\ \A u \in Streams, j \in Job : Has(u, j)' => Has(u, j)
           /\ \A u \in Streams, j \in Job :
                Has(u, j) /\ (u = t => Head(queue[t]) # j) => Has(u, j)'
           /\ \A u \in Streams, o \in Outs :
                Removal(u, o) /\ (u = t => at[t] = "remove" \/ Head(queue[t]) # del(o))
                  => Removal(u, o)'
           /\ DeletesRemove => DeletesRemove'
<1> DEFINE n == Len(queue[t])
<1>1. /\ at'[t] = "next" /\ Len(queue'[t]) = n - 1 /\ n \in Nat \ {0}
      /\ \A u \in Streams \ {t} : queue'[u] = queue[u] /\ at'[u] = at[u]
      /\ \A i \in 1..Len(queue'[t]) : queue'[t][i] = queue[t][i + 1]
      /\ Head(queue[t]) = queue[t][1]
  BY FinishJobs
<1> HIDE DEF n
<1>2. \A i \in 1..(n - 1) : (i + 1) \in 1..n /\ queue'[t][i] = queue[t][i + 1]
  BY <1>1
<1>3. \A i \in 1..n : i # 1 => (i - 1) \in 1..(n - 1) /\ queue'[t][i - 1] = queue[t][i]
  <2> SUFFICES ASSUME NEW i \in 1..n, i # 1
               PROVE  (i - 1) \in 1..(n - 1) /\ queue'[t][i - 1] = queue[t][i]
    OBVIOUS
  <2>1. (i - 1) \in 1..(n - 1) /\ (i - 1) + 1 = i
    BY <1>1
  <2>2. QED
    BY <2>1, <1>2
<1>4. ASSUME NEW u \in Streams, NEW j \in Job, Has(u, j)' PROVE Has(u, j)
  <2>1. CASE u # t
    BY <2>1, <1>1, <1>4 DEF Has
  <2>2. CASE u = t
    <3>1. PICK i \in 1..(n - 1) : queue'[t][i] = j
      BY <2>2, <1>1, <1>4 DEF Has
    <3>2. QED
      BY <3>1, <2>2, <1>2 DEF Has, n
  <2>3. QED
    BY <2>1, <2>2
<1>5. ASSUME NEW u \in Streams, NEW j \in Job, Has(u, j), u = t => Head(queue[t]) # j
      PROVE  Has(u, j)'
  <2>1. CASE u # t
    BY <2>1, <1>1, <1>5 DEF Has
  <2>2. CASE u = t
    <3>1. PICK i \in 1..n : queue[t][i] = j
      BY <2>2, <1>5 DEF Has, n
    <3>2. i # 1
      BY <3>1, <2>2, <1>1, <1>5
    <3>3. QED
      BY <3>1, <3>2, <2>2, <1>1, <1>3 DEF Has
  <2>3. QED
    BY <2>1, <2>2
<1>6. ASSUME NEW u \in Streams, NEW o \in Outs, Removal(u, o),
             u = t => at[t] = "remove" \/ Head(queue[t]) # del(o)
      PROVE  Removal(u, o)'
  <2>1. CASE u # t
    BY <2>1, <1>1, <1>6 DEF Removal
  <2>2. CASE u = t
    <3>1. PICK i \in 1..n : queue[t][i] = del(o) /\ (i = 1 => at[t] # "remove")
      BY <2>2, <1>6 DEF Removal, n
    <3>2. i # 1
      BY <3>1, <2>2, <1>1, <1>6
    <3>3. (i - 1) \in 1..Len(queue'[t]) /\ queue'[t][i - 1] = del(o)
      BY <3>1, <3>2, <1>1, <1>3
    <3>4. QED
      BY <3>3, <2>2, <1>1 DEF Removal
  <2>3. QED
    BY <2>1, <2>2
<1>7. DeletesRemove => DeletesRemove'
  <2>1. CASE t = "delete"
    BY <2>1, <1>1, <1>2 DEF DeletesRemove, n
  <2>2. CASE t # "delete"
    BY <2>2, <1>1 DEF DeletesRemove, Streams
  <2>3. QED
    BY <2>1, <2>2
<1>8. QED
  BY <1>4, <1>5, <1>6, <1>7

\* A job at the head of a queue is in it.
LEMMA HeadHas ==
    ASSUME TypeOK, NEW t \in Streams, queue[t] # <<>>
    PROVE  /\ Head(queue[t]) \in Job /\ Current(t) \in Outs /\ Has(t, Head(queue[t]))
           /\ \A op \in {"add", "delete", "end"} :
                Serves(t, op) => Head(queue[t]) = [op |-> op, out |-> Current(t)]
<1>1. queue[t] \in Seq(Job)
  BY DEF TypeOK
<1>2. Len(queue[t]) \in Nat \ {0} /\ Head(queue[t]) = queue[t][1] /\ Head(queue[t]) \in Job
  BY <1>1, HeadTailProperties, EmptySeq, LenProperties
<1>3. Has(t, Head(queue[t]))
  BY <1>2 DEF Has
<1>4. QED
  BY <1>2, <1>3 DEF Job, Serves, Current

\* The two messages about an output are jobs, and differ.
LEMMA OpsInJob == \A o \in Outs : add(o) \in Job /\ del(o) \in Job /\ add(o) # del(o)
  BY DEF add, del, Job

-----------------------------------------------------------------------------
\* A goroutine is done with an addition that changes nothing, or a resync ends.
LEMMA DoneKeeps ==
    ASSUME OutsInv, NEW t \in Streams, queue[t] # <<>>, Finish(t),
           Serves(t, "add") \/ Serves(t, "end"), at[t] # "remove",
           excused \subseteq excused', excused' \subseteq Outs, faults' \in 0..MaxFaults,
           Serves(t, "add") =>
               Current(t) \in spent \/ docs[Current(t)] > 0 \/ Current(t) \in excused',
           resyncing' \in BOOLEAN,
           UNCHANGED <<nodeVars, storeVars, history, asked, resyncs>>
    PROVE  OutsInv'
<1> USE DEF OutsInv, nodeVars, storeVars
<1> DEFINE c == Current(t)
<1>1. /\ queue' \in [Streams -> Seq(Job)] /\ at' \in [Streams -> Point]
      /\ tries' \in [Streams -> 0..3] /\ at'[t] = "next"
      /\ \A u \in Streams \ {t} : queue'[u] = queue[u] /\ at'[u] = at[u]
  BY FinishJobs
<1>2. /\ \A u \in Streams, j \in Job : Has(u, j)' => Has(u, j)
      /\ \A u \in Streams, j \in Job : Has(u, j) /\ (u = t => Head(queue[t]) # j) => Has(u, j)'
      /\ \A u \in Streams, o \in Outs :
           Removal(u, o) /\ (u = t => at[t] = "remove" \/ Head(queue[t]) # del(o)) => Removal(u, o)'
      /\ DeletesRemove'
  BY FinishHas
<1>3. /\ c \in Outs
      /\ \A o \in Outs : Head(queue[t]) # del(o)
      /\ \A o \in Outs : Head(queue[t]) = add(o) => Serves(t, "add") /\ o = c
  <2>1. c \in Outs /\ (Head(queue[t]) = [op |-> "add", out |-> c] \/ Head(queue[t]) = [op |-> "end", out |-> c])
    BY HeadHas
  <2>2. Serves(t, "add") <=> Head(queue[t]).op = "add"
    BY DEF Serves
  <2> HIDE DEF c
  <2>3. QED
    BY <2>1, <2>2 DEF add, del
<1>4. TypeOK'
  BY <1>1 DEF TypeOK, Serves, Finish
<1>5. ResyncsCounted'
  BY DEF ResyncsCounted
<1>6. CopiesCounted'
  <2>1. \A o \in Outs, u \in {"add", "resync"} : Inserting(u, o)' <= Inserting(u, o)
                /\ Inserting(u, o) \in {0, 1} /\ Inserting(u, o)' \in {0, 1}
    BY <1>1 DEF Inserting, Current, Streams
  <2>2. \A o \in Outs : docs[o] \in Nat /\ docs'[o] = docs[o]
    BY DEF TypeOK
  <2>3. QED
    BY <2>1, <2>2 DEF CopiesCounted
<1>7. SpentOvertakes'
  BY <1>1 DEF SpentOvertakes, Adding, Current, Finish
<1>8. ASSUME NEW o \in Outs
      PROVE  /\ UnknownAbsent(o)' /\ UnspentComing(o)' /\ SpentGoing(o)'
             /\ o \notin excused' => docs'[o] <= 1
  <2>1. UnknownAbsent(o)'
    BY <1>2, OpsInJob DEF OutsHandled, UnknownAbsent
  <2>2. UnspentComing(o)'
    BY <1>2, <1>3, OpsInJob DEF OutsHandled, UnspentComing, Underway, add
  <2>3. SpentGoing(o)'
    BY <1>1, <1>2, <1>3 DEF OutsHandled, SpentGoing, Underway, Current
  <2>4. QED
    BY <2>1, <2>2, <2>3 DEF OutsHandled
<1>9. QED
  BY <1>2, <1>4, <1>5, <1>6, <1>7, <1>8 DEF OutsHandled

\* A goroutine goes on with an addition: past the check, to the insertion when
\* there is no document, or nowhere after an error.
LEMMA MoveKeeps ==
    ASSUME OutsInv, NEW t \in Streams, Serves(t, "add"), at[t] \in {"next", "lookup", "find"},
           NEW p \in {"lookup", "find", "insert", "dead"}, at' = [at EXCEPT ![t] = p],
           at[t] = "next" => p = "lookup" /\ Current(t) \notin spent,
           p = "insert" => docs[Current(t)] = 0,
           excused \subseteq excused', excused' \subseteq Outs, faults' \in 0..MaxFaults,
           UNCHANGED <<nodeVars, queue, tries, storeVars, userVars, overtaken>>
    PROVE  OutsInv'
<1> USE DEF OutsInv, nodeVars, storeVars, userVars
<1>0. PICK c \in Outs : c = Current(t)
  BY HeadHas DEF Serves
<1>1. c = Current(t) /\ queue[t] # <<>> /\ Head(queue[t]) = add(c)
  BY <1>0, HeadHas DEF Serves, add
<1>2. TypeOK'
  BY <1>1 DEF TypeOK, Serves, Point
<1>3. ResyncsCounted' /\ DeletesRemove'
  BY DEF ResyncsCounted, DeletesRemove
<1>4. CopiesCounted'
  <2>1. \A o \in Outs, u \in Streams :
           /\ u # t \/ o # c => Inserting(u, o)' <= Inserting(u, o)
           /\ Inserting(u, o) \in {0, 1} /\ Inserting(u, o)' \in {0, 1}
    BY <1>1 DEF Inserting, Current, TypeOK
  <2>2. p # "insert" => Inserting(t, c)' = 0
    BY DEF Inserting, TypeOK
  <2>3. \A o \in Outs : docs[o] \in Nat /\ docs'[o] = docs[o]
    BY DEF TypeOK
  <2>4. p = "insert" => docs[c] = 0
    BY <1>1
  <2>5. ASSUME NEW o \in Outs, NEW u \in Streams
        PROVE  docs'[o] = 0 \/ Inserting(u, o)' <= Inserting(u, o)
    <3>1. CASE u # t \/ o # c
      BY <3>1, <2>1
    <3>2. CASE u = t /\ o = c /\ p = "insert"
      BY <3>2, <2>3, <2>4
    <3>3. CASE u = t /\ o = c /\ p # "insert"
      <4>1. Inserting(u, o)' = 0
        BY <3>3, <2>2
      <4>2. Inserting(u, o) \in {0, 1}
        BY <2>1
      <4>3. QED
        BY <4>1, <4>2
    <3>4. QED
      BY <3>1, <3>2, <3>3
  <2>6. QED
    BY <2>1, <2>3, <2>5 DEF CopiesCounted, Streams
<1>5. SpentOvertakes'
  BY DEF SpentOvertakes, Adding, Current, TypeOK
<1>6. ASSUME NEW o \in Outs
      PROVE  /\ UnknownAbsent(o)' /\ UnspentComing(o)' /\ SpentGoing(o)'
             /\ o \notin excused' => docs'[o] <= 1
  <2>1. \A u \in Streams : /\ Has(u, add(o))' <=> Has(u, add(o))
                           /\ Has(u, del(o))' <=> Has(u, del(o))
    BY DEF Has
  <2>2. \A u \in Streams : Removal(u, o) => Removal(u, o)'
    BY DEF Removal, TypeOK
  <2>3. \A u \in Streams : at[u] = "remove" => at'[u] = "remove" /\ Current(u)' = Current(u)
    BY DEF TypeOK, Current
  <2>4. QED
    BY <2>1, <2>2, <2>3 DEF OutsHandled, UnknownAbsent, UnspentComing, SpentGoing, Underway
<1>7. QED
  BY <1>2, <1>3, <1>4, <1>5, <1>6 DEF OutsHandled

\* The reads before an insertion keep the invariant.
LEMMA AddingKeeps ==
    ASSUME OutsInv, NEW t \in Streams,
           CheckSpent(t) \/ LookupUser(t) \/ FindOutput(t)
    PROVE  OutsInv'
<1> USE DEF OutsInv
<1>1. queue[t] # <<>> /\ Serves(t, "add") /\ Current(t) \in Outs
  BY HeadHas DEF CheckSpent, LookupUser, FindOutput, TypeOK, Serves
<1>2. FailFor(Current(t)) => /\ excused \subseteq excused' /\ excused' \subseteq Outs
                             /\ faults' \in 0..MaxFaults /\ Current(t) \in excused'
  BY <1>1, SpendableOutsAssumption DEF FailFor, TypeOK
<1>3. UNCHANGED <<faults, excused>> => /\ excused \subseteq excused' /\ excused' \subseteq Outs
                                      /\ faults' \in 0..MaxFaults
  BY DEF TypeOK
<1>4. ASSUME Finish(t), at[t] \in {"next", "find"}, UNCHANGED <<nodeVars, storeVars, userVars>>,
             \/ FailFor(Current(t))
             \/ /\ Current(t) \in spent \/ docs[Current(t)] > 0
                /\ UNCHANGED <<faults, excused>>
      PROVE  OutsInv'
  BY <1>1, <1>2, <1>3, <1>4, DoneKeeps DEF userVars, TypeOK
<1>5. CASE CheckSpent(t)
  <2>1. CASE Current(t) \in spent /\ Finish(t) /\ UNCHANGED <<faults, excused>>
    BY <1>4, <1>5, <2>1 DEF CheckSpent
  <2>2. CASE /\ Current(t) \notin spent /\ at' = [at EXCEPT ![t] = "lookup"]
             /\ UNCHANGED <<queue, tries, overtaken, faults, excused>>
    BY <1>1, <1>3, <1>5, <2>2, MoveKeeps DEF CheckSpent
  <2>3. CASE FailFor(Current(t)) /\ Finish(t)
    BY <1>4, <1>5, <2>3 DEF CheckSpent
  <2>4. QED
    BY <1>5, <2>1, <2>2, <2>3 DEF CheckSpent
<1>6. CASE LookupUser(t)
  BY <1>1, <1>2, <1>3, <1>6, MoveKeeps DEF LookupUser
<1>7. CASE FindOutput(t)
  <2>1. CASE /\ docs[Current(t)] = 0 /\ at' = [at EXCEPT ![t] = "insert"]
             /\ UNCHANGED <<queue, tries, overtaken, faults, excused>>
    BY <1>1, <1>3, <1>7, <2>1, MoveKeeps DEF FindOutput
  <2>2. CASE docs[Current(t)] > 0 /\ Finish(t) /\ UNCHANGED <<faults, excused>>
    BY <1>4, <1>7, <2>2 DEF FindOutput
  <2>3. CASE FailFor(Current(t)) /\ Finish(t)
    BY <1>4, <1>7, <2>3 DEF FindOutput
  <2>4. QED
    BY <1>7, <2>1, <2>2, <2>3 DEF FindOutput
<1>8. QED
  BY <1>5, <1>6, <1>7

\* An insertion: late ones and second ones are excused.
LEMMA InsertOutputKeeps ==
    ASSUME OutsInv, NEW t \in Streams, InsertOutput(t)
    PROVE  OutsInv'
<1> USE DEF OutsInv, InsertOutput, nodeVars, userVars
<1>0. PICK c \in Outs : c = Current(t)
  BY HeadHas DEF TypeOK
<1>1. c = Current(t) /\ queue[t] # <<>> /\ Serves(t, "add") /\ Head(queue[t]) = add(c) /\ at[t] = "insert"
  BY <1>0, HeadHas DEF add, TypeOK, Serves
<1>2. CASE FailFor(c) /\ UNCHANGED docs
  <2>1. /\ excused \subseteq excused' /\ excused' \subseteq Outs
        /\ faults' \in 0..MaxFaults /\ c \in excused'
    BY <1>1, <1>2, SpendableOutsAssumption DEF FailFor, TypeOK
  <2>2. QED
    BY <2>1, <1>1, <1>2, DoneKeeps DEF storeVars, TypeOK
<1>3. CASE /\ docs' = [docs EXCEPT ![c] = @ + 1]
           /\ excused' = IF t \in overtaken \/ docs[c] > 0 THEN excused \cup {c} ELSE excused
           /\ UNCHANGED faults
  <2>1. /\ queue' \in [Streams -> Seq(Job)] /\ at' \in [Streams -> Point]
        /\ tries' \in [Streams -> 0..3] /\ at'[t] = "next"
        /\ \A u \in Streams \ {t} : queue'[u] = queue[u] /\ at'[u] = at[u]
    BY <1>1, FinishJobs
  <2>2. /\ \A u \in Streams, j \in Job : Has(u, j)' => Has(u, j)
        /\ \A u \in Streams, j \in Job : Has(u, j) /\ (u = t => Head(queue[t]) # j) => Has(u, j)'
        /\ \A u \in Streams, o \in Outs :
             Removal(u, o) /\ (u = t => at[t] = "remove" \/ Head(queue[t]) # del(o)) => Removal(u, o)'
        /\ DeletesRemove'
    BY <1>1, FinishHas
  <2>3. \A o \in Outs : docs[o] \in Nat /\ docs'[o] = IF o = c THEN docs[o] + 1 ELSE docs[o]
    BY <1>1, <1>3 DEF TypeOK
  <2>4. TypeOK'
    BY <2>1, <1>1, <1>3 DEF TypeOK, Serves, Finish
  <2>5. ResyncsCounted'
    BY DEF ResyncsCounted
  <2>6. CopiesCounted'
    <3>1. \A o \in Outs, u \in Streams :
             /\ Inserting(u, o)' <= Inserting(u, o)
             /\ Inserting(u, o) \in {0, 1} /\ Inserting(u, o)' \in {0, 1}
      BY <2>1 DEF Inserting, Current
    <3>2. Inserting(t, c) = 1 /\ Inserting(t, c)' = 0
      BY <2>1, <1>1 DEF Inserting, Current
    <3>3. t \in {"add", "resync"}
      <4>1. t # "delete"
        BY <1>1, HeadHas DEF DeletesRemove, Has, Serves, add, Job, TypeOK
      <4>2. QED
        BY <4>1 DEF Streams
    <3>4. \A o \in Outs : docs'[o] + (Inserting("add", o)' + Inserting("resync", o)') <= 2
      <4> SUFFICES ASSUME NEW o \in Outs
                   PROVE  docs'[o] + (Inserting("add", o)' + Inserting("resync", o)') <= 2
        OBVIOUS
      <4>1. docs[o] + (Inserting("add", o) + Inserting("resync", o)) <= 2
        BY DEF CopiesCounted
      <4>2. QED
        <5>1. PICK a \in {0, 1}, r \in {0, 1}, a2 \in {0, 1}, r2 \in {0, 1} :
                 /\ a = Inserting("add", o) /\ a2 = Inserting("add", o)' /\ a2 <= a
                 /\ r = Inserting("resync", o) /\ r2 = Inserting("resync", o)' /\ r2 <= r
          BY <3>1 DEF Streams
        <5>2. o = c => a2 + r2 < a + r
          <6>1. CASE t = "add"
            BY <6>1, <5>1, <3>2
          <6>2. CASE t = "resync"
            BY <6>2, <5>1, <3>2
          <6>3. QED
            BY <6>1, <6>2, <3>3
        <5>3. docs[o] + (a + r) <= 2 /\ docs[o] \in Nat
          BY <4>1, <5>1, <2>3
        <5>4. docs'[o] = IF o = c THEN docs[o] + 1 ELSE docs[o]
          BY <2>3
        <5>5. docs'[o] + (a2 + r2) <= 2
          BY <5>1, <5>2, <5>3, <5>4
        <5>6. QED
          BY <5>1, <5>5
    <3>5. QED
      BY <3>4 DEF CopiesCounted
  <2>7. SpentOvertakes'
    BY <2>1 DEF SpentOvertakes, Adding, Current, Finish
  <2>8. ASSUME NEW o \in Outs
        PROVE  /\ UnknownAbsent(o)' /\ UnspentComing(o)' /\ SpentGoing(o)'
               /\ o \notin excused' => docs'[o] <= 1
    <3>1. node[c] # "none"
      BY <1>1, HeadHas, OpsInJob DEF OutsHandled, UnknownAbsent
    <3>2. UnknownAbsent(o)'
      BY <2>2, <2>3, <3>1, OpsInJob DEF OutsHandled, UnknownAbsent
    <3>3. UnspentComing(o)'
      <4>1. CASE o = c
        BY <4>1, <2>2, <2>3, OpsInJob DEF OutsHandled, UnspentComing
      <4>2. CASE o # c
        <5>1. add(o) # add(c)
          BY <4>2 DEF add
        <5>2. QED
          BY <4>2, <5>1, <1>1, <1>3, <2>2, <2>3, OpsInJob
          DEF OutsHandled, UnspentComing, Underway
      <4>3. QED
        BY <4>1, <4>2
    <3>4. SpentGoing(o)'
      <4>1. \A u \in Streams : Removal(u, o) => Removal(u, o)'
        <5>1. Head(queue[t]) # del(o)
          BY <1>1 DEF add, del
        <5>2. QED
          BY <5>1, <2>2
      <4>2. CASE o = c
        <5>1. o \in spent => t \in overtaken
          BY <4>2, <1>1 DEF SpentOvertakes, Adding
        <5>2. QED
          BY <4>1, <4>2, <5>1, <1>3 DEF OutsHandled, SpentGoing, Underway
      <4>3. CASE o # c
        <5>1. \A u \in Streams : at[u] = "remove" /\ Current(u) = o
                                => at'[u] = "remove" /\ Current(u)' = o
          BY <1>1, <2>1 DEF Current
        <5>2. docs'[o] = docs[o] /\ (o \notin excused' => o \notin excused)
          BY <4>3, <1>3, <2>3
        <5>3. Underway => Underway'
          BY DEF Underway
        <5>4. QED
          BY <4>1, <5>1, <5>2, <5>3 DEF OutsHandled, SpentGoing
      <4>4. QED
        BY <4>2, <4>3
    <3>5. o \notin excused' => docs'[o] <= 1
      BY <1>3, <2>3 DEF OutsHandled
    <3>6. QED
      BY <3>2, <3>3, <3>4, <3>5
  <2>9. QED
    BY <2>2, <2>4, <2>5, <2>6, <2>7, <2>8 DEF OutsHandled
<1>4. QED
  BY <1>1, <1>2, <1>3

-----------------------------------------------------------------------------
\* A removal is recorded: additions that have passed the check are overtaken.
LEMMA InsertSpentKeeps ==
    ASSUME OutsInv, NEW t \in Streams, InsertSpent(t)
    PROVE  OutsInv'
<1> USE DEF OutsInv, InsertSpent, nodeVars, userVars
<1>0. PICK c \in Outs : c = Current(t)
  BY HeadHas DEF Serves
<1>1. c = Current(t) /\ queue[t] # <<>> /\ Head(queue[t]) = del(c) /\ at[t] = "next"
  BY <1>0, HeadHas DEF del, Serves
<1>2. Has(t, del(c))
  BY <1>1, HeadHas
<1>3. \A u \in Streams, o \in Outs : /\ Has(u, add(o))' <=> Has(u, add(o))
                                    /\ Has(u, del(o))' <=> Has(u, del(o))
  BY DEF Has
<1>4. \A u \in Streams \ {t} : at'[u] = at[u]
  BY DEF TypeOK
<1>5. at'[t] = "remove" /\ Current(t)' = c
  BY <1>1 DEF TypeOK, Current
<1>6. \A u \in Streams, o \in Outs \ {c} : Removal(u, o) => Removal(u, o)'
  <2> SUFFICES ASSUME NEW u \in Streams, NEW o \in Outs \ {c}, Removal(u, o)
               PROVE  Removal(u, o)'
    OBVIOUS
  <2>1. PICK i \in 1..Len(queue[u]) : queue[u][i] = del(o) /\ (i = 1 => at[u] # "remove")
    BY DEF Removal
  <2>2. u = t => i # 1
    <3>1. Head(queue[t]) = queue[t][1]
      BY <1>1, HeadTailProperties DEF TypeOK
    <3>2. QED
      BY <3>1, <2>1, <1>1 DEF del
  <2>3. QED
    BY <2>1, <2>2, <1>4 DEF Removal
<1>8. TypeOK'
  BY <1>1, SpendableOutsAssumption DEF TypeOK, FailFor, Serves, Point
<1>9. ResyncsCounted' /\ DeletesRemove'
  BY DEF ResyncsCounted, DeletesRemove
<1>10. CopiesCounted'
  <2>1. \A o \in Outs, u \in Streams : /\ Inserting(u, o)' <= Inserting(u, o)
                                      /\ Inserting(u, o) \in {0, 1} /\ Inserting(u, o)' \in {0, 1}
    BY <1>4, <1>5 DEF Inserting, Current
  <2>2. \A o \in Outs : docs[o] \in Nat
    BY DEF TypeOK
  <2>3. QED
    BY <2>1, <2>2 DEF CopiesCounted, Streams
<1>11. SpentOvertakes'
  <2>1. \A u \in Streams, o \in Outs : Adding(u, o)' => Adding(u, o)
    BY <1>4, <1>5 DEF Adding, Current
  <2>2. spent \subseteq Outs
    BY DEF TypeOK
  <2>3. QED
    BY <2>1, <2>2, <1>1 DEF SpentOvertakes, FailFor
<1>12. ASSUME NEW o \in Outs
       PROVE  /\ UnknownAbsent(o)' /\ UnspentComing(o)' /\ SpentGoing(o)'
              /\ o \notin excused' => docs'[o] <= 1
  <2>1. node[c] = "spent"
    BY <1>2 DEF OutsHandled, UnknownAbsent, UnspentComing, TypeOK
  <2>2. spent \subseteq spent' /\ (c \in spent' \/ c \in excused') /\ excused \subseteq excused'
        /\ spent' \subseteq spent \cup {c}
    BY <1>1 DEF FailFor
  <2>3. UnknownAbsent(o)' /\ UnspentComing(o)'
    <3>1. \A u \in Streams : (Has(u, add(o))' <=> Has(u, add(o))) /\ (Has(u, del(o))' <=> Has(u, del(o)))
      BY DEF Has
    <3>2. o = c \/ (o \in spent' <=> o \in spent)
      BY <2>2
    <3>3. UnknownAbsent(o) /\ UnspentComing(o) /\ (Underway => Underway')
      BY DEF OutsHandled, Underway
    <3>4. UnknownAbsent(o)'
      BY <3>1, <3>2, <3>3, <2>1 DEF UnknownAbsent
    <3>5. UnspentComing(o)'
      BY <3>1, <3>2, <3>3, <2>1, <2>2 DEF UnspentComing
    <3>6. QED
      BY <3>4, <3>5
  <2>4. SpentGoing(o)'
    <3>1. CASE o = c
      BY <3>1, <2>2, <1>5 DEF SpentGoing
    <3>2. CASE o # c
      <4>1. \A u \in Streams : at[u] = "remove" /\ Current(u) = o
                              => at'[u] = "remove" /\ Current(u)' = o
        BY <1>1, <1>4 DEF Current
      <4>2. QED
        BY <4>1, <3>2, <1>6, <2>2 DEF OutsHandled, SpentGoing, Underway
    <3>3. QED
      BY <3>1, <3>2
  <2>5. QED
    BY <2>2, <2>3, <2>4 DEF OutsHandled
<1>13. QED
  BY <1>8, <1>9, <1>10, <1>11, <1>12 DEF OutsHandled

\* A removal is done with: it took a document, or there was none.
LEMMA RemoveKeeps ==
    ASSUME OutsInv, NEW t \in Streams, RemoveOutput(t) \/ RetryRemove(t)
    PROVE  OutsInv'
<1> USE DEF OutsInv, nodeVars, userVars
<1>0. PICK c \in Outs : c = Current(t)
  BY HeadHas DEF RemoveOutput, RetryRemove, TypeOK
<1>1. c = Current(t) /\ queue[t] # <<>> /\ Head(queue[t]) = del(c) /\ at[t] = "remove"
  BY <1>0, HeadHas DEF del, RemoveOutput, RetryRemove, TypeOK
<1>2. node[c] = "spent"
  <2>1. Has(t, del(c))
    BY <1>1, HeadHas
  <2>2. QED
    BY <2>1 DEF OutsHandled, UnknownAbsent, UnspentComing, TypeOK
<1>3. \A o \in Outs : docs[o] \in Nat
  BY DEF TypeOK
<1>4. /\ docs' \in [Outs -> Nat] /\ \A o \in Outs \ {c} : docs'[o] = docs[o]
      /\ docs'[c] <= docs[c]
      /\ excused \subseteq excused' /\ excused' \subseteq Outs /\ faults' \in 0..MaxFaults
      /\ c \notin excused' => docs'[c] = 0
  <2>1. c \notin excused => docs[c] <= 1
    BY DEF OutsHandled
  <2>2. CASE RemoveOutput(t)
    <3>1. docs' = [docs EXCEPT ![c] = docs[c] - 1] /\ docs[c] > 0 /\ UNCHANGED <<faults, excused>>
      BY <2>2, <1>1 DEF RemoveOutput
    <3>2. docs[c] - 1 \in Nat /\ (docs[c] <= 1 => docs[c] - 1 = 0)
      BY <3>1, <1>3
    <3>3. QED
      BY <3>1, <3>2, <2>1 DEF TypeOK
  <2>3. CASE RetryRemove(t)
    <3>1. docs' = docs /\ (FailFor(c) \/ (docs[c] = 0 /\ UNCHANGED <<faults, excused>>))
      <4>1. docs' = docs
        BY <2>3 DEF RetryRemove, storeVars
      <4>2. FailFor(Current(t)) \/ (docs[Current(t)] = 0 /\ UNCHANGED <<faults, excused>>)
        BY <2>3 DEF RetryRemove
      <4>3. QED
        BY <4>1, <4>2, <1>1
    <3>2. QED
      BY <3>1, <1>3, SpendableOutsAssumption DEF TypeOK, FailFor
  <2>4. QED
    BY <2>2, <2>3
<1>5. UNCHANGED <<node, confirmed, spent, history, asked, resyncing, resyncs>>
  BY DEF RemoveOutput, RetryRemove, storeVars
<1>6. CASE Finish(t)
  <2>1. /\ queue' \in [Streams -> Seq(Job)] /\ at' \in [Streams -> Point]
        /\ tries' \in [Streams -> 0..3] /\ at'[t] = "next"
        /\ \A u \in Streams \ {t} : queue'[u] = queue[u] /\ at'[u] = at[u]
    BY <1>1, <1>6, FinishJobs
  <2>2. /\ \A u \in Streams, j \in Job : Has(u, j)' => Has(u, j)
        /\ \A u \in Streams, j \in Job : Has(u, j) /\ (u = t => Head(queue[t]) # j) => Has(u, j)'
        /\ \A u \in Streams, o \in Outs :
             Removal(u, o) /\ (u = t => at[t] = "remove" \/ Head(queue[t]) # del(o)) => Removal(u, o)'
        /\ DeletesRemove'
    BY <1>1, <1>6, FinishHas
  <2>3. TypeOK'
    BY <2>1, <1>1, <1>4, <1>5, <1>6 DEF TypeOK, Serves, Finish
  <2>4. ResyncsCounted'
    BY <1>5 DEF ResyncsCounted
  <2>5. CopiesCounted'
    <3>1. \A o \in Outs, u \in Streams : /\ Inserting(u, o)' <= Inserting(u, o)
                                        /\ Inserting(u, o) \in {0, 1} /\ Inserting(u, o)' \in {0, 1}
      BY <2>1 DEF Inserting, Current
    <3>2. \A o \in Outs : docs'[o] \in Nat /\ docs'[o] <= docs[o]
      BY <1>3, <1>4
    <3>3. QED
      BY <3>1, <3>2, <1>3 DEF CopiesCounted, Streams
  <2>6. SpentOvertakes'
    BY <2>1, <1>5, <1>6 DEF SpentOvertakes, Adding, Current, Finish
  <2>7. ASSUME NEW o \in Outs
        PROVE  /\ UnknownAbsent(o)' /\ UnspentComing(o)' /\ SpentGoing(o)'
               /\ o \notin excused' => docs'[o] <= 1
    <3>1. UnknownAbsent(o)'
      BY <2>2, <1>2, <1>4, <1>5, OpsInJob DEF OutsHandled, UnknownAbsent
    <3>2. UnspentComing(o)'
      <4>1. Head(queue[t]) # add(o)
        BY <1>1 DEF add, del
      <4>2. QED
        BY <4>1, <2>2, <1>2, <1>4, <1>5, OpsInJob DEF OutsHandled, UnspentComing, Underway
    <3>3. SpentGoing(o)'
      <4>1. \A u \in Streams : Removal(u, o) => Removal(u, o)'
        BY <2>2, <1>1
      <4>2. CASE o = c
        BY <4>1, <4>2, <1>4, <1>5 DEF OutsHandled, SpentGoing, Underway
      <4>3. CASE o # c
        <5>1. \A u \in Streams : at[u] = "remove" /\ Current(u) = o
                                => at'[u] = "remove" /\ Current(u)' = o
          BY <1>1, <2>1, <4>3 DEF Current
        <5>2. QED
          BY <5>1, <4>1, <4>3, <1>4, <1>5 DEF OutsHandled, SpentGoing, Underway
      <4>4. QED
        BY <4>2, <4>3
    <3>4. o \notin excused' => docs'[o] <= 1
      BY <1>4 DEF OutsHandled
    <3>5. QED
      BY <3>1, <3>2, <3>3, <3>4
  <2>8. QED
    BY <2>2, <2>3, <2>4, <2>5, <2>6, <2>7 DEF OutsHandled
<1>7. CASE /\ tries[t] < 3 /\ tries' = [tries EXCEPT ![t] = @ + 1]
           /\ at' = [at EXCEPT ![t] = "next"] /\ UNCHANGED <<queue, overtaken>>
  <2>1. \A u \in Streams, o \in Outs : /\ Has(u, add(o))' <=> Has(u, add(o))
                                      /\ Has(u, del(o))' <=> Has(u, del(o))
    BY <1>7 DEF Has
  <2>2. \A u \in Streams, o \in Outs : Removal(u, o) => Removal(u, o)'
    BY <1>7 DEF Removal, TypeOK
  <2>3. Removal(t, c)'
    <3>1. queue[t] \in Seq(Job) /\ Head(queue[t]) = queue[t][1] /\ 1 \in 1..Len(queue[t])
      BY <1>1, HeadTailProperties, EmptySeq, LenProperties DEF TypeOK
    <3>2. at'[t] # "remove"
      BY <1>7 DEF TypeOK
    <3>3. QED
      BY <3>1, <3>2, <1>1, <1>7 DEF Removal
  <2>4. TypeOK'
    <3>1. tries' \in [Streams -> 0..3] /\ at' \in [Streams -> Point]
      <4>1. tries[t] \in 0..3 /\ tries[t] + 1 \in 0..3
        BY <1>7 DEF TypeOK
      <4>2. tries' = [tries EXCEPT ![t] = tries[t] + 1]
        BY <1>7
      <4>3. QED
        BY <4>1, <4>2, <1>7 DEF TypeOK, Point
    <3>2. \A u \in Streams : at'[u] = at[u] \/ at'[u] = "next"
      BY <1>7 DEF TypeOK
    <3>3. QED
      BY <3>1, <3>2, <1>4, <1>5, <1>7 DEF TypeOK, Serves
  <2>5. ResyncsCounted' /\ DeletesRemove'
    BY <1>5, <1>7 DEF ResyncsCounted, DeletesRemove
  <2>6. CopiesCounted'
    <3>1. \A o \in Outs, u \in Streams : /\ Inserting(u, o)' <= Inserting(u, o)
                                        /\ Inserting(u, o) \in {0, 1} /\ Inserting(u, o)' \in {0, 1}
      BY <1>7 DEF Inserting, Current, TypeOK
    <3>2. \A o \in Outs : docs'[o] \in Nat /\ docs'[o] <= docs[o]
      BY <1>3, <1>4
    <3>3. QED
      BY <3>1, <3>2, <1>3 DEF CopiesCounted, Streams
  <2>7. SpentOvertakes'
    BY <1>5, <1>7 DEF SpentOvertakes, Adding, Current, TypeOK
  <2>8. ASSUME NEW o \in Outs
        PROVE  /\ UnknownAbsent(o)' /\ UnspentComing(o)' /\ SpentGoing(o)'
               /\ o \notin excused' => docs'[o] <= 1
    <3>0. \A u \in Streams : (Has(u, add(o))' <=> Has(u, add(o))) /\ (Has(u, del(o))' <=> Has(u, del(o)))
      BY <1>7 DEF Has
    <3>1. UnknownAbsent(o)'
      BY <3>0, <1>2, <1>4, <1>5 DEF OutsHandled, UnknownAbsent
    <3>2. UnspentComing(o)'
      BY <3>0, <1>2, <1>4, <1>5 DEF OutsHandled, UnspentComing, Underway
    <3>3. SpentGoing(o)'
      <4>1. \A u \in Streams : u # t /\ at[u] = "remove" /\ Current(u) = o
                              => at'[u] = "remove" /\ Current(u)' = o
        BY <1>7 DEF Current, TypeOK
      <4>2. QED
        BY <4>1, <2>2, <2>3, <1>1, <1>4, <1>5 DEF OutsHandled, SpentGoing, Underway
    <3>4. o \notin excused' => docs'[o] <= 1
      BY <1>4 DEF OutsHandled
    <3>5. QED
      BY <3>1, <3>2, <3>3, <3>4
  <2>9. QED
    BY <2>4, <2>5, <2>6, <2>7, <2>8 DEF OutsHandled
<1>8. QED
  BY <1>6, <1>7 DEF RemoveOutput, RetryRemove

-----------------------------------------------------------------------------
\* Jobs are sent to a stream.
Extends(t, x) ==
    /\ queue' = [queue EXCEPT ![t] = queue[t] \o x]
    /\ at' = at
    /\ t = "delete" => \A i \in 1..Len(x) : x[i].op = "delete"

\* x has the job k.
Brings(x, k) == \E i \in 1..Len(x) : x[i] = k

\* A queue that gets a batch has what it had and what the batch brings.
LEMMA ExtendHas ==
    ASSUME TypeOK, NEW t \in Streams, NEW x \in Seq(Job), Extends(t, x)
    PROVE  /\ queue' \in [Streams -> Seq(Job)]
           /\ \A u \in Streams, k \in Job : Has(u, k)' <=> Has(u, k) \/ (u = t /\ Brings(x, k))
           /\ \A u \in Streams, o \in Outs : Removal(u, o) => Removal(u, o)'
           /\ \A o \in Outs : Brings(x, del(o)) => Removal(t, o)'
           /\ \A u \in Streams : queue[u] # <<>> => queue'[u] # <<>> /\ Head(queue'[u]) = Head(queue[u])
           /\ DeletesRemove => DeletesRemove'
<1> USE DEF Extends, Brings
<1> DEFINE n == Len(queue[t])  m == Len(x)
<1>1. queue[t] \in Seq(Job) /\ n \in Nat /\ m \in Nat
  BY LenProperties DEF TypeOK
<1>2. /\ queue'[t] = queue[t] \o x /\ queue'[t] \in Seq(Job) /\ Len(queue'[t]) = n + m
      /\ \A i \in 1..(n + m) : queue'[t][i] = IF i <= n THEN queue[t][i] ELSE x[i - n]
  <2>1. queue'[t] = queue[t] \o x
    BY DEF TypeOK
  <2>2. queue[t] \o x \in Seq(Job) /\ Len(queue[t] \o x) = n + m
    BY <1>1, ConcatProperties
  <2>3. \A i \in 1..(n + m) : (queue[t] \o x)[i] = IF i <= n THEN queue[t][i] ELSE x[i - n]
    BY <1>1, ConcatProperties
  <2>4. QED
    BY <2>1, <2>2, <2>3
<1>3. \A u \in Streams \ {t} : queue'[u] = queue[u]
  BY DEF TypeOK
<1>4. queue' \in [Streams -> Seq(Job)]
  BY <1>1, <1>2 DEF TypeOK
<1>5. n > 0 <=> queue[t] # <<>>
  BY <1>1, EmptySeq
<1>6. ASSUME queue[t] # <<>> PROVE queue'[t] # <<>> /\ Head(queue'[t]) = Head(queue[t])
  <2>1. Head(queue[t]) = queue[t][1]
    BY <1>1, <1>6, HeadTailProperties
  <2>2. queue'[t] # <<>> /\ Head(queue'[t]) = queue'[t][1]
    BY <1>1, <1>2, <1>5, <1>6, HeadTailProperties, EmptySeq
  <2>3. QED
    BY <2>1, <2>2, <1>1, <1>2, <1>5, <1>6
<1> HIDE DEF n, m
<1>7. /\ \A i \in 1..n : i \in 1..(n + m) /\ queue'[t][i] = queue[t][i]
      /\ \A i \in 1..m : (n + i) \in 1..(n + m) /\ queue'[t][n + i] = x[i]
      /\ \A i \in 1..(n + m) : i \in 1..n \/ \E k \in 1..m : i = n + k
  <2>1. \A i \in 1..n : i \in 1..(n + m) /\ queue'[t][i] = queue[t][i]
    BY <1>1, <1>2
  <2>2. ASSUME NEW i \in 1..m
        PROVE  (n + i) \in 1..(n + m) /\ queue'[t][n + i] = x[i]
    <3>1. (n + i) \in 1..(n + m) /\ ~(n + i <= n) /\ (n + i) - n = i
      BY <1>1
    <3>2. queue'[t][n + i] = x[(n + i) - n]
      BY <3>1, <1>2
    <3>3. QED
      BY <3>1, <3>2
  <2>3. ASSUME NEW i \in 1..(n + m), i \notin 1..n
        PROVE  \E k \in 1..m : i = n + k
    <3>1. (i - n) \in 1..m /\ i = n + (i - n)
      BY <1>1, <2>3
    <3>2. QED
      BY <3>1
  <2>4. QED
    BY <2>1, <2>2, <2>3
<1>8. ASSUME NEW u \in Streams, NEW k \in Job
      PROVE  Has(u, k)' <=> Has(u, k) \/ (u = t /\ \E i \in 1..m : x[i] = k)
  <2>1. CASE u = t
    <3>1. Has(u, k)' <=> \E i \in 1..(n + m) : queue'[t][i] = k
      BY <2>1, <1>2 DEF Has
    <3>2. Has(u, k) <=> \E i \in 1..n : queue[t][i] = k
      BY <2>1 DEF Has, n
    <3>3. (\E i \in 1..(n + m) : queue'[t][i] = k)
             => (\E i \in 1..n : queue[t][i] = k) \/ (\E i \in 1..m : x[i] = k)
      <4> SUFFICES ASSUME NEW i \in 1..(n + m), queue'[t][i] = k
                   PROVE  (\E h \in 1..n : queue[t][h] = k) \/ (\E h \in 1..m : x[h] = k)
        OBVIOUS
      <4>1. CASE i \in 1..n
        BY <4>1, <1>7
      <4>2. CASE i \notin 1..n
        <5>1. PICK h \in 1..m : i = n + h
          BY <4>2, <1>7
        <5>2. QED
          BY <5>1, <1>7
      <4>3. QED
        BY <4>1, <4>2
    <3>4. (\E i \in 1..n : queue[t][i] = k) => \E i \in 1..(n + m) : queue'[t][i] = k
      BY <1>7
    <3>5. (\E i \in 1..m : x[i] = k) => \E i \in 1..(n + m) : queue'[t][i] = k
      BY <1>7
    <3>6. QED
      BY <2>1, <3>1, <3>2, <3>3, <3>4, <3>5
  <2>2. CASE u # t
    BY <2>2, <1>3 DEF Has
  <2>3. QED
    BY <2>1, <2>2
<1>9. ASSUME NEW u \in Streams, NEW o \in Outs, Removal(u, o) PROVE Removal(u, o)'
  <2>1. CASE u = t
    BY <2>1, <1>2, <1>7, <1>9 DEF Removal, n
  <2>2. CASE u # t
    BY <2>2, <1>3, <1>9 DEF Removal
  <2>3. QED
    BY <2>1, <2>2
<1>10. ASSUME NEW o \in Outs, NEW i \in 1..m, x[i] = del(o) PROVE Removal(t, o)'
  <2>1. (n + i) \in 1..(n + m) /\ queue'[t][n + i] = del(o)
    BY <1>7, <1>10
  <2>2. n + i = 1 => at'[t] # "remove"
    BY <1>1, <1>5 DEF TypeOK
  <2>3. QED
    BY <2>1, <2>2, <1>2 DEF Removal
<1>11. DeletesRemove => DeletesRemove'
  <2>1. CASE t = "delete"
    BY <2>1, <1>2, <1>7 DEF DeletesRemove, n, m
  <2>2. CASE t # "delete"
    BY <2>2, <1>3 DEF DeletesRemove, Streams
  <2>3. QED
    BY <2>1, <2>2
<1>12. QED
  BY <1>3, <1>4, <1>6, <1>8, <1>9, <1>10, <1>11 DEF m

\* A queue that gets one message has what it had and that message.
LEMMA SendHas ==
    ASSUME TypeOK, NEW t \in Streams, NEW j \in Job, Send(t, j), UNCHANGED at,
           t = "delete" => j.op = "delete"
    PROVE  /\ queue' \in [Streams -> Seq(Job)] /\ Has(t, j)'
           /\ \A u \in Streams, k \in Job : Has(u, k) => Has(u, k)'
           /\ \A u \in Streams, k \in Job : Has(u, k)' => Has(u, k) \/ (u = t /\ k = j)
           /\ \A u \in Streams, o \in Outs : Removal(u, o) => Removal(u, o)'
           /\ \A o \in Outs : j = del(o) => Removal(t, o)'
           /\ \A u \in Streams : queue[u] # <<>> => queue'[u] # <<>> /\ Head(queue'[u]) = Head(queue[u])
           /\ DeletesRemove => DeletesRemove'
<1>1. queue[t] \in Seq(Job) /\ queue' = [queue EXCEPT ![t] = Append(queue[t], j)]
  BY DEF TypeOK, Send
<1>2. Append(queue[t], j) = queue[t] \o <<j>>
  BY <1>1, AppendIsConcat
<1>3. <<j>> \in Seq(Job) /\ Len(<<j>>) = 1 /\ <<j>>[1] = j
  OBVIOUS
<1>4. Extends(t, <<j>>)
  BY <1>1, <1>2, <1>3 DEF Extends
<1>5. \A k \in Job : Brings(<<j>>, k) <=> k = j
  BY <1>3 DEF Brings
<1>6. PICK x \in Seq(Job) : Extends(t, x) /\ \A k \in Job : Brings(x, k) <=> k = j
  BY <1>3, <1>4, <1>5
<1>7. /\ queue' \in [Streams -> Seq(Job)]
      /\ \A u \in Streams, k \in Job : Has(u, k)' <=> Has(u, k) \/ (u = t /\ Brings(x, k))
      /\ \A u \in Streams, o \in Outs : Removal(u, o) => Removal(u, o)'
      /\ \A o \in Outs : Brings(x, del(o)) => Removal(t, o)'
      /\ \A u \in Streams : queue[u] # <<>> => queue'[u] # <<>> /\ Head(queue'[u]) = Head(queue[u])
      /\ DeletesRemove => DeletesRemove'
  BY <1>6, ExtendHas
<1>8. QED
  BY <1>6, <1>7, OpsInJob

\* What a step about the queues alone keeps.
LEMMA NodeKeeps ==
    ASSUME OutsInv, NEW o \in Outs, NodeAdds(o) \/ NodeConfirms(o) \/ NodeSpends(o)
    PROVE  OutsInv'
<1> USE DEF OutsInv, storeVars, userVars
<1>1. PICK t \in Streams, j \in {add(o), del(o)} :
         /\ Send(t, j) /\ (j = del(o) <=> NodeSpends(o)) /\ (t = "delete" <=> j = del(o))
  BY OpsInJob DEF NodeAdds, NodeConfirms, NodeSpends, Streams
<1>2. j \in Job /\ (t = "delete" => j.op = "delete")
  <2>1. add(o) \in Job /\ del(o) \in Job /\ del(o).op = "delete"
    BY DEF add, del, Job
  <2>2. QED
    BY <1>1, <2>1
<1>3. UNCHANGED <<at, tries, docs, spent, history, asked, resyncing, resyncs, faults, overtaken, excused>>
  BY DEF NodeAdds, NodeConfirms, NodeSpends
<1>4. /\ queue' \in [Streams -> Seq(Job)] /\ Has(t, j)'
      /\ \A u \in Streams, k \in Job : Has(u, k) => Has(u, k)'
      /\ \A u \in Streams, k \in Job : Has(u, k)' => Has(u, k) \/ (u = t /\ k = j)
      /\ \A u \in Streams, p \in Outs : Removal(u, p) => Removal(u, p)'
      /\ j = del(o) => Removal(t, o)'
      /\ \A u \in Streams : queue[u] # <<>> => queue'[u] # <<>> /\ Head(queue'[u]) = Head(queue[u])
      /\ DeletesRemove'
  BY <1>1, <1>2, <1>3, SendHas
<1>5. /\ node' \in [Outs -> {"none", "unspent", "spent"}] /\ confirmed' \in SUBSET Outs
      /\ \A p \in Outs \ {o} : node'[p] = node[p]
      /\ \/ node[o] = "none" /\ node'[o] = "unspent" /\ j = add(o)
         \/ node[o] # "none" /\ node'[o] = node[o] /\ j = add(o)
         \/ node[o] = "unspent" /\ node'[o] = "spent" /\ j = del(o)
  BY <1>1, OpsInJob DEF NodeAdds, NodeConfirms, NodeSpends, TypeOK
<1>6. \A u \in Streams : at[u] # "next" => queue[u] # <<>> /\ Current(u)' = Current(u)
  BY <1>4 DEF TypeOK, Current
<1>7. TypeOK'
  BY <1>3, <1>4, <1>5 DEF TypeOK, Serves
<1>8. ResyncsCounted'
  BY <1>3 DEF ResyncsCounted
<1>9. CopiesCounted'
  <2>1. \A p \in Outs, u \in Streams : /\ Inserting(u, p)' <= Inserting(u, p)
                                      /\ Inserting(u, p) \in {0, 1} /\ Inserting(u, p)' \in {0, 1}
    BY <1>3, <1>6 DEF Inserting
  <2>2. \A p \in Outs : docs[p] \in Nat /\ docs'[p] = docs[p]
    BY <1>3 DEF TypeOK
  <2>3. QED
    BY <2>1, <2>2 DEF CopiesCounted, Streams
<1>10. SpentOvertakes'
  BY <1>3, <1>6 DEF SpentOvertakes, Adding
<1>11. ASSUME NEW p \in Outs
       PROVE  /\ UnknownAbsent(p)' /\ UnspentComing(p)' /\ SpentGoing(p)'
              /\ p \notin excused' => docs'[p] <= 1
  <2>1. UnknownAbsent(p) /\ UnspentComing(p) /\ SpentGoing(p)
        /\ (p \notin excused => docs[p] <= 1) /\ (Underway => Underway')
    BY <1>3 DEF OutsHandled, Underway
  <2>2. \A u \in Streams : /\ Has(u, add(p)) => Has(u, add(p))'
                           /\ Has(u, add(p))' => Has(u, add(p)) \/ (u = t /\ add(p) = j)
                           /\ Has(u, del(p))' => Has(u, del(p)) \/ (u = t /\ del(p) = j)
    BY <1>4, OpsInJob
  <2>3. /\ add(p) = add(o) <=> p = o
        /\ del(p) = del(o) <=> p = o
        /\ add(p) # del(o) /\ del(p) # add(o)
    BY DEF add, del
  <2>4. UnknownAbsent(p)'
    BY <2>1, <2>2, <2>3, <1>3, <1>5 DEF UnknownAbsent
  <2>5. UnspentComing(p)'
    <3>1. CASE node[p] = "none" /\ p = o
      BY <3>1, <2>1, <2>2, <2>3, <1>3, <1>4, <1>5 DEF UnknownAbsent, UnspentComing
    <3>2. CASE ~(node[p] = "none" /\ p = o)
      BY <3>2, <2>1, <2>2, <2>3, <1>3, <1>5 DEF UnspentComing
    <3>3. QED
      BY <3>1, <3>2
  <2>6. SpentGoing(p)'
    <3>1. \A u \in Streams : at[u] = "remove" /\ Current(u) = p
                            => at'[u] = "remove" /\ Current(u)' = p
      BY <1>3, <1>6
    <3>2. QED
      BY <3>1, <2>1, <1>3, <1>4, <1>5 DEF SpentGoing
  <2>7. QED
    BY <2>1, <2>4, <2>5, <2>6, <1>3
<1>12. QED
  BY <1>4, <1>7, <1>8, <1>9, <1>10, <1>11 DEF OutsHandled

-----------------------------------------------------------------------------
\* The answer to a resync has every output, and the removal of the spent ones.
LEMMA JobsOf ==
    ASSUME NEW S \in SUBSET Outs, NEW s \in Orders(S), NEW op \in {"add", "delete"}
    PROVE  /\ Jobs(op, s) \in Seq(Job)
           /\ \A k \in Job : Brings(Jobs(op, s), k) <=> k.op = op /\ k.out \in S
           /\ s = <<>> \/ s[1] \in Outs
<1>1. IsFiniteSet(S) /\ Cardinality(S) \in Nat
  BY SpendableOutsAssumption, FS_Subset, FS_CardinalityType
<1> DEFINE n == Cardinality(S)
<1>2. s \in [1..n -> S] /\ S = {s[i] : i \in 1..n}
  BY DEF Orders
<1>3. Jobs(op, s) = [i \in 1..n |-> [op |-> op, out |-> s[i]]]
  BY <1>2 DEF Jobs
<1>4. \A i \in 1..n : [op |-> op, out |-> s[i]] \in Job
  BY <1>2 DEF Job
<1>5. Jobs(op, s) \in Seq(Job) /\ Len(Jobs(op, s)) = n
  BY <1>1, <1>3, <1>4
<1>6. \A k \in Job : k.op = op /\ k.out \in S => \E i \in 1..n : Jobs(op, s)[i] = k
  <2> SUFFICES ASSUME NEW k \in Job, k.op = op, k.out \in S
               PROVE  \E i \in 1..n : Jobs(op, s)[i] = k
    OBVIOUS
  <2>1. PICK i \in 1..n : s[i] = k.out
    BY <1>2
  <2>2. k = [op |-> op, out |-> s[i]]
    BY <2>1 DEF Job
  <2>3. QED
    BY <2>2, <1>3
<1>7. \A i \in 1..n : Jobs(op, s)[i].op = op /\ Jobs(op, s)[i].out \in S
  BY <1>2, <1>3
<1>8. s = <<>> \/ s[1] \in Outs
  <2>1. CASE n = 0
    <3>1. s \in Seq(S) /\ Len(s) = 0
      BY <1>1, <1>2, <2>1
    <3>2. QED
      BY <3>1, EmptySeq
  <2>2. CASE n # 0
    BY <1>1, <1>2, <2>2
  <2>3. QED
    BY <2>1, <2>2
<1>9. QED
  BY <1>5, <1>6, <1>7, <1>8 DEF Brings

\* What two sequences of jobs have together.
LEMMA ConcatJobs ==
    ASSUME NEW x \in Seq(Job), NEW y \in Seq(Job)
    PROVE  /\ x \o y \in Seq(Job)
           /\ \A k \in Job : Brings(x \o y, k) <=> Brings(x, k) \/ Brings(y, k)
<1> DEFINE n == Len(x)  m == Len(y)  z == x \o y
<1>1. /\ n \in Nat /\ m \in Nat /\ z \in Seq(Job) /\ Len(z) = n + m
      /\ \A i \in 1..(n + m) : z[i] = IF i <= n THEN x[i] ELSE y[i - n]
  BY ConcatProperties, LenProperties
<1> HIDE DEF n, m, z
<1>2. \A i \in 1..n : i \in 1..(n + m) /\ z[i] = x[i]
  BY <1>1
<1>3. ASSUME NEW i \in 1..m PROVE (n + i) \in 1..(n + m) /\ z[n + i] = y[i]
  <2>1. (n + i) \in 1..(n + m) /\ ~(n + i <= n) /\ (n + i) - n = i
    BY <1>1
  <2>2. z[n + i] = y[(n + i) - n]
    BY <2>1, <1>1
  <2>3. QED
    BY <2>1, <2>2
<1>4. ASSUME NEW k \in Job, NEW i \in 1..(n + m), z[i] = k
      PROVE  (\E h \in 1..n : x[h] = k) \/ (\E h \in 1..m : y[h] = k)
  <2>1. CASE i <= n
    <3>1. i \in 1..n
      BY <2>1, <1>1
    <3>2. QED
      BY <3>1, <1>2, <1>4
  <2>2. CASE ~(i <= n)
    <3>1. (i - n) \in 1..m /\ z[i] = y[i - n]
      BY <2>2, <1>1
    <3>2. QED
      BY <3>1, <1>4
  <2>3. QED
    BY <2>1, <2>2
<1>5. ASSUME NEW k \in Job
      PROVE  (\E i \in 1..(n + m) : z[i] = k)
               <=> (\E i \in 1..n : x[i] = k) \/ (\E i \in 1..m : y[i] = k)
  <2>1. (\E i \in 1..n : x[i] = k) => \E i \in 1..(n + m) : z[i] = k
    BY <1>2
  <2>2. (\E i \in 1..m : y[i] = k) => \E i \in 1..(n + m) : z[i] = k
    BY <1>3
  <2>3. QED
    BY <2>1, <2>2, <1>4
<1>6. QED
  BY <1>1, <1>5 DEF n, m, z, Brings

\* Sequences of jobs are put together in any grouping.
LEMMA ConcatGroups ==
    ASSUME NEW x \in Seq(Job), NEW y \in Seq(Job), NEW z \in Seq(Job)
    PROVE  (x \o y) \o z = x \o (y \o z)
  OBVIOUS

\* The node answers a resync.
LEMMA AnswerKeeps ==
    ASSUME OutsInv, NodeAnswers
    PROVE  OutsInv'
<1> USE DEF OutsInv, nodeVars, storeVars
<1> DEFINE Known == {o \in Outs : node[o] # "none"}  Gone == {o \in Outs : node[o] = "spent"}
<1>1. PICK known \in Orders(Known), gone \in Orders(Gone) :
         queue' = [queue EXCEPT !["resync"] =
                     @ \o Jobs("add", known) \o Jobs("delete", gone)
                       \o (IF known = <<>> THEN <<>> ELSE Jobs("end", <<known[1]>>))]
  BY DEF NodeAnswers
<1>2. PICK e \in Seq(Job) :
         /\ e = IF known = <<>> THEN <<>> ELSE Jobs("end", <<known[1]>>)
         /\ \A k \in Job : Brings(e, k) => k.op = "end"
  <2>1. CASE known = <<>>
    <3>1. <<>> \in Seq(Job) /\ Len(<<>>) = 0
      BY EmptySeq
    <3>2. \A k \in Job : ~Brings(<<>>, k)
      BY <3>1 DEF Brings
    <3>3. QED
      BY <2>1, <3>1, <3>2
  <2>2. CASE known # <<>>
    <3>1. PICK j \in Job : j = [op |-> "end", out |-> known[1]]
      <4>1. known[1] \in Outs
        BY <2>2, JobsOf
      <4>2. QED
        BY <4>1 DEF Job
    <3>2. Jobs("end", <<known[1]>>) = <<j>>
      BY <3>1 DEF Jobs
    <3>3. <<j>> \in Seq(Job) /\ Len(<<j>>) = 1 /\ <<j>>[1] = j
      OBVIOUS
    <3>4. \A k \in Job : Brings(<<j>>, k) => k = j
      BY <3>3 DEF Brings
    <3>5. j.op = "end"
      BY <3>1
    <3>6. \A k \in Job : Brings(<<j>>, k) => k.op = "end"
      BY <3>4, <3>5
    <3>7. QED
      BY <2>2, <3>2, <3>3, <3>6
  <2>3. QED
    BY <2>1, <2>2
<1>3. PICK a \in Seq(Job) :
         /\ a = Jobs("add", known)
         /\ \A k \in Job : Brings(a, k) <=> k.op = "add" /\ k.out \in Known
  BY JobsOf
<1>4. PICK d \in Seq(Job) :
         /\ d = Jobs("delete", gone)
         /\ \A k \in Job : Brings(d, k) <=> k.op = "delete" /\ k.out \in Gone
  BY JobsOf
<1>5. PICK y \in Seq(Job) :
         y = a \o d /\ \A k \in Job : Brings(y, k) <=> Brings(a, k) \/ Brings(d, k)
  <2>1. a \o d \in Seq(Job) /\ \A k \in Job : Brings(a \o d, k) <=> Brings(a, k) \/ Brings(d, k)
    BY ConcatJobs, Zenon
  <2>2. QED
    BY <2>1, Zenon
<1>b. PICK x \in Seq(Job) :
         x = y \o e /\ \A k \in Job : Brings(x, k) <=> Brings(y, k) \/ Brings(e, k)
  <2>1. y \o e \in Seq(Job) /\ \A k \in Job : Brings(y \o e, k) <=> Brings(y, k) \/ Brings(e, k)
    BY ConcatJobs, Zenon
  <2>2. QED
    BY <2>1, Zenon
<1>6. Extends("resync", x)
  <2>1. PICK q \in Seq(Job) : q = queue["resync"]
    BY DEF TypeOK, Streams
  <2>2. (q \o a) \o d = q \o y
    <3>1. (q \o a) \o d = q \o (a \o d)
      BY ConcatGroups, Zenon
    <3>2. QED
      BY <3>1, <1>5, Zenon
  <2>3. (q \o y) \o e = q \o x
    <3>1. (q \o y) \o e = q \o (y \o e)
      BY ConcatGroups, Zenon
    <3>2. QED
      BY <3>1, <1>b, Zenon
  <2>4. queue' = [queue EXCEPT !["resync"] = ((q \o a) \o d) \o e]
    BY <2>1, <1>1, <1>2, <1>3, <1>4
  <2>5. queue' = [queue EXCEPT !["resync"] = queue["resync"] \o x]
    BY <2>1, <2>2, <2>3, <2>4
  <2>6. QED
    BY <2>5 DEF Extends, NodeAnswers
<1>7. PICK t \in Streams :
      /\ t = "resync"
      /\ queue' \in [Streams -> Seq(Job)]
      /\ \A u \in Streams, k \in Job : Has(u, k)' <=> Has(u, k) \/ (u = t /\ Brings(x, k))
      /\ \A u \in Streams, o \in Outs : Removal(u, o) => Removal(u, o)'
      /\ \A o \in Outs : Brings(x, del(o)) => Removal(t, o)'
      /\ \A u \in Streams : queue[u] # <<>> => queue'[u] # <<>> /\ Head(queue'[u]) = Head(queue[u])
      /\ DeletesRemove'
  BY <1>6, ExtendHas DEF Streams
<1>8. ASSUME NEW o \in Outs
      PROVE  /\ Brings(x, add(o)) <=> node[o] # "none"
             /\ Brings(x, del(o)) <=> node[o] = "spent"
  <2>1. /\ add(o) \in Job /\ add(o).op = "add" /\ add(o).out = o
        /\ del(o) \in Job /\ del(o).op = "delete" /\ del(o).out = o
    BY DEF add, del, Job
  <2>2. Brings(x, add(o)) <=> o \in Known
    BY <2>1, <1>2, <1>3, <1>4, <1>5, <1>b
  <2>3. Brings(x, del(o)) <=> o \in Gone
    BY <2>1, <1>2, <1>3, <1>4, <1>5, <1>b
  <2>4. QED
    BY <2>2, <2>3
<1>9. /\ asked \in Nat /\ asked > 0 /\ asked' = asked - 1
      /\ UNCHANGED <<node, confirmed, at, tries, docs, spent, history, resyncing, resyncs,
                     faults, overtaken, excused>>
  BY SpendableOutsAssumption DEF NodeAnswers, TypeOK
<1>10. \A u \in Streams : at[u] # "next" => queue[u] # <<>> /\ Current(u)' = Current(u)
  BY <1>7 DEF TypeOK, Current
<1>11. TypeOK'
  <2>1. asked' \in 0..MaxResyncs
    BY <1>9, SpendableOutsAssumption DEF TypeOK
  <2>2. \A u \in Streams : /\ at[u] # "next" => queue'[u] # <<>>
                           /\ at[u] # "next" => Head(queue'[u]) = Head(queue[u])
    BY <1>7 DEF TypeOK
  <2>3. QED
    BY <1>7, <1>9, <2>1, <2>2 DEF TypeOK, Serves
<1>12. ResyncsCounted'
  BY <1>9 DEF ResyncsCounted, TypeOK
<1>13. CopiesCounted'
  <2>1. \A p \in Outs, u \in Streams : /\ Inserting(u, p)' <= Inserting(u, p)
                                      /\ Inserting(u, p) \in {0, 1} /\ Inserting(u, p)' \in {0, 1}
    BY <1>9, <1>10 DEF Inserting
  <2>2. \A p \in Outs : docs[p] \in Nat /\ docs'[p] = docs[p]
    BY <1>9 DEF TypeOK
  <2>3. QED
    BY <2>1, <2>2 DEF CopiesCounted, Streams
<1>14. SpentOvertakes'
  BY <1>9, <1>10 DEF SpentOvertakes, Adding
<1>15. ASSUME NEW o \in Outs
       PROVE  /\ UnknownAbsent(o)' /\ UnspentComing(o)' /\ SpentGoing(o)'
              /\ o \notin excused' => docs'[o] <= 1
  <2>1. UnknownAbsent(o) /\ UnspentComing(o) /\ SpentGoing(o)
        /\ (o \notin excused => docs[o] <= 1)
    BY DEF OutsHandled
  <2>2. \A u \in Streams : /\ Has(u, add(o))' <=> Has(u, add(o)) \/ (u = t /\ node[o] # "none")
                           /\ Has(u, del(o))' <=> Has(u, del(o)) \/ (u = t /\ node[o] = "spent")
    <3>1. \A u \in Streams : Has(u, add(o))' <=> Has(u, add(o)) \/ (u = t /\ Brings(x, add(o)))
      BY <1>7, OpsInJob
    <3>2. \A u \in Streams : Has(u, del(o))' <=> Has(u, del(o)) \/ (u = t /\ Brings(x, del(o)))
      BY <1>7, OpsInJob
    <3>3. QED
      BY <3>1, <3>2, <1>8
  <2>3. UnknownAbsent(o)'
    BY <2>1, <2>2, <1>9 DEF UnknownAbsent
  <2>4. UnspentComing(o)'
    BY <2>1, <2>2, <1>9 DEF UnspentComing, Streams
  <2>5. SpentGoing(o)'
    <3>1. node[o] = "spent" => Removal(t, o)'
      BY <1>7, <1>8
    <3>2. QED
      BY <3>1, <1>9 DEF SpentGoing, Streams
  <2>6. QED
    BY <2>1, <2>3, <2>4, <2>5, <1>9
<1>16. QED
  BY <1>7, <1>11, <1>12, <1>13, <1>14, <1>15 DEF OutsHandled

-----------------------------------------------------------------------------
\* What the user asks for leaves the streams as they are; it takes documents
\* and records away only while the node's answer is still to come.
LEMMA UserKeeps ==
    ASSUME OutsInv, TypeOK', ResyncsCounted',
           UNCHANGED <<nodeVars, queue, at, tries, overtaken>>,
           \A o \in Outs : docs'[o] = 0 \/ docs'[o] = docs[o], spent' \subseteq spent,
           excused \subseteq excused', Underway' \/ excused' = Outs
    PROVE  OutsInv'
<1> USE DEF OutsInv, nodeVars
<1>1. DeletesRemove'
  BY DEF DeletesRemove
<1>2. CopiesCounted'
  <2>1. \A o \in Outs, u \in Streams : /\ Inserting(u, o)' = Inserting(u, o)
                                      /\ Inserting(u, o) \in {0, 1}
    BY DEF Inserting, Current
  <2>2. \A o \in Outs : docs[o] \in Nat /\ (docs'[o] = 0 \/ docs'[o] = docs[o])
    BY DEF TypeOK
  <2>3. QED
    BY <2>1, <2>2 DEF CopiesCounted, Streams
<1>3. SpentOvertakes'
  BY DEF SpentOvertakes, Adding, Current
<1>4. ASSUME NEW o \in Outs
      PROVE  /\ UnknownAbsent(o)' /\ UnspentComing(o)' /\ SpentGoing(o)'
             /\ o \notin excused' => docs'[o] <= 1
  <2>1. \A u \in Streams : /\ Has(u, add(o))' <=> Has(u, add(o))
                           /\ Has(u, del(o))' <=> Has(u, del(o))
    BY DEF Has
  <2>2. UnknownAbsent(o) /\ UnspentComing(o) /\ (o \notin excused => docs[o] <= 1)
    BY DEF OutsHandled
  <2>3. UnknownAbsent(o)'
    BY <2>1, <2>2 DEF UnknownAbsent
  <2>4. UnspentComing(o)'
    BY <2>1, <2>2 DEF UnspentComing
  <2>5. SpentGoing(o)'
    BY DEF SpentGoing
  <2>6. QED
    BY <2>2, <2>3, <2>4, <2>5
<1>5. QED
  BY <1>1, <1>2, <1>3, <1>4 DEF OutsHandled

\* The steps of the user and of the resync request keep it.
LEMMA UserStepKeeps ==
    ASSUME OutsInv, UserStep
    PROVE  OutsInv'
<1> USE DEF OutsInv
<1>1. asked \in Nat /\ resyncs \in Nat /\ resyncs <= MaxResyncs /\ asked <= resyncs
      /\ (history # "idle" => asked + 1 <= resyncs)
  BY SpendableOutsAssumption DEF TypeOK, ResyncsCounted
<1>2. CASE AskResync
  <2>1. TypeOK' /\ ResyncsCounted' /\ Underway'
    BY <1>1, <1>2, SpendableOutsAssumption
    DEF AskResync, nodeVars, storeVars, TypeOK, Serves, ResyncsCounted, Underway
  <2>2. QED
    BY <1>2, <2>1, UserKeeps DEF AskResync, storeVars
<1>3. CASE DropOutputs
  <2>1. TypeOK' /\ ResyncsCounted' /\ Underway'
    BY <1>1, <1>3 DEF DropOutputs, nodeVars, TypeOK, Serves, ResyncsCounted, Underway
  <2>2. \A o \in Outs : docs'[o] = 0
    BY <1>3 DEF DropOutputs
  <2>3. QED
    BY <1>3, <2>1, <2>2, UserKeeps DEF DropOutputs
<1>4. CASE DropSpent
  <2>1. TypeOK' /\ ResyncsCounted' /\ Underway'
    BY <1>1, <1>4 DEF DropSpent, nodeVars, TypeOK, Serves, ResyncsCounted, Underway
  <2>2. QED
    BY <1>4, <2>1, UserKeeps DEF DropSpent
<1>5. CASE CallNode
  <2>1. TypeOK' /\ ResyncsCounted'
    BY <1>1, <1>5, SpendableOutsAssumption
    DEF CallNode, nodeVars, storeVars, TypeOK, Serves, ResyncsCounted
  <2>2. excused \subseteq excused' /\ (Underway' \/ excused' = Outs)
    BY <1>1, <1>5 DEF CallNode, TypeOK, Underway
  <2>3. QED
    BY <1>5, <2>1, <2>2, UserKeeps DEF CallNode, storeVars
<1>6. QED
  BY <1>2, <1>3, <1>4, <1>5 DEF UserStep

\* It holds at the start.
LEMMA InitOuts == Init => OutsInv
<1> SUFFICES ASSUME Init PROVE OutsInv
  OBVIOUS
<1> USE DEF Init
<1>1. TypeOK
  <2>1. <<>> \in Seq(Job)
    BY EmptySeq
  <2>2. queue \in [Streams -> Seq(Job)] /\ \A t \in Streams : at[t] = "next"
    BY <2>1
  <2>3. asked \in 0..MaxResyncs /\ resyncs \in 0..MaxResyncs /\ faults \in 0..MaxFaults
    BY SpendableOutsAssumption
  <2>4. at \in [Streams -> Point] /\ tries \in [Streams -> 0..3] /\ docs \in [Outs -> Nat]
    BY DEF Point
  <2>5. QED
    BY <2>2, <2>3, <2>4 DEF TypeOK
<1>2. \A t \in Streams : queue[t] = <<>> /\ Len(queue[t]) = 0 /\ at[t] = "next"
  BY EmptySeq
<1>3. ResyncsCounted /\ DeletesRemove /\ SpentOvertakes
  BY <1>2 DEF ResyncsCounted, DeletesRemove, SpentOvertakes, Streams
<1>4. CopiesCounted
  BY <1>2 DEF CopiesCounted, Inserting, Streams
<1>5. \A t \in Streams, k \in Job : ~Has(t, k)
  BY <1>2 DEF Has
<1>6. OutsHandled
  BY <1>5, OpsInJob DEF OutsHandled, UnknownAbsent, UnspentComing, SpentGoing
<1>7. QED
  BY <1>1, <1>3, <1>4, <1>6 DEF OutsInv

\* A step that changes nothing keeps it.
LEMMA StutterKeeps ==
    ASSUME OutsInv, UNCHANGED vars
    PROVE  OutsInv'
<1> USE DEF vars, nodeVars, storeVars, userVars
<1>1. TypeOK' /\ ResyncsCounted' /\ DeletesRemove'
  BY DEF OutsInv, TypeOK, Serves, ResyncsCounted, DeletesRemove
<1>2. CopiesCounted' /\ SpentOvertakes'
  BY DEF OutsInv, CopiesCounted, Inserting, Current, SpentOvertakes, Adding
<1>3. OutsHandled'
  BY DEF OutsInv, OutsHandled, UnknownAbsent, UnspentComing, SpentGoing, Underway, Has, Removal,
         Current
<1>4. QED
  BY <1>1, <1>2, <1>3 DEF OutsInv

\* Every step keeps the invariant.
LEMMA NextKeeps == OutsInv /\ [Next]_vars => OutsInv'
<1> SUFFICES ASSUME OutsInv, [Next]_vars PROVE OutsInv'
  OBVIOUS
<1>1. ASSUME NEW t \in Streams, EndResync(t) PROVE OutsInv'
  <2>1. queue[t] # <<>> /\ Serves(t, "end") /\ at[t] = "next" /\ ~Serves(t, "add")
    BY <1>1 DEF EndResync, Serves
  <2>2. excused \subseteq excused' /\ excused' \subseteq Outs /\ faults' \in 0..MaxFaults
    BY <1>1 DEF EndResync, OutsInv, TypeOK
  <2>3. QED
    BY <1>1, <2>1, <2>2, DoneKeeps DEF EndResync
<1>2. ASSUME NEW t \in Streams, StreamStep(t) PROVE OutsInv'
  BY <1>1, <1>2, AddingKeeps, InsertOutputKeeps, InsertSpentKeeps, RemoveKeeps DEF StreamStep
<1>3. CASE NodeStep
  BY <1>3, NodeKeeps DEF NodeStep
<1>4. QED
  BY <1>2, <1>3, AnswerKeeps, UserStepKeeps, StutterKeeps DEF Next

-----------------------------------------------------------------------------
\* btc/handlers.go's loops, a resync and the calls that fail keep the collections
\* where each output is as the node has it, or its job is still to come.
THEOREM OutsInvariant == Spec => []OutsInv
  BY InitOuts, NextKeeps, PTL DEF Spec

\* Every variable holds a value of its kind, and a goroutine between two calls
\* has the message they are about.
THEOREM OutsTyped == Spec => []TypeOK
<1>1. OutsInv => TypeOK
  BY DEF OutsInv
<1>2. QED
  BY <1>1, OutsInvariant, PTL

\* The add stream and the resync stream may both insert an output that was not
\* there, and no more than that.
THEOREM OutsBounded == Spec => []CopiesBounded
<1>1. OutsInv => CopiesBounded
  <2> SUFFICES ASSUME OutsInv, NEW o \in Outs
               PROVE  docs[o] + Cardinality({t \in {"add", "resync"} : at[t] = "insert" /\ Current(t) = o}) <= 2
    BY DEF CopiesBounded
  <2> DEFINE S == {t \in {"add", "resync"} : at[t] = "insert" /\ Current(t) = o}
  <2>1. Cardinality(S) = Inserting("add", o) + Inserting("resync", o)
    <3>1. Cardinality(S) = (IF "add" \in S THEN 1 ELSE 0) + (IF "resync" \in S THEN 1 ELSE 0)
      BY OfTwo
    <3>2. /\ "add" \in S <=> at["add"] = "insert" /\ Current("add") = o
          /\ "resync" \in S <=> at["resync"] = "insert" /\ Current("resync") = o
      OBVIOUS
    <3>3. QED
      BY <3>1, <3>2 DEF Inserting
  <2>2. QED
    BY <2>1 DEF OutsInv, CopiesCounted
<1>2. QED
  BY <1>1, OutsInvariant, PTL

\* With all messages handled and no resync under way, the outputs offered are
\* those the node has unspent, but for a listed race or a failed call.
THEOREM OutsMatchNode == Spec => []RestMatchesNode
<1>1. OutsInv => RestMatchesNode
  <2> SUFFICES ASSUME OutsInv, AtRest, NEW o \in Outs \ excused
               PROVE  docs[o] > 0 <=> node[o] = "unspent"
    BY DEF RestMatchesNode
  <2>1. \A t \in Streams : queue[t] = <<>> /\ Len(queue[t]) = 0 /\ at[t] = "next"
    BY EmptySeq DEF AtRest, OutsInv, TypeOK
  <2>2. \A t \in Streams : ~Has(t, add(o)) /\ ~Removal(t, o)
    BY <2>1 DEF Has, Removal
  <2>3. ~Underway
    BY DEF AtRest, Underway
  <2>4. docs[o] \in Nat /\ node[o] \in {"none", "unspent", "spent"}
    BY DEF OutsInv, TypeOK
  <2>5. QED
    BY <2>1, <2>2, <2>3, <2>4
    DEF OutsInv, OutsHandled, UnknownAbsent, UnspentComing, SpentGoing
<1>2. QED
  BY <1>1, OutsInvariant, PTL

\* Only an insertion whose spent check came before the record offers a spent
\* output again.
THEOREM OutsNotLate == Spec => NoLateOffer
<1>1. ASSUME OutsInv, [Next]_vars, NEW o \in spent, docs'[o] > docs[o], o \in Outs
      PROVE  \E t \in overtaken : at[t] = "insert" /\ Current(t) = o
  <2>1. docs \in [Outs -> Nat]
    BY <1>1 DEF OutsInv, TypeOK
  <2>2. PICK t \in Streams : InsertOutput(t) /\ Current(t) = o
    <3>1. docs'[o] # docs[o] /\ docs' # docs
      BY <1>1, <2>1
    <3>2. ~DropOutputs
      BY <1>1, <2>1 DEF DropOutputs
    <3>3. \A t \in Streams : ~RemoveOutput(t)
      BY <1>1, <2>1 DEF RemoveOutput
    <3>4. PICK t \in Streams : InsertOutput(t)
      BY <1>1, <3>1, <3>2, <3>3
      DEF Next, NodeStep, NodeAdds, NodeConfirms, NodeSpends, NodeAnswers, UserStep, AskResync,
          DropSpent, CallNode, StreamStep, CheckSpent, LookupUser, FindOutput, InsertSpent,
          RetryRemove, EndResync, vars, storeVars
    <3>5. Current(t) = o
      <4>1. \E c \in {Current(t)} : docs' = [docs EXCEPT ![c] = @ + 1] \/ UNCHANGED docs
        BY <3>4 DEF InsertOutput
      <4>2. PICK c \in {Current(t)} : docs' = [docs EXCEPT ![c] = @ + 1]
        BY <3>1, <4>1
      <4>3. c # o => docs'[o] = docs[o]
        BY <4>2, <2>1, <1>1
      <4>4. QED
        BY <3>1, <4>2, <4>3
    <3>6. QED
      BY <3>4, <3>5
  <2>3. at[t] = "insert" /\ Adding(t, o)
    BY <2>2 DEF InsertOutput, Adding
  <2>4. t \in overtaken
    BY <1>1, <2>2, <2>3 DEF OutsInv, SpentOvertakes
  <2>5. QED
    BY <2>2, <2>3, <2>4
<1>2. OutsInv /\ [Next]_vars
        => [\A o \in Outs : (o \in spent /\ docs'[o] > docs[o])
              => \E t \in overtaken : at[t] = "insert" /\ Current(t) = o]_vars
  BY <1>1
<1>3. QED
  BY <1>2, OutsInvariant, PTL DEF Spec, NoLateOffer
=============================================================================
