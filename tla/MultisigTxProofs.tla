-------------------------- MODULE MultisigTxProofs --------------------------
(***************************************************************************)
(* What the document of a multisig transaction guarantees for any owners,  *)
(* any number of required confirmations and any bounds.  MarksInv is the   *)
(* inductive invariant: it relates the document to the calls the node has  *)
(* seen, the reports that wait and the list the goroutine holds.           *)
(***************************************************************************)
EXTENDS MultisigTx, TLAPS, SequenceTheorems, FiniteSetTheorems, WellFoundedInduction

\* Owners with a call in a block.
Miners == {mined[i].by : i \in 1..Len(mined)}

\* The report is of the owner's submission or confirmation.
IsCall(r, o) == r.call.by = o /\ ~r.call.revoke

\* Each owner's call is mined once, the submission first, and what stands was
\* mined.
ChainOrder ==
    /\ pooled \cap Miners = {} /\ (mined = <<>> => pooled \subseteq {Submitter})
    /\ \A i, j \in 1..Len(mined) :
         mined[i].by = mined[j].by /\ ~mined[i].revoke /\ ~mined[j].revoke => i = j
    /\ mined # <<>> => mined[1].by = Submitter /\ ~mined[1].revoke
    /\ \A o \in standing : \E i \in 1..Len(mined) : mined[i].by = o /\ ~mined[i].revoke
    /\ executed \/ doc.requestid => mined # <<>>

\* The report that a call is deep enough, by the call's place in the chain.
Deep(k) == [call |-> mined[k], stage |-> "confirmed"]

\* A report is of a call that was sent, and was mined and is deep if it says so.
ReportsSent ==
    \A i \in 1..Len(queue) :
        /\ queue[i].call.by \in pooled \cup Miners
        /\ queue[i].stage # "mempool" => queue[i].call.by \in Miners
        /\ queue[i].stage = "confirmed" => \E k \in 1..deep : queue[i] = Deep(k)

\* Before the document has its request id, the submission's reports come first.
Mempool(r) == IsCall(r, Submitter) /\ r.stage = "mempool"

RequestComes ==
    IF doc.requestid THEN \A i \in 1..Len(queue) : ~Mempool(queue[i])
    ELSE IF mined = <<>> THEN \A i \in 1..Len(queue) : Mempool(queue[i])
    ELSE \E i \in 1..Len(queue) :
            /\ IsCall(queue[i], Submitter) /\ queue[i].stage # "mempool"
            /\ \A j \in 1..Len(queue) : j < i <=> Mempool(queue[j])

\* Nobody is marked confirmed whose call was not sent.
MarksEarned ==
    \A o \in Owners : doc.owners[o].status = "confirmed" \/ list[o].status = "confirmed"
                        => o \in pooled \cup Miners

Warranted ==
    /\ ConfirmedWarranted
    /\ at = "internal" => doc.confirmed

\* The owner is marked, or one of the first i reports is of his call.
Coming(o, i) == doc.owners[o] = Confirmed \/ \E j \in 1..i : IsCall(queue[j], o)

\* Who has sent a call is marked, or a report of it waits.
MarksComing == \A o \in (pooled \cup Miners) \ excused : Coming(o, Len(queue))

\* The marks the submission and a confirmation leave.
MarksMade ==
    /\ at # "next" => ~Current.call.revoke
    /\ ~doc.found => viewing = {} /\ doc = NoDoc
    /\ doc.found /\ Submitter \notin excused => doc.owners[Submitter] = Confirmed
    /\ at \in {"execute", "internal"} /\ Current.call.by \notin excused
         => doc.owners[Current.call.by] = Confirmed
    /\ \A o \in Owners \ excused :
         doc.owners[o].timed => doc.owners[o] = Confirmed /\ o \notin viewing

\* The list differs from the document by the sender's mark and by what owners
\* have done since it was read.
ListCurrent ==
    at \in {"write", "execute"} =>
        \A o \in Owners \ behind :
            at = "execute" \/ o # Current.call.by => list[o] = doc.owners[o]

\* A confirmation's call, by its place in the chain.
Confirms(k) == ~mined[k].revoke /\ mined[k].by # Submitter

\* Owners whose mark is to be there when the call at k is reported deep.
Before(k) == {o \in Owners \ excused : \E i \in 1..k : mined[i].by = o}

\* After the report of a deep confirmation comes none of the submission, and
\* before it come those of all calls before it.
DeepInOrder ==
    \A k \in 1..deep, i \in 1..Len(queue) :
        Confirms(k) /\ queue[i] = Deep(k) =>
            /\ \A j \in i..Len(queue) : ~IsCall(queue[j], Submitter)
            /\ \A o \in Before(k) : Coming(o, i)

\* The list read for such a report has all their marks.
DeepListed ==
    at \in {"write", "execute"} =>
        \A k \in 1..deep : Confirms(k) /\ Current = Deep(k) =>
            \A o \in Before(k) : list[o] = Confirmed

Told == doc.confirmed /\ (OurWallet => internal > 0)

\* Where one confirmation is enough the submission's is; else the report of the
\* deep call that made the confirmations enough is to come or has been handled.
ConfirmComing ==
    IF needed = 1 THEN doc.requestid => Told
    ELSE \A k \in 1..deep :
           Confirms(k) /\ Cardinality(standing \cap Before(k)) >= needed =>
              \/ \E i \in 1..Len(queue) : queue[i] = Deep(k)
              \/ Told /\ \A i \in 1..Len(queue) : ~IsCall(queue[i], Submitter)

MarksInv ==
    /\ TypeOK /\ ChainOrder /\ ReportsSent /\ RequestComes /\ MarksEarned /\ Warranted
    /\ MarksComing /\ MarksMade /\ ListCurrent /\ DeepInOrder /\ DeepListed /\ ConfirmComing

-----------------------------------------------------------------------------
\* Calls in blocks are calls of owners.
LEMMA MinedCalls ==
    ASSUME TypeOK
    PROVE  /\ Len(mined) \in Nat /\ Miners \subseteq Owners
           /\ \A i \in 1..Len(mined) : mined[i] \in Call /\ mined[i].by \in Miners
<1>1. mined \in Seq(Call)
  BY DEF TypeOK
<1>2. Len(mined) \in Nat /\ \A i \in 1..Len(mined) : mined[i] \in Call
  BY <1>1, LenProperties, ElementOfSeq
<1>3. \A c \in Call : c.by \in Owners
  BY DEF Call
<1>4. QED
  BY <1>2, <1>3 DEF Miners

\* What is left of the queue when its head is done with.
LEMMA QueueTail ==
    ASSUME TypeOK, queue # <<>>, Finish
    PROVE  /\ queue' \in Seq(Report) /\ at' = "next"
           /\ Len(queue) \in Nat \ {0} /\ Len(queue') = Len(queue) - 1
           /\ \A i \in 1..Len(queue') : queue'[i] = queue[i + 1]
           /\ Current = queue[1] /\ Current \in Report
<1>1. queue \in Seq(Report)
  BY DEF TypeOK
<1>2. Tail(queue) \in Seq(Report) /\ Len(Tail(queue)) = Len(queue) - 1
      /\ (\A i \in 1..Len(Tail(queue)) : Tail(queue)[i] = queue[i + 1])
      /\ Head(queue) = queue[1] /\ Head(queue) \in Report /\ Len(queue) \in Nat \ {0}
  BY <1>1, HeadTailProperties, EmptySeq, LenProperties
<1>3. QED
  BY <1>2 DEF Finish, Current

\* The head of a queue that is not empty.
LEMMA QueueHead ==
    ASSUME TypeOK, queue # <<>>
    PROVE  /\ Len(queue) \in Nat \ {0} /\ 1 \in 1..Len(queue)
           /\ Current = queue[1] /\ Current \in Report
           /\ Current.call \in Call /\ Current.call.by \in Owners
           /\ IsSubmit <=> IsCall(Current, Submitter)
<1>1. queue \in Seq(Report)
  BY DEF TypeOK
<1>2. Head(queue) = queue[1] /\ Head(queue) \in Report /\ Len(queue) \in Nat \ {0}
  BY <1>1, HeadTailProperties, EmptySeq, LenProperties
<1>3. QED
  BY <1>2 DEF Current, IsSubmit, IsCall, Report, Call

\* What the queue is when a report is sent.
LEMMA QueueSend ==
    ASSUME TypeOK, NEW r \in Report, queue' = Append(queue, r)
    PROVE  /\ queue' \in Seq(Report) /\ queue' # <<>>
           /\ Len(queue) \in Nat /\ Len(queue') = Len(queue) + 1
           /\ \A i \in 1..Len(queue) : queue'[i] = queue[i]
           /\ queue'[Len(queue) + 1] = r
           /\ queue # <<>> => Current' = Current
<1>1. queue \in Seq(Report)
  BY DEF TypeOK
<1>2. queue' \in Seq(Report) /\ queue' # <<>> /\ Len(queue') = Len(queue) + 1 /\ Len(queue) \in Nat
      /\ (\A i \in 1..Len(queue) : queue'[i] = queue[i]) /\ queue'[Len(queue) + 1] = r
  BY <1>1, AppendProperties, LenProperties
<1>3. ASSUME queue # <<>> PROVE Current' = Current
  <2>1. Len(queue) > 0 /\ Head(queue) = queue[1]
    BY <1>1, <1>2, <1>3, EmptySeq, HeadTailProperties
  <2>2. Head(queue') = queue'[1]
    BY <1>2, HeadTailProperties
  <2>3. QED
    BY <1>2, <2>1, <2>2 DEF Current
<1>4. QED
  BY <1>2, <1>3

\* A report that is not of the submission finds the request.
LEMMA RequestFound ==
    ASSUME TypeOK, RequestComes, queue # <<>>, ~IsSubmit
    PROVE  doc.requestid
<1>1. Len(queue) \in Nat \ {0} /\ 1 \in 1..Len(queue) /\ ~IsCall(queue[1], Submitter)
  BY QueueHead
<1>2. ~Mempool(queue[1])
  BY <1>1 DEF Mempool
<1>3. SUFFICES ASSUME ~doc.requestid, mined # <<>> PROVE FALSE
  BY <1>1, <1>2 DEF RequestComes
<1>4. PICK i \in 1..Len(queue) :
         /\ IsCall(queue[i], Submitter)
         /\ \A j \in 1..Len(queue) : j < i <=> Mempool(queue[j])
  BY <1>3 DEF RequestComes
<1>5. i = 1
  BY <1>1, <1>2, <1>4
<1>6. QED
  BY <1>1, <1>4, <1>5

-----------------------------------------------------------------------------
\* Once the head has been handled, and its owner is marked, what comes is as
\* before.
LEMMA FinishKeeps ==
    ASSUME MarksInv, queue # <<>>, Finish, UNCHANGED <<chainVars, excused>>,
           doc'.requestid => mined # <<>>,
           \A o \in Owners \ excused :
               doc.owners[o] = Confirmed \/ IsCall(Current, o) => doc'.owners[o] = Confirmed
    PROVE  /\ ChainOrder' /\ ReportsSent' /\ MarksComing' /\ ListCurrent'
           /\ DeepInOrder' /\ DeepListed' /\ at' = "next" /\ queue' \in Seq(Report)
<1> USE DEF MarksInv, chainVars
<1>0. PICK n \in Nat : n = Len(queue)
  BY LenProperties DEF TypeOK
<1>1. /\ queue' \in Seq(Report) /\ at' = "next"
      /\ n \in Nat \ {0} /\ Len(queue') = n - 1
      /\ \A i \in 1..(n - 1) : queue'[i] = queue[i + 1]
      /\ Current = queue[1]
  BY <1>0, QueueTail
<1>2. \A i \in 1..(n - 1) : (i + 1) \in 1..n /\ queue'[i] = queue[i + 1]
  BY <1>1
<1>3. Miners' = Miners /\ \A k : Deep(k)' = Deep(k) /\ (Confirms(k)' <=> Confirms(k)) /\ Before(k)' = Before(k)
  BY DEF Miners, Deep, Confirms, Before
<1>4. ChainOrder'
  BY <1>3 DEF ChainOrder
<1>5. ReportsSent'
  <2> SUFFICES ASSUME NEW i \in 1..(n - 1)
               PROVE  /\ queue'[i].call.by \in pooled \cup Miners
                      /\ queue'[i].stage # "mempool" => queue'[i].call.by \in Miners
                      /\ queue'[i].stage = "confirmed" => \E k \in 1..deep : queue'[i] = Deep(k)
    BY <1>1, <1>3 DEF ReportsSent, Deep
  <2>1. (i + 1) \in 1..n /\ queue'[i] = queue[i + 1]
    BY <1>2
  <2>2. QED
    BY <1>0, <2>1 DEF ReportsSent
<1>6. ASSUME NEW o \in Owners \ excused, NEW i \in 1..n, Coming(o, i)
      PROVE  Coming(o, i - 1)'
  <2>1. CASE doc.owners[o] = Confirmed
    BY <2>1 DEF Coming
  <2>2. CASE \E j \in 1..i : IsCall(queue[j], o)
    <3>1. PICK j \in 1..i : IsCall(queue[j], o)
      BY <2>2
    <3>2. CASE j = 1
      BY <3>1, <3>2, <1>1 DEF Coming
    <3>3. CASE j # 1
      <4>1. (j - 1) \in 1..(i - 1) /\ (j - 1) \in 1..(n - 1) /\ (j - 1) + 1 = j
        BY <3>3, <1>1
      <4>2. queue'[j - 1] = queue[j]
        BY <4>1, <1>2
      <4>3. IsCall(queue'[j - 1], o)
        BY <4>2, <3>1 DEF IsCall
      <4>4. QED
        BY <4>1, <4>3 DEF Coming, IsCall
    <3>4. QED
      BY <3>2, <3>3
  <2>3. QED
    BY <1>6, <2>1, <2>2 DEF Coming
<1>7. MarksComing'
  <2>1. pooled \cup Miners \subseteq Owners /\ n \in 1..n
    BY <1>1, MinedCalls DEF TypeOK
  <2>2. \A o \in (pooled \cup Miners) \ excused : Coming(o, n - 1)'
    BY <1>0, <1>6, <2>1 DEF MarksComing
  <2>3. QED
    BY <1>1, <1>3, <2>2 DEF MarksComing, Coming
<1>8. DeepInOrder'
  <2> SUFFICES ASSUME NEW k \in 1..deep, NEW i \in 1..(n - 1), Confirms(k), queue'[i] = Deep(k)
               PROVE  /\ \A j \in i..(n - 1) : ~IsCall(queue'[j], Submitter)
                      /\ \A o \in Before(k) : Coming(o, i)'
    BY <1>1, <1>3 DEF DeepInOrder, IsCall
  <2>1. (i + 1) \in 1..n /\ queue[i + 1] = Deep(k) /\ (i + 1) - 1 = i
    BY <1>2
  <2>2. /\ \A j \in (i + 1)..n : ~IsCall(queue[j], Submitter)
        /\ \A o \in Before(k) : Coming(o, i + 1)
    BY <1>0, <2>1 DEF DeepInOrder
  <2>3. ASSUME NEW j \in i..(n - 1) PROVE ~IsCall(queue'[j], Submitter)
    <3>1. j \in 1..(n - 1) /\ (j + 1) \in (i + 1)..n
      BY <1>1
    <3>2. queue'[j] = queue[j + 1]
      BY <3>1, <1>2
    <3>3. QED
      BY <3>1, <3>2, <2>2
  <2>4. ASSUME NEW o \in Before(k) PROVE Coming(o, i)'
    <3>1. o \in Owners \ excused
      BY DEF Before
    <3>2. Coming(o, (i + 1) - 1)'
      BY <3>1, <2>1, <2>2, <1>6
    <3>3. QED
      BY <3>2, <2>1
  <2>5. QED
    BY <2>3, <2>4
<1>9. ListCurrent' /\ DeepListed'
  BY <1>1 DEF ListCurrent, DeepListed
<1>10. QED
  BY <1>1, <1>4, <1>5, <1>7, <1>8, <1>9

\* With no report handled, and no mark taken from anyone but those it excuses, a
\* step keeps what comes.
LEMMA MarkKeeps ==
    ASSUME MarksInv, UNCHANGED <<chainVars, queue>>, excused \subseteq excused',
           doc'.found = doc.found, doc'.requestid = doc.requestid,
           \A o \in Owners \ excused' :
               doc.owners[o] = Confirmed => doc'.owners[o] = Confirmed
    PROVE  /\ ChainOrder' /\ ReportsSent' /\ RequestComes' /\ MarksComing' /\ DeepInOrder'
           /\ \A k : Before(k)' \subseteq Before(k)
<1> USE DEF MarksInv, chainVars
<1>1. Miners' = Miners /\ \A k : Deep(k)' = Deep(k) /\ (Confirms(k)' <=> Confirms(k)) /\ Before(k)' \subseteq Before(k)
  BY DEF Miners, Deep, Confirms, Before
<1>2. ChainOrder'
  BY <1>1 DEF ChainOrder
<1>3. ReportsSent'
  BY <1>1 DEF ReportsSent
<1>4. RequestComes'
  BY DEF RequestComes, Mempool, IsCall
<1>5. \A o \in Owners \ excused', i \in 1..Len(queue) : Coming(o, i) => Coming(o, i)'
  BY DEF Coming, IsCall
<1>6. MarksComing'
  <2> SUFFICES ASSUME NEW o \in (pooled \cup Miners) \ excused' PROVE Coming(o, Len(queue))'
    BY <1>1 DEF MarksComing
  <2>1. o \in Owners
    BY MinedCalls DEF TypeOK
  <2>2. Coming(o, Len(queue))
    BY DEF MarksComing
  <2>3. QED
    BY <2>1, <2>2 DEF Coming, IsCall
<1>7. DeepInOrder'
  <2> SUFFICES ASSUME NEW k \in 1..deep, NEW i \in 1..Len(queue), Confirms(k), queue[i] = Deep(k)
               PROVE  /\ \A j \in i..Len(queue) : ~IsCall(queue[j], Submitter)
                      /\ \A o \in Before(k)' : Coming(o, i)'
    BY <1>1 DEF DeepInOrder, IsCall
  <2>1. /\ \A j \in i..Len(queue) : ~IsCall(queue[j], Submitter)
        /\ \A o \in Before(k) : Coming(o, i)
    BY DEF DeepInOrder
  <2>2. Before(k)' \subseteq Before(k) /\ Before(k)' \subseteq Owners \ excused'
    BY <1>1 DEF Before
  <2>3. QED
    BY <2>1, <2>2, <1>5
<1>8. QED
  BY <1>1, <1>2, <1>3, <1>4, <1>6, <1>7

-----------------------------------------------------------------------------
\* The report of a deep confirmation waits on, or has been handled and told.
LEMMA ConfirmFinish ==
    ASSUME MarksInv, queue # <<>>, Finish, UNCHANGED <<chainVars, excused>>,
           needed = 1 /\ doc'.requestid => Told',
           Told /\ ~IsSubmit => Told',
           \A k \in 1..deep :
               Confirms(k) /\ Current = Deep(k) /\ Cardinality(standing \cap Before(k)) >= needed
                 => Told'
    PROVE  ConfirmComing'
<1> USE DEF MarksInv, chainVars
<1>0. PICK n \in Nat : n = Len(queue)
  BY LenProperties DEF TypeOK
<1>1. /\ n \in Nat \ {0} /\ Len(queue') = n - 1
      /\ \A i \in 1..(n - 1) : queue'[i] = queue[i + 1]
      /\ Current = queue[1]
  BY <1>0, QueueTail
<1>2. \A i \in 1..(n - 1) : (i + 1) \in 1..n /\ queue'[i] = queue[i + 1]
  BY <1>1
<1>3. \A k : Deep(k)' = Deep(k) /\ (Confirms(k)' <=> Confirms(k)) /\ Before(k)' = Before(k)
  BY DEF Deep, Confirms, Before
<1>4. SUFFICES ASSUME needed # 1, NEW k \in 1..deep, Confirms(k),
                      Cardinality(standing \cap Before(k)) >= needed
               PROVE  \/ \E i \in 1..(n - 1) : queue'[i] = Deep(k)
                      \/ Told' /\ \A i \in 1..(n - 1) : ~IsCall(queue'[i], Submitter)
  BY <1>1, <1>3 DEF ConfirmComing, IsCall
<1>5. CASE \E i \in 1..n : queue[i] = Deep(k)
  <2>1. PICK i \in 1..n : queue[i] = Deep(k)
    BY <1>5
  <2>2. CASE i = 1
    <3>1. Told'
      BY <1>1, <1>4, <2>1, <2>2
    <3>2. \A j \in 1..n : ~IsCall(queue[j], Submitter)
      BY <1>0, <1>1, <1>4, <2>1, <2>2 DEF DeepInOrder
    <3>3. QED
      BY <1>2, <3>1, <3>2 DEF IsCall
  <2>3. CASE i # 1
    <3>1. (i - 1) \in 1..(n - 1) /\ (i - 1) + 1 = i
      BY <2>3, <1>1
    <3>2. QED
      BY <3>1, <2>1, <1>2
  <2>4. QED
    BY <2>2, <2>3
<1>6. CASE Told /\ \A i \in 1..n : ~IsCall(queue[i], Submitter)
  <2>1. ~IsSubmit
    BY <1>0, <1>1, <1>6, QueueHead
  <2>2. QED
    BY <1>2, <1>6, <2>1 DEF IsCall
<1>7. QED
  BY <1>0, <1>4, <1>5, <1>6 DEF ConfirmComing

\* With no report handled, what is to come still is, and what was told stays.
LEMMA ConfirmStays ==
    ASSUME MarksInv, UNCHANGED <<chainVars, queue>>, excused \subseteq excused',
           doc'.requestid = doc.requestid, Told => Told'
    PROVE  ConfirmComing'
<1> USE DEF MarksInv, chainVars
<1>1. \A k : Deep(k)' = Deep(k) /\ (Confirms(k)' <=> Confirms(k)) /\ Before(k)' \subseteq Before(k)
  BY DEF Deep, Confirms, Before
<1>2. \A k : Cardinality(standing \cap Before(k)') >= needed => Cardinality(standing \cap Before(k)) >= needed
  <2> SUFFICES ASSUME NEW k, Cardinality(standing \cap Before(k)') >= needed
               PROVE  Cardinality(standing \cap Before(k)) >= needed
    OBVIOUS
  <2>1. IsFiniteSet(standing \cap Before(k)) /\ Cardinality(standing \cap Before(k)) \in Nat
    BY MultisigTxAssumption, FS_Subset, FS_CardinalityType DEF TypeOK
  <2>2. standing \cap Before(k)' \in SUBSET (standing \cap Before(k))
    BY <1>1
  <2>3. Cardinality(standing \cap Before(k)') <= Cardinality(standing \cap Before(k))
    BY <2>1, <2>2, FS_Subset
  <2>4. Cardinality(standing \cap Before(k)') \in Nat /\ needed \in Nat
    BY <2>1, <2>2, FS_Subset, FS_CardinalityType, MultisigTxAssumption DEF TypeOK
  <2>5. QED
    BY <2>1, <2>3, <2>4
<1>3. QED
  BY <1>1, <1>2 DEF ConfirmComing, IsCall

\* A report of anything but the submission comes after the document has its
\* request id.
LEMMA RequestStays ==
    ASSUME MarksInv, queue # <<>>, ~IsSubmit, Finish, doc'.requestid = doc.requestid
    PROVE  RequestComes'
<1> USE DEF MarksInv
<1>1. doc.requestid
  BY RequestFound
<1>2. \A i \in 1..Len(queue) : ~Mempool(queue[i])
  BY <1>1 DEF RequestComes
<1>3. \A i \in 1..Len(queue') : queue'[i] = queue[i + 1] /\ (i + 1) \in 1..Len(queue)
  BY QueueTail
<1>4. QED
  BY <1>1, <1>2, <1>3 DEF RequestComes, Mempool, IsCall

\* Who has sent a call.
LEMMA CallersAre ==
    ASSUME TypeOK
    PROVE  /\ Callers = pooled \cup Miners /\ Callers \subseteq Owners
           /\ IsFiniteSet(Callers) /\ Cardinality(Callers) \in Nat
<1>1. DOMAIN mined = 1..Len(mined)
  BY LenProperties DEF TypeOK
<1>2. Callers = pooled \cup Miners /\ Callers \subseteq Owners
  BY <1>1, MinedCalls DEF Callers, Miners, TypeOK
<1>3. QED
  BY <1>2, MultisigTxAssumption, FS_Subset, FS_CardinalityType

\* What a set of owners with calls counts.
LEMMA CountCallers ==
    ASSUME TypeOK, NEW S \in SUBSET Callers
    PROVE  Cardinality(S) \in Nat /\ Cardinality(S) <= Cardinality(Callers)
           /\ (S # {} => Cardinality(Callers) >= 1)
<1>1. IsFiniteSet(Callers) /\ Cardinality(Callers) \in Nat
  BY CallersAre
<1>2. Cardinality(S) \in Nat /\ Cardinality(S) <= Cardinality(Callers)
  BY <1>1, FS_Subset, FS_CardinalityType
<1>3. S # {} => Cardinality(Callers) # 0
  BY <1>1, FS_EmptySet
<1>4. QED
  BY <1>1, <1>2, <1>3

-----------------------------------------------------------------------------
\* submitTransaction: the first report makes the document, a later one leaves
\* its marks and its id.
LEMMA SubmitKeeps ==
    ASSUME MarksInv, Submit
    PROVE  MarksInv'
<1> USE DEF MarksInv
<1>1. /\ queue # <<>> /\ IsSubmit /\ Finish /\ at = "next"
      /\ UNCHANGED <<chainVars, excused>> /\ UNCHANGED <<list, viewing, revokes, behind>>
  BY DEF Submit
<1>2. /\ Len(queue) \in Nat \ {0} /\ 1 \in 1..Len(queue) /\ Current = queue[1]
      /\ Current \in Report /\ Current.call.by \in Owners /\ IsCall(queue[1], Submitter)
  BY <1>1, QueueHead
<1>3. PICK enough \in BOOLEAN : enough = (InBlock /\ needed = 1)
  OBVIOUS
<1>4. PICK marks \in [Owners -> Mark] :
         marks = IF doc.found THEN doc.owners ELSE [NoDoc.owners EXCEPT ![Submitter] = Confirmed]
  BY MultisigTxAssumption DEF TypeOK, NoDoc, Waiting, Confirmed, Mark
<1>5. /\ doc' = [found |-> TRUE, requestid |-> InBlock, confirmed |-> enough, owners |-> marks]
      /\ internal' = IF enough /\ OurWallet THEN internal + 1 ELSE internal
  BY <1>3, <1>4 DEF Submit
<1>6. /\ doc'.found /\ (doc'.requestid <=> InBlock) /\ (doc'.confirmed <=> enough) /\ doc'.owners = marks
      /\ InBlock \in BOOLEAN /\ internal \in Nat /\ internal' \in Nat
      /\ enough /\ OurWallet => internal' > 0
      /\ internal' > 0 => internal > 0 \/ enough
  <2>1. /\ doc'.found /\ doc'.requestid = InBlock /\ doc'.confirmed = enough /\ doc'.owners = marks
    BY <1>5
  <2>2. internal \in Nat /\ InBlock \in BOOLEAN
    BY DEF TypeOK, InBlock
  <2>3. CASE enough /\ OurWallet
    BY <1>5, <2>1, <2>2, <2>3
  <2>4. CASE ~(enough /\ OurWallet)
    BY <1>5, <2>1, <2>2, <2>4
  <2>5. QED
    BY <2>3, <2>4
<1>7. /\ marks[Submitter] = IF doc.found THEN doc.owners[Submitter] ELSE Confirmed
      /\ \A o \in Owners : o # Submitter =>
           marks[o] = IF doc.found THEN doc.owners[o] ELSE Waiting
      /\ ~doc.found => \A o \in Owners : doc.owners[o] = Waiting
  BY <1>4, MultisigTxAssumption DEF NoDoc, MarksMade
<1>8. Waiting # Confirmed /\ ~Waiting.timed /\ Waiting.status # "confirmed"
  BY DEF Waiting, Confirmed
<1>9. InBlock => Submitter \in Miners /\ mined # <<>>
  <2>1. InBlock => Submitter \in Miners
    BY <1>2 DEF InBlock, ReportsSent, IsCall
  <2>2. mined = <<>> => Miners = {}
    BY EmptySeq DEF Miners
  <2>3. QED
    BY <2>1, <2>2
<1>10. Submitter \in Callers
  BY <1>2, CallersAre DEF ReportsSent, IsCall
<1>11. /\ ChainOrder' /\ ReportsSent' /\ MarksComing' /\ ListCurrent'
       /\ DeepInOrder' /\ DeepListed' /\ at' = "next" /\ queue' \in Seq(Report)
  <2>1. \A o \in Owners \ excused :
           doc.owners[o] = Confirmed \/ IsCall(Current, o) => marks[o] = Confirmed
    <3>1. \A o \in Owners : IsCall(Current, o) => o = Submitter
      BY <1>2 DEF IsCall
    <3>2. QED
      BY <3>1, <1>7, <1>8, MultisigTxAssumption DEF MarksMade
  <2>2. QED
    BY <1>1, <1>6, <1>9, <2>1, FinishKeeps
<1>12. TypeOK'
  BY <1>1, <1>5, <1>6, <1>11 DEF TypeOK, chainVars
<1>13. RequestComes'
  <2>0. PICK n \in Nat : n = Len(queue)
    BY <1>2
  <2>1. /\ Len(queue') = n - 1 /\ n # 0
        /\ \A i \in 1..(n - 1) : (i + 1) \in 1..n /\ queue'[i] = queue[i + 1]
    BY <1>1, <1>2, <2>0, QueueTail
  <2>2. Mempool(queue[1]) <=> ~InBlock
    BY <1>2 DEF Mempool, InBlock
  <2>3. CASE doc.requestid
    <3>1. \A i \in 1..n : ~Mempool(queue[i])
      BY <2>0, <2>3 DEF RequestComes
    <3>2. InBlock
      BY <1>2, <2>0, <2>2, <3>1
    <3>3. QED
      BY <1>6, <2>1, <3>1, <3>2 DEF RequestComes, Mempool, IsCall
  <2>4. CASE ~doc.requestid /\ mined = <<>>
    <3>1. \A i \in 1..n : Mempool(queue[i])
      BY <2>0, <2>4 DEF RequestComes
    <3>2. ~InBlock
      BY <1>2, <2>0, <2>2, <3>1
    <3>3. mined' = <<>>
      BY <1>1, <2>4 DEF chainVars
    <3>4. QED
      BY <1>6, <2>1, <3>1, <3>2, <3>3 DEF RequestComes, Mempool, IsCall
  <2>5. CASE ~doc.requestid /\ mined # <<>>
    <3>1. PICK i \in 1..n :
             /\ IsCall(queue[i], Submitter) /\ queue[i].stage # "mempool"
             /\ \A j \in 1..n : j < i <=> Mempool(queue[j])
      BY <2>0, <2>5 DEF RequestComes
    <3>2. CASE i = 1
      <4>1. InBlock /\ \A j \in 1..n : ~Mempool(queue[j])
        BY <1>2, <2>0, <2>2, <3>1, <3>2
      <4>2. QED
        BY <1>6, <2>1, <4>1 DEF RequestComes, Mempool, IsCall
    <3>3. CASE i # 1
      <4>1. ~InBlock
        BY <1>2, <2>0, <2>2, <3>1, <3>3
      <4>2. (i - 1) \in 1..(n - 1) /\ (i - 1) + 1 = i
        BY <3>1, <3>3, <2>1
      <4>3. IsCall(queue'[i - 1], Submitter) /\ queue'[i - 1].stage # "mempool"
        BY <2>1, <3>1, <4>2 DEF IsCall
      <4>4. ASSUME NEW j \in 1..(n - 1) PROVE j < i - 1 <=> Mempool(queue'[j])
        <5>1. (j + 1) \in 1..n /\ queue'[j] = queue[j + 1]
          BY <2>1
        <5>2. j + 1 < i <=> Mempool(queue[j + 1])
          BY <5>1, <3>1
        <5>3. QED
          BY <5>1, <5>2 DEF Mempool, IsCall
      <4>5. mined' # <<>> /\ ~doc'.requestid
        BY <1>1, <1>6, <2>5, <4>1 DEF chainVars
      <4>6. QED
        BY <2>1, <4>2, <4>3, <4>4, <4>5 DEF RequestComes, Mempool, IsCall
    <3>4. QED
      BY <3>2, <3>3
  <2>6. QED
    BY <2>3, <2>4, <2>5
<1>14. Miners' = Miners /\ pooled' = pooled /\ mined' = mined /\ needed' = needed /\ Callers' = Callers
  BY <1>1 DEF Miners, chainVars, Callers
<1>15. MarksEarned'
  BY <1>1, <1>6, <1>7, <1>8, <1>10, <1>14, CallersAre DEF MarksEarned
<1>16. Warranted'
  <2>1. enough => needed = 1 /\ Cardinality(Callers) >= 1
    BY <1>3, <1>10, CountCallers
  <2>2. QED
    BY <1>6, <1>11, <1>14, <2>1 DEF Warranted, ConfirmedWarranted
<1>17. MarksMade'
  BY <1>1, <1>6, <1>7, <1>8, <1>11, MultisigTxAssumption DEF MarksMade
<1>18. ConfirmComing'
  <2>1. \A k \in 1..deep : ~(Confirms(k) /\ Current = Deep(k))
    BY <1>2 DEF Confirms, Deep, IsCall
  <2>2. needed = 1 /\ doc'.requestid => Told'
    BY <1>3, <1>6 DEF Told
  <2>3. QED
    BY <1>1, <2>1, <2>2, ConfirmFinish
<1>19. QED
  BY <1>11, <1>12, <1>13, <1>15, <1>16, <1>17, <1>18

\* confirmTransaction finds the request and marks the sender in its list.
LEMMA FindKeeps ==
    ASSUME MarksInv, FindRequest
    PROVE  MarksInv'
<1> USE DEF MarksInv
<1>1. doc.requestid
  BY RequestFound DEF FindRequest
<1>2. /\ queue # <<>> /\ ~IsSubmit /\ ~Current.call.revoke
      /\ list' = [doc.owners EXCEPT ![Current.call.by] = Confirmed]
      /\ at' = "write" /\ behind' = {}
      /\ UNCHANGED <<chainVars, queue>> /\ UNCHANGED <<doc, internal, viewing, revokes, excused>>
  BY <1>1 DEF FindRequest
<1>3. Len(queue) \in Nat \ {0} /\ Current = queue[1] /\ Current.call.by \in Owners /\ Current' = Current
  BY <1>2, QueueHead DEF Current
<1>4. /\ ChainOrder' /\ ReportsSent' /\ RequestComes' /\ MarksComing' /\ DeepInOrder'
      /\ \A k : Before(k)' \subseteq Before(k)
  BY <1>2, MarkKeeps
<1>5. /\ list' \in [Owners -> Mark] /\ list'[Current.call.by] = Confirmed
      /\ \A o \in Owners : o # Current.call.by => list'[o] = doc.owners[o]
  BY <1>2, <1>3 DEF TypeOK, Confirmed, Mark
<1>6. TypeOK'
  BY <1>1, <1>2, <1>3, <1>5 DEF TypeOK, chainVars, IsSubmit
<1>7. Miners' = Miners /\ Callers' = Callers /\ Current.call.by \in pooled \cup Miners
  BY <1>2, <1>3 DEF Miners, chainVars, Callers, ReportsSent
<1>8. MarksEarned'
  BY <1>2, <1>5, <1>7 DEF MarksEarned, chainVars
<1>9. Warranted'
  BY <1>2, <1>7 DEF Warranted, ConfirmedWarranted, chainVars
<1>10. MarksMade'
  BY <1>2, <1>3 DEF MarksMade
<1>11. ListCurrent'
  BY <1>2, <1>3, <1>5 DEF ListCurrent
<1>12. DeepListed'
  <2> SUFFICES ASSUME NEW k \in 1..deep, Confirms(k), Current = Deep(k), NEW o \in Before(k)
               PROVE  list'[o] = Confirmed
    BY <1>2, <1>3, <1>4 DEF DeepListed, Confirms, Deep, chainVars
  <2>1. 1 \in 1..Len(queue) /\ queue[1] = Deep(k)
    BY <1>3
  <2>2. Coming(o, 1)
    BY <2>1 DEF DeepInOrder
  <2>3. doc.owners[o] = Confirmed \/ IsCall(queue[1], o)
    BY <2>2 DEF Coming
  <2>4. o \in Owners
    BY DEF Before
  <2>5. QED
    BY <2>3, <2>4, <1>3, <1>5 DEF IsCall
<1>13. ConfirmComing'
  BY <1>2, ConfirmStays DEF Told
<1>14. QED
  BY <1>4, <1>6, <1>8, <1>9, <1>10, <1>11, <1>12, <1>13

\* The whole list is written back, and excuses whom it takes a change from.
LEMMA WriteKeeps ==
    ASSUME MarksInv, WriteOwners
    PROVE  MarksInv'
<1> USE DEF MarksInv
<1>1. /\ at = "write" /\ at' = "execute"
      /\ doc' = [doc EXCEPT !.owners = list]
      /\ excused' = excused \cup behind \cup (viewing \cap {Current.call.by})
      /\ UNCHANGED <<chainVars, queue>> /\ UNCHANGED <<list, internal, viewing, revokes, behind>>
  BY DEF WriteOwners
<1>2. PICK c \in Owners : c = Current.call.by
  BY <1>1, QueueHead DEF TypeOK
<1>3. /\ doc'.found = doc.found /\ doc'.requestid = doc.requestid /\ doc'.confirmed = doc.confirmed
      /\ doc'.owners = list /\ doc.requestid /\ list[c] = Confirmed /\ Current' = Current
      /\ excused \subseteq excused' /\ excused' \subseteq Owners
      /\ behind \subseteq excused' /\ (c \in viewing => c \in excused')
  BY <1>1, <1>2 DEF TypeOK, Current
<1>4. \A o \in Owners \ excused' : o # c => list[o] = doc.owners[o]
  BY <1>1, <1>2, <1>3 DEF ListCurrent
<1>5. /\ ChainOrder' /\ ReportsSent' /\ RequestComes' /\ MarksComing' /\ DeepInOrder'
      /\ \A k : Before(k)' \subseteq Before(k)
  BY <1>1, <1>3, <1>4, MarkKeeps
<1>6. TypeOK'
  BY <1>1, <1>3 DEF TypeOK, chainVars, IsSubmit
<1>7. MarksEarned'
  BY <1>1, <1>3 DEF MarksEarned, Miners, chainVars
<1>8. Warranted'
  BY <1>1, <1>3 DEF Warranted, ConfirmedWarranted, chainVars, Callers
<1>9. MarksMade'
  <2>1. doc.found
    BY <1>3 DEF MarksMade, NoDoc
  <2>2. \A o \in Owners \ excused' : list[o].timed => list[o] = Confirmed /\ o \notin viewing
    BY <1>3, <1>4 DEF MarksMade
  <2>3. Submitter \notin excused' => list[Submitter] = Confirmed
    BY <1>3, <1>4, <2>1, MultisigTxAssumption DEF MarksMade
  <2>4. QED
    BY <1>1, <1>2, <1>3, <2>1, <2>2, <2>3 DEF MarksMade
<1>10. ListCurrent'
  BY <1>1, <1>3 DEF ListCurrent
<1>11. DeepListed'
  BY <1>1, <1>3, <1>5 DEF DeepListed, Confirms, Deep, chainVars
<1>12. ConfirmComing'
  BY <1>1, <1>3, ConfirmStays DEF Told
<1>13. QED
  BY <1>5, <1>6, <1>7, <1>8, <1>9, <1>10, <1>11, <1>12

\* Those counted confirmed have sent their calls.
LEMMA CountEarned ==
    ASSUME TypeOK, MarksEarned
    PROVE  Count(list) \in Nat /\ Count(list) <= Cardinality(Callers)
<1>1. {o \in Owners : list[o].status = "confirmed"} \in SUBSET Callers
  BY CallersAre DEF MarksEarned
<1>2. QED
  BY <1>1, CountCallers DEF Count

\* Enough are counted when the call that makes them enough is reported deep.
LEMMA DeepCounted ==
    ASSUME MarksInv, at = "execute", NEW k \in 1..deep, Confirms(k), Current = Deep(k),
           Cardinality(standing \cap Before(k)) >= needed
    PROVE  Count(list) >= needed
<1> USE DEF MarksInv
<1>1. standing \cap Before(k) \in SUBSET {o \in Owners : list[o].status = "confirmed"}
  BY DEF DeepListed, Before, Confirmed
<1>2. IsFiniteSet({o \in Owners : list[o].status = "confirmed"})
  BY MultisigTxAssumption, FS_Subset
<1>3. Cardinality(standing \cap Before(k)) <= Count(list) /\ IsFiniteSet(standing \cap Before(k))
  BY <1>1, <1>2, FS_Subset DEF Count
<1>4. Cardinality(standing \cap Before(k)) \in Nat /\ Count(list) \in Nat /\ needed \in Nat
  BY <1>2, <1>3, FS_CardinalityType, MultisigTxAssumption DEF Count, TypeOK
<1>5. QED
  BY <1>3, <1>4

\* Enough owners and a call in a block confirm the transaction.
LEMMA ExecuteKeeps ==
    ASSUME MarksInv, Execute
    PROVE  MarksInv'
<1> USE DEF MarksInv
<1>1. /\ at = "execute" /\ UNCHANGED chainVars
      /\ UNCHANGED <<list, internal, viewing, revokes, behind>>
  BY DEF Execute
<1>2. PICK c \in Owners : c = Current.call.by
  BY <1>1, QueueHead DEF TypeOK
<1>3. queue # <<>> /\ ~IsSubmit /\ doc.requestid /\ list[c] = Confirmed
      /\ \A o \in Owners \ behind : list[o] = doc.owners[o]
  BY <1>1, <1>2 DEF TypeOK, ListCurrent
<1>4. Miners' = Miners /\ Callers' = Callers /\ needed' = needed /\ mined' = mined /\ pooled' = pooled
  BY <1>1 DEF Miners, chainVars, Callers
<1>5. CASE Count(list) >= needed /\ InBlock
  <2>1. /\ doc' = [doc EXCEPT !.owners = list, !.confirmed = TRUE]
        /\ excused' = excused \cup behind /\ at' = "internal" /\ queue' = queue
    BY <1>5 DEF Execute
  <2>2. /\ doc'.found = doc.found /\ doc'.requestid = doc.requestid /\ doc'.confirmed
        /\ doc'.owners = list /\ Current' = Current
        /\ excused \subseteq excused' /\ excused' \subseteq Owners /\ behind \subseteq excused'
    BY <2>1 DEF TypeOK, Current
  <2>3. /\ ChainOrder' /\ ReportsSent' /\ RequestComes' /\ MarksComing' /\ DeepInOrder'
        /\ \A k : Before(k)' \subseteq Before(k)
    BY <1>1, <1>3, <2>1, <2>2, MarkKeeps
  <2>4. TypeOK'
    BY <1>1, <1>2, <1>3, <2>1, <2>2 DEF TypeOK, chainVars, IsSubmit
  <2>5. MarksEarned'
    BY <1>1, <1>4, <2>2 DEF MarksEarned
  <2>6. Warranted'
    <3>1. Cardinality(Callers) >= needed
      <4>1. Count(list) \in Nat /\ Count(list) <= Cardinality(Callers) /\ needed \in Nat
            /\ Cardinality(Callers) \in Nat
        BY CountEarned, CallersAre, MultisigTxAssumption, FS_CardinalityType DEF TypeOK
      <4>2. QED
        BY <4>1, <1>5
    <3>2. \E i \in DOMAIN mined : mined[i].by # Submitter
      <4>1. c \in Miners
        BY <1>2, <1>3, <1>5, QueueHead DEF ReportsSent, InBlock
      <4>2. PICK i \in 1..Len(mined) : mined[i].by = c
        BY <4>1 DEF Miners
      <4>3. c = Submitter => Current.call.revoke
        BY <1>2, <1>3 DEF IsSubmit
      <4>4. ~Current.call.revoke
        BY <1>1 DEF MarksMade
      <4>5. QED
        BY <4>2, <4>3, <4>4, LenProperties DEF TypeOK
    <3>3. QED
      BY <1>4, <2>1, <2>2, <3>1, <3>2 DEF Warranted, ConfirmedWarranted
  <2>7. MarksMade'
    <3>1. \A o \in Owners \ excused' : list[o] = doc.owners[o]
      BY <1>3, <2>2
    <3>2. QED
      BY <1>1, <1>2, <1>3, <2>1, <2>2, <3>1, MultisigTxAssumption DEF MarksMade, NoDoc
  <2>8. ListCurrent' /\ DeepListed'
    BY <2>1 DEF ListCurrent, DeepListed
  <2>9. ConfirmComing'
    BY <1>1, <2>1, <2>2, ConfirmStays DEF Told
  <2>10. QED
    BY <2>3, <2>4, <2>5, <2>6, <2>7, <2>8, <2>9
<1>6. CASE ~(Count(list) >= needed /\ InBlock)
  <2>1. Finish /\ UNCHANGED <<doc, excused>>
    BY <1>6 DEF Execute
  <2>2. \A o \in Owners \ excused : IsCall(Current, o) => doc.owners[o] = Confirmed
    BY <1>1, <1>2 DEF MarksMade, IsCall
  <2>3. /\ ChainOrder' /\ ReportsSent' /\ MarksComing' /\ ListCurrent'
        /\ DeepInOrder' /\ DeepListed' /\ at' = "next" /\ queue' \in Seq(Report)
    BY <1>1, <1>3, <2>1, <2>2, FinishKeeps DEF ChainOrder
  <2>4. TypeOK'
    BY <1>1, <2>1, <2>3 DEF TypeOK, chainVars
  <2>5. RequestComes'
    BY <1>3, <2>1, RequestStays
  <2>6. MarksEarned' /\ Warranted' /\ MarksMade'
    BY <1>1, <1>4, <2>1, <2>3 DEF MarksEarned, Warranted, ConfirmedWarranted, MarksMade
  <2>7. ConfirmComing'
    <3>1. \A k \in 1..deep :
             ~(Confirms(k) /\ Current = Deep(k) /\ Cardinality(standing \cap Before(k)) >= needed)
      BY <1>1, <1>6, DeepCounted DEF Deep, InBlock
    <3>2. needed = 1 /\ doc'.requestid => Told'
      BY <1>1, <2>1 DEF ConfirmComing, Told
    <3>3. QED
      BY <1>1, <1>3, <2>1, <3>1, <3>2, ConfirmFinish DEF Told
  <2>8. QED
    BY <2>3, <2>4, <2>5, <2>6, <2>7
<1>7. QED
  BY <1>5, <1>6

\* The internal transaction is told, or was with the submission.
LEMMA InsertKeeps ==
    ASSUME MarksInv, InsertInternal
    PROVE  MarksInv'
<1> USE DEF MarksInv
<1>1. /\ at = "internal" /\ Finish /\ UNCHANGED <<chainVars, excused>>
      /\ internal' = IF OurWallet /\ ~(needed = 1 /\ internal > 0) THEN internal + 1 ELSE internal
      /\ UNCHANGED <<list, doc, viewing, revokes, behind>>
  BY DEF InsertInternal
<1>2. queue # <<>> /\ ~IsSubmit /\ doc.requestid /\ doc.confirmed /\ Current.call.by \in Owners
  BY <1>1, QueueHead DEF TypeOK, Warranted
<1>3. internal' \in Nat /\ (internal > 0 => internal' > 0) /\ Told'
  BY <1>1, <1>2 DEF TypeOK, Told
<1>4. \A o \in Owners \ excused : IsCall(Current, o) => doc.owners[o] = Confirmed
  BY <1>1 DEF MarksMade, IsCall
<1>5. /\ ChainOrder' /\ ReportsSent' /\ MarksComing' /\ ListCurrent'
      /\ DeepInOrder' /\ DeepListed' /\ at' = "next" /\ queue' \in Seq(Report)
  BY <1>1, <1>2, <1>4, FinishKeeps DEF ChainOrder
<1>6. TypeOK'
  BY <1>1, <1>3, <1>5 DEF TypeOK, chainVars
<1>7. RequestComes'
  BY <1>1, <1>2, RequestStays
<1>8. MarksEarned' /\ MarksMade'
  BY <1>1, <1>5 DEF MarksEarned, MarksMade, Miners, chainVars
<1>9. Warranted'
  BY <1>1, <1>2, <1>5 DEF Warranted, ConfirmedWarranted, Callers, chainVars
<1>10. ConfirmComing'
  BY <1>1, <1>2, <1>3, ConfirmFinish
<1>11. QED
  BY <1>5, <1>6, <1>7, <1>8, <1>9, <1>10

\* A revocation changes nothing.
LEMMA RevokeKeeps ==
    ASSUME MarksInv, Revoke
    PROVE  MarksInv'
<1> USE DEF MarksInv
<1>1. /\ at = "next" /\ queue # <<>> /\ Current.call.revoke /\ Finish
      /\ UNCHANGED <<chainVars, excused>> /\ UNCHANGED <<list, doc, internal, viewing, revokes, behind>>
  BY DEF Revoke
<1>2. ~IsSubmit /\ \A o \in Owners : ~IsCall(Current, o)
  BY <1>1 DEF IsSubmit, IsCall
<1>3. /\ ChainOrder' /\ ReportsSent' /\ MarksComing' /\ ListCurrent'
      /\ DeepInOrder' /\ DeepListed' /\ at' = "next" /\ queue' \in Seq(Report)
  BY <1>1, <1>2, FinishKeeps DEF ChainOrder
<1>4. TypeOK'
  BY <1>1, <1>3 DEF TypeOK, chainVars
<1>5. RequestComes'
  BY <1>1, <1>2, RequestStays
<1>6. MarksEarned' /\ MarksMade'
  BY <1>1, <1>3 DEF MarksEarned, MarksMade, Miners, chainVars
<1>7. Warranted'
  BY <1>1, <1>3 DEF Warranted, ConfirmedWarranted, Callers, chainVars
<1>8. ConfirmComing'
  <2>1. \A k \in 1..deep : ~(Confirms(k) /\ Current = Deep(k))
    BY <1>1 DEF Confirms, Deep
  <2>2. needed = 1 /\ doc'.requestid => Told'
    BY <1>1 DEF ConfirmComing, Told
  <2>3. QED
    BY <1>1, <2>1, <2>2, ConfirmFinish DEF Told
<1>9. QED
  BY <1>3, <1>4, <1>5, <1>6, <1>7, <1>8

\* An owner's handlers change his own mark, and the list is behind for him.
LEMMA OwnerKeeps ==
    ASSUME MarksInv, NEW o \in Owners, OwnerStep(o)
    PROVE  MarksInv'
<1> USE DEF MarksInv
<1>1. /\ doc.found /\ UNCHANGED <<chainVars, queue>>
      /\ UNCHANGED <<at, list, internal, revokes>>
  BY DEF OwnerStep, CheckView, WriteView, Decline, MarksMade
<1>2. PICK m \in Mark :
         /\ doc'.owners = [doc.owners EXCEPT ![o] = m]
         /\ m.timed = doc.owners[o].timed /\ (m = doc.owners[o] \/ m.status # "confirmed")
         /\ doc' \in [found : BOOLEAN, requestid : BOOLEAN, confirmed : BOOLEAN, owners : [Owners -> Mark]]
         /\ doc'.found = doc.found /\ doc'.requestid = doc.requestid /\ doc'.confirmed = doc.confirmed
         /\ m = doc.owners[o] \/ (o \in behind' /\ (o \in excused' \/ o \in viewing))
         /\ (o \notin excused' /\ m.timed) => (o \notin viewing')
  <2>1. doc.owners \in [Owners -> Mark] /\ doc.owners[o] \in Mark
    BY DEF TypeOK
  <2>2. CASE CheckView(o)
    <3>1. doc.owners = [doc.owners EXCEPT ![o] = doc.owners[o]]
      BY <2>1
    <3>2. doc.owners[o].timed = doc.owners[o].timed /\ ~doc.owners[o].timed /\ doc' = doc
      BY <2>2 DEF CheckView
    <3>3. QED
      BY <2>1, <3>1, <3>2 DEF TypeOK
  <2>3. CASE WriteView(o)
    <3>1. PICK m \in Mark : m = [doc.owners[o] EXCEPT !.status = "seen"]
      BY <2>1 DEF Mark
    <3>2. m.timed = doc.owners[o].timed /\ m.status = "seen"
      BY <2>1, <3>1 DEF Mark
    <3>3. doc' = [doc EXCEPT !.owners = [doc.owners EXCEPT ![o] = m]]
      BY <2>3, <3>1 DEF WriteView
    <3>4. o \in behind' /\ o \in viewing /\ o \notin viewing'
      BY <2>3 DEF WriteView
    <3>5. QED
      BY <2>1, <3>2, <3>3, <3>4 DEF TypeOK
  <2>4. CASE Decline(o)
    <3>1. PICK m \in Mark : m = [doc.owners[o] EXCEPT !.status = "declined"]
      BY <2>1 DEF Mark
    <3>2. m.timed = doc.owners[o].timed /\ m.status = "declined"
      BY <2>1, <3>1 DEF Mark
    <3>3. doc' = [doc EXCEPT !.owners = [doc.owners EXCEPT ![o] = m]]
      BY <2>4, <3>1 DEF Decline
    <3>4. o \in behind' /\ o \in excused'
      BY <2>4 DEF Decline
    <3>5. QED
      BY <2>1, <3>2, <3>3, <3>4 DEF TypeOK
  <2>5. QED
    BY <2>2, <2>3, <2>4 DEF OwnerStep
<1>3. /\ behind \subseteq behind' /\ behind' \subseteq Owners /\ viewing' \subseteq Owners
      /\ excused \subseteq excused' /\ excused' \subseteq Owners
      /\ \A p \in Owners : p # o => (p \in viewing' <=> p \in viewing)
  BY DEF OwnerStep, CheckView, WriteView, Decline, TypeOK
<1>4. \A p \in Owners : doc'.owners[p] = IF p = o THEN m ELSE doc.owners[p]
  BY <1>2 DEF TypeOK
<1>5. \A p \in Owners \ excused' : doc.owners[p] = Confirmed => doc'.owners[p] = Confirmed
  <2>1. o \notin excused' /\ doc.owners[o] = Confirmed => m = doc.owners[o]
    BY <1>2, <1>3 DEF MarksMade, Confirmed
  <2>2. QED
    BY <1>4, <2>1
<1>6. /\ ChainOrder' /\ ReportsSent' /\ RequestComes' /\ MarksComing' /\ DeepInOrder'
      /\ \A k : Before(k)' \subseteq Before(k)
  BY <1>1, <1>2, <1>3, <1>5, MarkKeeps
<1>7. Current' = Current /\ Miners' = Miners /\ Callers' = Callers
  BY <1>1 DEF Current, Miners, Callers, chainVars
<1>8. TypeOK'
  BY <1>1, <1>2, <1>3, <1>7 DEF TypeOK, chainVars, IsSubmit
<1>9. MarksEarned'
  BY <1>1, <1>2, <1>4, <1>7 DEF MarksEarned, chainVars
<1>10. Warranted'
  BY <1>1, <1>2, <1>7 DEF Warranted, ConfirmedWarranted, chainVars
<1>11. MarksMade'
  <2>1. ASSUME NEW p \in Owners \ excused', doc'.owners[p].timed
        PROVE  doc'.owners[p] = Confirmed /\ p \notin viewing'
    <3>1. doc.owners[p].timed /\ p \in Owners \ excused
      BY <1>2, <1>3, <1>4, <2>1
    <3>2. doc.owners[p] = Confirmed /\ p \notin viewing
      BY <3>1 DEF MarksMade
    <3>3. doc'.owners[p] = Confirmed
      BY <1>5, <2>1, <3>2
    <3>4. p \notin viewing'
      BY <1>2, <1>3, <1>4, <2>1, <3>2
    <3>5. QED
      BY <3>3, <3>4
  <2>2. Submitter \notin excused' => doc'.owners[Submitter] = Confirmed
    BY <1>1, <1>3, <1>5, MultisigTxAssumption DEF MarksMade
  <2>3. at' \in {"execute", "internal"} /\ Current'.call.by \notin excused'
          => doc'.owners[Current'.call.by] = Confirmed
    <3>1. at # "next" => Current.call.by \in Owners
      BY QueueHead DEF TypeOK
    <3>2. QED
      BY <1>1, <1>3, <1>5, <1>7, <3>1 DEF MarksMade
  <2>4. QED
    BY <1>1, <1>2, <1>7, <2>1, <2>2, <2>3 DEF MarksMade
<1>12. ListCurrent'
  BY <1>1, <1>2, <1>3, <1>4, <1>7 DEF ListCurrent
<1>13. DeepListed'
  BY <1>1, <1>6, <1>7 DEF DeepListed, Confirms, Deep, chainVars
<1>14. ConfirmComing'
  BY <1>1, <1>2, <1>3, ConfirmStays DEF Told
<1>15. QED
  BY <1>6, <1>8, <1>9, <1>10, <1>11, <1>12, <1>13, <1>14

-----------------------------------------------------------------------------
\* The node reports: what the chain says grows, and the report is of it.
ChainGrows(r) ==
    /\ queue' = Append(queue, r)
    /\ UNCHANGED <<needed, at, list, doc, internal, viewing, behind>>
    /\ excused \subseteq excused' /\ excused' \subseteq Owners
    /\ pooled' \subseteq Owners /\ standing' \subseteq Owners /\ mined' \in Seq(Call)
    /\ executed' \in BOOLEAN /\ revokes' \in 0..MaxRevokes
    /\ deep' \in 0..Len(mined') /\ deep <= deep'
    /\ Len(mined) <= Len(mined') /\ \A i \in 1..Len(mined) : mined'[i] = mined[i]
    /\ \A o \in (pooled' \cup Miners') \ excused' : o \in pooled \cup Miners \/ IsCall(r, o)
    /\ pooled \cup Miners \subseteq pooled' \cup Miners' /\ Miners \subseteq Miners'
    /\ \A o \in standing' : o \in standing \/ \A i \in 1..deep : mined[i].by # o

\* The report fits the chain.
ReportFits(r) ==
    /\ r.call.by \in pooled' \cup Miners' /\ (r.stage # "mempool" => r.call.by \in Miners')
    /\ IF r.stage = "confirmed" THEN deep' = deep + 1 /\ r = [call |-> mined'[deep'], stage |-> "confirmed"]
       ELSE deep' = deep
    /\ Mempool(r) => mined = <<>> /\ mined' = <<>>
    /\ mined' = <<>> => Mempool(r)
    /\ mined = <<>> /\ mined' # <<>> => IsCall(r, Submitter) /\ r.stage # "mempool"
    /\ IsCall(r, Submitter) => deep' <= 1

\* A report that fits the chain keeps the invariant.
LEMMA ChainKeeps ==
    ASSUME MarksInv, NEW r \in Report, ChainGrows(r), ReportFits(r), ChainOrder'
    PROVE  MarksInv'
<1> USE DEF MarksInv
<1>0. PICK n \in Nat : n = Len(queue)
  BY LenProperties DEF TypeOK
<1>1. /\ queue' \in Seq(Report) /\ queue' # <<>> /\ Len(queue') = n + 1
      /\ \A i \in 1..n : queue'[i] = queue[i]
      /\ queue'[n + 1] = r
      /\ queue # <<>> => Current' = Current
  BY <1>0, QueueSend DEF ChainGrows
<1>2. \A i \in 1..(n + 1) : i \in 1..n \/ i = n + 1
  OBVIOUS
<1>3. at # "next" => Current' = Current
  BY <1>1 DEF TypeOK
<1>4. TypeOK'
  BY <1>1, <1>3 DEF TypeOK, ChainGrows, IsSubmit
<1>5. /\ Len(mined) \in Nat /\ deep \in Nat /\ deep <= Len(mined) /\ deep' \in Nat /\ deep' <= Len(mined')
      /\ \A k \in 1..deep : k \in 1..Len(mined) /\ k \in 1..deep' /\ mined'[k] = mined[k]
  <2>1. mined \in Seq(Call) /\ deep \in 0..Len(mined)
    BY DEF TypeOK
  <2>2. /\ mined' \in Seq(Call) /\ deep' \in 0..Len(mined') /\ deep <= deep'
        /\ \A i \in 1..Len(mined) : mined'[i] = mined[i]
    BY DEF ChainGrows
  <2>3. Len(mined) \in Nat /\ Len(mined') \in Nat
    BY <2>1, <2>2, LenProperties
  <2> HIDE DEF MarksInv
  <2>4. QED
    BY <2>1, <2>2, <2>3
<1>6. \A k \in 1..deep : Deep(k)' = Deep(k) /\ (Confirms(k)' <=> Confirms(k)) /\ Before(k)' \subseteq Before(k)
  BY <1>5 DEF Deep, Confirms, Before, ChainGrows
<1>7. \A k \in 1..deep' : k \in 1..deep \/ (k = deep' /\ deep' = deep + 1 /\ r = Deep(k)' /\ r.stage = "confirmed")
  BY <1>5 DEF ReportFits, Deep
<1>8. ReportsSent'
  <2> SUFFICES ASSUME NEW i \in 1..(n + 1)
               PROVE  /\ queue'[i].call.by \in pooled' \cup Miners'
                      /\ queue'[i].stage # "mempool" => queue'[i].call.by \in Miners'
                      /\ queue'[i].stage = "confirmed" => \E k \in 1..deep' : queue'[i] = Deep(k)'
    BY <1>1 DEF ReportsSent
  <2>1. CASE i \in 1..n
    BY <1>0, <1>1, <1>5, <1>6, <2>1 DEF ReportsSent, ChainGrows
  <2>2. CASE i = n + 1
    BY <1>1, <1>5, <2>2 DEF ReportFits, Deep
  <2>3. QED
    BY <1>2, <2>1, <2>2
<1>9. RequestComes'
  <2>1. \A i \in 1..(n + 1) : Mempool(queue'[i]) <=> IF i = n + 1 THEN Mempool(r) ELSE Mempool(queue[i])
    BY <1>1, <1>2
  <2>2. CASE doc.requestid
    <3>1. mined # <<>> /\ ~Mempool(r)
      BY <2>2 DEF ChainOrder, ReportFits
    <3>2. \A i \in 1..n : ~Mempool(queue[i])
      BY <1>0, <2>2 DEF RequestComes
    <3>3. \A i \in 1..Len(queue') : ~Mempool(queue'[i])
      BY <1>1, <1>2, <2>1, <3>1, <3>2
    <3>4. QED
      BY <2>2, <3>3 DEF RequestComes, ChainGrows, Mempool, IsCall
  <2>3. CASE ~doc.requestid /\ mined' = <<>>
    <3>1. mined = <<>> /\ Mempool(r)
      <4>1. Len(mined') = 0
        BY <2>3, EmptySeq
      <4>2. Len(mined) = 0 /\ mined \in Seq(Call)
        BY <4>1, <1>5 DEF ChainGrows, TypeOK
      <4>3. QED
        BY <2>3, <4>2, EmptySeq DEF ReportFits
    <3>2. \A i \in 1..n : Mempool(queue[i])
      BY <1>0, <2>3, <3>1 DEF RequestComes
    <3>3. \A i \in 1..Len(queue') : Mempool(queue'[i])
      BY <1>1, <1>2, <2>1, <3>1, <3>2
    <3>4. QED
      BY <2>3, <3>3 DEF RequestComes, ChainGrows, Mempool, IsCall
  <2>4. CASE ~doc.requestid /\ mined' # <<>>
    <3>1. ~Mempool(r)
      BY <2>4 DEF ReportFits
    <3>2. PICK i \in 1..(n + 1) :
             /\ IsCall(queue'[i], Submitter) /\ queue'[i].stage # "mempool"
             /\ \A j \in 1..(n + 1) : j < i <=> Mempool(queue'[j])
      <4>1. CASE mined = <<>>
        <5>1. \A j \in 1..n : Mempool(queue[j])
          BY <1>0, <2>4, <4>1 DEF RequestComes
        <5>2. IsCall(r, Submitter) /\ r.stage # "mempool"
          BY <2>4, <4>1 DEF ReportFits
        <5>3. \A j \in 1..(n + 1) : j < n + 1 <=> Mempool(queue'[j])
          BY <1>2, <2>1, <3>1, <5>1
        <5>4. (n + 1) \in 1..(n + 1) /\ queue'[n + 1] = r
          BY <1>1
        <5>5. QED
          BY <5>2, <5>3, <5>4
      <4>2. CASE mined # <<>>
        <5>1. PICK i \in 1..n :
                 /\ IsCall(queue[i], Submitter) /\ queue[i].stage # "mempool"
                 /\ \A j \in 1..n : j < i <=> Mempool(queue[j])
          BY <1>0, <2>4, <4>2 DEF RequestComes
        <5>2. i \in 1..(n + 1) /\ queue'[i] = queue[i]
          BY <1>1
        <5>3. \A j \in 1..(n + 1) : j < i <=> Mempool(queue'[j])
          BY <1>2, <2>1, <3>1, <5>1
        <5>4. QED
          BY <5>1, <5>2, <5>3
      <4>3. QED
        BY <4>1, <4>2
    <3>3. QED
      BY <1>1, <2>4, <3>2 DEF RequestComes, ChainGrows, Mempool, IsCall
  <2>5. QED
    BY <2>2, <2>3, <2>4
<1>10. MarksEarned'
  BY DEF MarksEarned, ChainGrows
<1>11. Warranted'
  <2>1. Callers \subseteq Callers' /\ IsFiniteSet(Callers') /\ Cardinality(Callers') \in Nat
        /\ Cardinality(Callers) \in Nat
    <3>1. Callers = pooled \cup Miners /\ Cardinality(Callers) \in Nat
      BY CallersAre
    <3>2. Callers' = pooled' \cup Miners' /\ Callers' \subseteq Owners
      <4>1. DOMAIN mined' = 1..Len(mined')
        BY LenProperties DEF ChainGrows
      <4>2. Callers' = pooled' \cup Miners'
        BY <4>1 DEF Callers, Miners
      <4>3. Miners' \subseteq Owners
        <5>1. \A i \in 1..Len(mined') : mined'[i] \in Call
          BY ElementOfSeq DEF ChainGrows
        <5>2. \A c \in Call : c.by \in Owners
          BY DEF Call
        <5>3. QED
          BY <5>1, <5>2 DEF Miners
      <4>4. QED
        BY <4>2, <4>3 DEF ChainGrows
    <3>3. QED
      BY <3>1, <3>2, MultisigTxAssumption, FS_Subset, FS_CardinalityType DEF ChainGrows
  <2>2. Cardinality(Callers) <= Cardinality(Callers')
    BY <2>1, FS_Subset
  <2>3. Cardinality(Callers) >= needed => Cardinality(Callers') >= needed
    BY <2>1, <2>2, MultisigTxAssumption, FS_CardinalityType DEF TypeOK
  <2>4. (\E i \in DOMAIN mined : mined[i].by # Submitter) => \E i \in DOMAIN mined' : mined'[i].by # Submitter
    BY <1>5, LenProperties DEF TypeOK, ChainGrows
  <2>5. QED
    BY <2>3, <2>4 DEF Warranted, ConfirmedWarranted, ChainGrows
<1>12. \A o \in Owners, i \in 1..n : Coming(o, i) => Coming(o, i)'
  BY <1>0, <1>1 DEF Coming, IsCall, ChainGrows
<1>13. ASSUME NEW o \in (pooled' \cup Miners') \ excused' PROVE Coming(o, n + 1)'
  <2>1. CASE IsCall(r, o)
    <3>1. (n + 1) \in 1..(n + 1) /\ IsCall(queue'[n + 1], o)
      BY <1>1, <2>1
    <3>2. QED
      BY <3>1 DEF Coming, IsCall
  <2>2. CASE o \in pooled \cup Miners
    <3>1. o \in (pooled \cup Miners) \ excused
      BY <2>2 DEF ChainGrows
    <3>2. Coming(o, n)
      BY <1>0, <3>1 DEF MarksComing
    <3>3. \A j \in 1..n : IsCall(queue[j], o) => j \in 1..(n + 1) /\ IsCall(queue'[j], o)
      BY <1>1
    <3>4. QED
      BY <3>2, <3>3 DEF Coming, IsCall, ChainGrows
  <2>3. QED
    BY <2>1, <2>2 DEF ChainGrows
<1>14. MarksComing'
  BY <1>1, <1>13 DEF MarksComing, Coming
<1>15. MarksMade' /\ ListCurrent'
  BY <1>3 DEF MarksMade, ListCurrent, ChainGrows
<1>16. DeepInOrder'
  <2> SUFFICES ASSUME NEW k \in 1..deep', NEW i \in 1..(n + 1), Confirms(k)', queue'[i] = Deep(k)'
               PROVE  /\ \A j \in i..(n + 1) : ~IsCall(queue'[j], Submitter)
                      /\ \A o \in Before(k)' : Coming(o, i)'
    BY <1>1 DEF DeepInOrder, IsCall
  <2>1. CASE i \in 1..n
    <3>1. queue[i] = Deep(k)' /\ queue[i].stage = "confirmed"
      BY <1>1, <2>1 DEF Deep
    <3>2. PICK h \in 1..deep : queue[i] = Deep(h)
      BY <1>0, <2>1, <3>1 DEF ReportsSent
    <3>3. mined'[k] = mined'[h] /\ h \in 1..Len(mined') /\ k \in 1..Len(mined')
      BY <1>5, <3>1, <3>2 DEF Deep
    <3>4. h = k
      BY <3>3 DEF ChainOrder, Confirms
    <3>5. /\ \A j \in i..n : ~IsCall(queue[j], Submitter)
          /\ \A o \in Before(k) : Coming(o, i)
      BY <1>0, <1>6, <2>1, <3>2, <3>4 DEF DeepInOrder
    <3>6. ~IsCall(r, Submitter)
      <4>1. k # 1
        BY <1>5, <3>2, <3>4 DEF ChainOrder, Confirms
      <4>2. QED
        BY <1>5, <3>2, <3>4, <4>1 DEF ReportFits
    <3>7. Before(k)' \subseteq Before(k) /\ Before(k) \subseteq Owners
      BY <1>6, <3>4 DEF Before
    <3>8. QED
      BY <1>1, <1>2, <1>12, <2>1, <3>5, <3>6, <3>7
  <2>2. CASE i = n + 1
    <3>1. r = Deep(k)' /\ ~IsCall(r, Submitter)
      BY <1>1, <2>2 DEF Deep, Confirms, IsCall
    <3>2. \A o \in Before(k)' : o \in Miners' \ excused'
      <4>1. \A j \in 1..k : j \in 1..Len(mined')
        BY <1>5
      <4>2. QED
        BY <4>1 DEF Before, Miners
    <3>3. \A o \in Before(k)' : Coming(o, n + 1)'
      BY <1>13, <3>2
    <3>4. QED
      BY <1>1, <2>2, <3>1, <3>3
  <2>3. QED
    BY <1>2, <2>1, <2>2
<1>17. DeepListed'
  <2> SUFFICES ASSUME at \in {"write", "execute"}, NEW k \in 1..deep', Confirms(k)', Current = Deep(k)',
                      NEW o \in Before(k)'
               PROVE  list[o] = Confirmed
    BY <1>3 DEF DeepListed, ChainGrows
  <2>1. 1 \in 1..n /\ queue[1] = Current /\ queue[1].stage = "confirmed"
    BY <1>0, QueueHead DEF TypeOK, Deep
  <2>2. PICK h \in 1..deep : Current = Deep(h)
    BY <1>0, <2>1 DEF ReportsSent
  <2>3. mined'[k] = mined'[h] /\ h \in 1..Len(mined') /\ k \in 1..Len(mined')
    BY <1>5, <2>2 DEF Deep
  <2>4. h = k
    BY <2>3 DEF ChainOrder, Confirms
  <2>5. Confirms(k) /\ o \in Before(k)
    BY <1>6, <2>2, <2>4
  <2>6. QED
    BY <2>2, <2>4, <2>5 DEF DeepListed
<1>18. ConfirmComing'
  <2>1. CASE needed = 1
    BY <2>1 DEF ConfirmComing, ChainGrows, Told
  <2>2. CASE needed # 1
    <3> SUFFICES ASSUME NEW k \in 1..deep', Confirms(k)', Cardinality(standing' \cap Before(k)') >= needed
                 PROVE  \/ \E i \in 1..(n + 1) : queue'[i] = Deep(k)'
                        \/ Told /\ \A i \in 1..(n + 1) : ~IsCall(queue'[i], Submitter)
      BY <1>1, <2>2 DEF ConfirmComing, IsCall, ChainGrows, Told
    <3>1. CASE k \notin 1..deep
      <4>1. r = Deep(k)' /\ (n + 1) \in 1..(n + 1)
        BY <1>7, <3>1
      <4>2. QED
        BY <1>1, <4>1
    <3>2. CASE k \in 1..deep
      <4>1. standing' \cap Before(k)' \in SUBSET (standing \cap Before(k))
        <5>1. Before(k)' \subseteq Before(k)
          BY <1>6, <3>2
        <5>2. \A o \in Before(k) : \E i \in 1..deep : mined[i].by = o
          <6>1. \A i \in 1..k : i \in 1..deep
            BY <1>5, <3>2
          <6>2. QED
            BY <6>1 DEF Before
        <5>3. QED
          BY <5>1, <5>2 DEF ChainGrows
      <4>2. IsFiniteSet(standing \cap Before(k)) /\ Cardinality(standing \cap Before(k)) \in Nat
        BY MultisigTxAssumption, FS_Subset, FS_CardinalityType DEF TypeOK
      <4>3. /\ Cardinality(standing' \cap Before(k)') <= Cardinality(standing \cap Before(k))
            /\ Cardinality(standing' \cap Before(k)') \in Nat
        BY <4>1, <4>2, FS_Subset, FS_CardinalityType
      <4>4. Cardinality(standing \cap Before(k)) >= needed
        BY <4>2, <4>3, MultisigTxAssumption, FS_CardinalityType DEF TypeOK
      <4>5. \/ \E i \in 1..n : queue[i] = Deep(k)
            \/ Told /\ \A i \in 1..n : ~IsCall(queue[i], Submitter)
        BY <1>0, <1>6, <2>2, <3>2, <4>4 DEF ConfirmComing
      <4>6. ~IsCall(r, Submitter)
        <5>1. k # 1
          BY <1>5, <1>6, <3>2 DEF ChainOrder, Confirms
        <5>2. QED
          BY <1>5, <3>2, <5>1 DEF ReportFits
      <4>7. QED
        BY <1>1, <1>2, <1>6, <3>2, <4>5, <4>6
    <3>3. QED
      BY <3>1, <3>2
  <2>3. QED
    BY <2>1, <2>2
<1>19. QED
  BY <1>4, <1>8, <1>9, <1>10, <1>11, <1>14, <1>15, <1>16, <1>17, <1>18

\* What the chain is when a call is mined.
LEMMA MinedAppend ==
    ASSUME TypeOK, NEW c \in Call, mined' = Append(mined, c)
    PROVE  /\ mined' \in Seq(Call) /\ mined' # <<>>
           /\ Len(mined) \in Nat /\ Len(mined') = Len(mined) + 1
           /\ \A i \in 1..Len(mined) : mined'[i] = mined[i]
           /\ mined'[Len(mined) + 1] = c
           /\ Miners' = Miners \cup {c.by}
<1>1. mined \in Seq(Call)
  BY DEF TypeOK
<1>2. /\ mined' \in Seq(Call) /\ mined' # <<>> /\ Len(mined) \in Nat /\ Len(mined') = Len(mined) + 1
      /\ (\A i \in 1..Len(mined) : mined'[i] = mined[i]) /\ mined'[Len(mined) + 1] = c
  BY <1>1, AppendProperties, LenProperties
<1>3. \A i \in 1..(Len(mined) + 1) : i \in 1..Len(mined) \/ i = Len(mined) + 1
  BY <1>2
<1>4. Miners' = Miners \cup {c.by}
  <2>1. ASSUME NEW o \in Miners' PROVE o \in Miners \cup {c.by}
    <3>1. PICK i \in 1..(Len(mined) + 1) : mined'[i].by = o
      BY <1>2 DEF Miners
    <3>2. QED
      BY <1>2, <1>3, <3>1 DEF Miners
  <2>2. Miners \subseteq Miners'
    <3>1. \A i \in 1..Len(mined) : i \in 1..Len(mined') /\ mined'[i] = mined[i]
      BY <1>2
    <3>2. QED
      BY <3>1 DEF Miners
  <2>3. c.by \in Miners'
    <3>1. (Len(mined) + 1) \in 1..Len(mined')
      BY <1>2
    <3>2. QED
      BY <1>2, <3>1 DEF Miners
  <2>4. QED
    BY <2>1, <2>2, <2>3
<1>5. QED
  BY <1>2, <1>4

\* While nothing is mined nobody has a call in a block.
LEMMA MinedNone ==
    ASSUME TypeOK
    PROVE  /\ mined = <<>> <=> Len(mined) = 0
           /\ mined = <<>> => Miners = {} /\ deep = 0
<1>1. mined \in Seq(Call) /\ deep \in 0..Len(mined)
  BY DEF TypeOK
<1>2. mined = <<>> <=> Len(mined) = 0
  BY <1>1, EmptySeq
<1>3. mined = <<>> => Miners = {} /\ deep = 0
  BY <1>1, <1>2 DEF Miners
<1>4. QED
  BY <1>2, <1>3

\* An owner's call enters the mempool.
LEMMA EnterKeeps ==
    ASSUME MarksInv, NEW o \in Owners, EnterPool(o)
    PROVE  MarksInv'
<1> USE DEF MarksInv
<1>1. PICK r \in Report : r = [call |-> call(o), stage |-> "mempool"]
  BY DEF Report, Call, call
<1>2. r.call.by = o /\ ~r.call.revoke /\ r.stage = "mempool"
  BY <1>1 DEF call
<1>3. /\ queue' = Append(queue, r) /\ pooled' = pooled \cup {o}
      /\ o \notin pooled /\ (o # Submitter => mined # <<>>)
      /\ UNCHANGED <<needed, mined, deep, standing, executed, at, list, doc, internal, viewing,
                     revokes, behind, excused>>
  BY <1>1 DEF EnterPool, Send
<1>4. o \notin Miners
  BY LenProperties DEF EnterPool, Miners, TypeOK
<1>5. Miners' = Miners
  BY <1>3 DEF Miners
<1>6. Len(mined) \in Nat /\ (mined = <<>> => Miners = {} /\ deep = 0)
      /\ (mined # <<>> => Submitter \in Miners)
  <2>1. Len(mined) \in Nat /\ (mined # <<>> => 1 \in 1..Len(mined))
    BY MinedCalls, MinedNone
  <2>2. QED
    BY <2>1, MinedNone DEF ChainOrder, Miners
<1>7. mined = <<>> <=> o = Submitter
  BY <1>3, <1>4, <1>6
<1>8. ChainOrder'
  BY <1>3, <1>4, <1>5, <1>7 DEF ChainOrder
<1>9. ChainGrows(r)
  <2>1. \A p \in (pooled' \cup Miners') \ excused' : p \in pooled \cup Miners \/ IsCall(r, p)
    BY <1>2, <1>3, <1>5 DEF IsCall
  <2>2. deep \in Nat /\ deep <= Len(mined)
    BY <1>6 DEF TypeOK
  <2>3. QED
    BY <1>3, <1>5, <1>6, <2>1, <2>2 DEF ChainGrows, TypeOK
<1>10. ReportFits(r)
  BY <1>2, <1>3, <1>5, <1>6, <1>7 DEF ReportFits, IsCall, Mempool
<1>11. QED
  BY <1>8, <1>9, <1>10, ChainKeeps

\* It is mined.
LEMMA MineKeeps ==
    ASSUME MarksInv, NEW o \in Owners, Mine(o)
    PROVE  MarksInv'
<1> USE DEF MarksInv
<1>1. PICK c \in Call : c = [call(o) EXCEPT !.done = ~executed]
  <2>1. PICK b \in BOOLEAN : b = ~executed
    OBVIOUS
  <2>2. [call(o) EXCEPT !.done = b] \in Call
    BY DEF Call, call
  <2>3. QED
    BY <2>1, <2>2
<1>2. c.by = o /\ ~c.revoke
  BY <1>1 DEF call
<1>3. PICK r \in Report : r = [call |-> c, stage |-> "block"]
  BY DEF Report
<1>4. r.call.by = o /\ ~r.call.revoke /\ r.stage = "block"
  BY <1>2, <1>3
<1>5. /\ queue' = Append(queue, r) /\ mined' = Append(mined, c)
      /\ o \in pooled /\ pooled' = pooled \ {o}
      /\ standing' \subseteq standing \cup {o} /\ executed' \in BOOLEAN
      /\ UNCHANGED <<needed, deep, at, list, doc, internal, viewing, revokes, behind, excused>>
  BY <1>1, <1>3 DEF Mine, Send, TypeOK
<1>6. PICK n \in Nat : n = Len(mined)
  BY MinedCalls
<1>7. /\ mined' \in Seq(Call) /\ mined' # <<>> /\ Len(mined') = n + 1
      /\ \A i \in 1..n : mined'[i] = mined[i]
      /\ mined'[n + 1] = c /\ Miners' = Miners \cup {o}
  BY <1>2, <1>5, <1>6, MinedAppend
<1>8. o \notin Miners /\ (mined = <<>> => o = Submitter /\ n = 0 /\ deep = 0) /\ (mined # <<>> => n # 0)
  BY <1>5, <1>6, MinedNone DEF ChainOrder
<1>9. \A i \in 1..n : mined[i].by # o
  BY <1>6, <1>8 DEF Miners
<1>10. mined = <<>> <=> o = Submitter
  <2>1. mined # <<>> => 1 \in 1..n
    BY <1>8
  <2>2. QED
    BY <1>8, <1>9, <2>1 DEF ChainOrder
<1>11. \A i \in 1..(n + 1) : i \in 1..n \/ i = n + 1
  OBVIOUS
<1>12. ChainOrder'
  <2>1. pooled' \cap Miners' = {}
    BY <1>5, <1>7 DEF ChainOrder
  <2>2. \A i, j \in 1..(n + 1) :
          mined'[i].by = mined'[j].by /\ ~mined'[i].revoke /\ ~mined'[j].revoke => i = j
    BY <1>2, <1>6, <1>7, <1>9, <1>11 DEF ChainOrder
  <2>3. mined'[1].by = Submitter /\ ~mined'[1].revoke
    <3>1. CASE mined = <<>>
      BY <1>2, <1>7, <1>8, <3>1
    <3>2. CASE mined # <<>>
      <4>1. 1 \in 1..n
        BY <1>8, <3>2
      <4>2. QED
        BY <1>7, <3>2, <4>1 DEF ChainOrder
    <3>3. QED
      BY <3>1, <3>2
  <2>4. ASSUME NEW p \in standing' PROVE \E i \in 1..(n + 1) : mined'[i].by = p /\ ~mined'[i].revoke
    <3>1. CASE p = o
      <4>1. (n + 1) \in 1..(n + 1)
        OBVIOUS
      <4>2. QED
        BY <1>2, <1>7, <3>1, <4>1
    <3>2. CASE p \in standing
      <4>1. PICK i \in 1..n : mined[i].by = p /\ ~mined[i].revoke
        BY <1>6, <3>2 DEF ChainOrder
      <4>2. i \in 1..(n + 1) /\ mined'[i] = mined[i]
        BY <1>7
      <4>3. QED
        BY <4>1, <4>2
    <3>3. QED
      BY <1>5, <3>1, <3>2
  <2>5. QED
    BY <1>7, <2>1, <2>2, <2>3, <2>4 DEF ChainOrder
<1>13. deep \in Nat /\ deep <= n /\ \A i \in 1..deep : i \in 1..n
  BY <1>6 DEF TypeOK
<1>14. ChainGrows(r)
  <2>1. \A p \in standing' : p \in standing \/ \A i \in 1..deep : mined[i].by # p
    BY <1>5, <1>9, <1>13
  <2>2. \A p \in (pooled' \cup Miners') \ excused' : p \in pooled \cup Miners \/ IsCall(r, p)
    BY <1>5, <1>7 DEF IsCall
  <2>3. deep' \in 0..Len(mined') /\ deep <= deep' /\ Len(mined) <= Len(mined')
    BY <1>5, <1>6, <1>7, <1>13
  <2>4. QED
    BY <1>5, <1>6, <1>7, <2>1, <2>2, <2>3 DEF ChainGrows, TypeOK
<1>15. ReportFits(r)
  BY <1>4, <1>5, <1>7, <1>8, <1>10, <1>13 DEF ReportFits, IsCall, Mempool
<1>16. QED
  BY <1>12, <1>14, <1>15, ChainKeeps

\* A revocation is mined.
LEMMA MineRevokeKeeps ==
    ASSUME MarksInv, NEW o \in Owners, MineRevoke(o)
    PROVE  MarksInv'
<1> USE DEF MarksInv
<1>1. PICK c \in Call : c = [call(o) EXCEPT !.revoke = TRUE]
  BY DEF Call, call
<1>2. c.by = o /\ c.revoke
  BY <1>1 DEF call
<1>3. PICK r \in Report : r = [call |-> c, stage |-> "block"]
  BY DEF Report
<1>4. r.call.by = o /\ r.call.revoke /\ r.stage = "block"
  BY <1>2, <1>3
<1>5. /\ queue' = Append(queue, r) /\ mined' = Append(mined, c)
      /\ o \in standing /\ standing' = standing \ {o} /\ excused' = excused \cup {o}
      /\ revokes' \in 0..MaxRevokes
      /\ UNCHANGED <<needed, pooled, deep, executed, at, list, doc, internal, viewing, behind>>
  BY <1>1, <1>3, MultisigTxAssumption DEF MineRevoke, Send, TypeOK
<1>6. PICK n \in Nat : n = Len(mined)
  BY MinedCalls
<1>7. /\ mined' \in Seq(Call) /\ mined' # <<>> /\ Len(mined') = n + 1
      /\ \A i \in 1..n : mined'[i] = mined[i]
      /\ mined'[n + 1] = c /\ Miners' = Miners \cup {o}
  BY <1>2, <1>5, <1>6, MinedAppend
<1>8. mined # <<>> /\ 1 \in 1..n /\ o \in Miners
  BY <1>5, <1>6, MinedNone DEF ChainOrder, Miners
<1>9. Miners' = Miners
  BY <1>7, <1>8
<1>10. \A i \in 1..(n + 1) : i \in 1..n \/ i = n + 1
  OBVIOUS
<1>11. ChainOrder'
  <2>1. pooled' \cap Miners' = {}
    BY <1>5, <1>9 DEF ChainOrder
  <2>2. \A i, j \in 1..(n + 1) :
          mined'[i].by = mined'[j].by /\ ~mined'[i].revoke /\ ~mined'[j].revoke => i = j
    BY <1>2, <1>6, <1>7, <1>10 DEF ChainOrder
  <2>3. mined'[1].by = Submitter /\ ~mined'[1].revoke
    BY <1>7, <1>8 DEF ChainOrder
  <2>4. ASSUME NEW p \in standing' PROVE \E i \in 1..(n + 1) : mined'[i].by = p /\ ~mined'[i].revoke
    <3>1. PICK i \in 1..n : mined[i].by = p /\ ~mined[i].revoke
      BY <1>5, <1>6 DEF ChainOrder
    <3>2. i \in 1..(n + 1) /\ mined'[i] = mined[i]
      BY <1>7
    <3>3. QED
      BY <3>1, <3>2
  <2>5. QED
    BY <1>7, <2>1, <2>2, <2>3, <2>4 DEF ChainOrder
<1>12. ChainGrows(r)
  <2>1. deep' \in 0..Len(mined') /\ deep <= deep' /\ Len(mined) <= Len(mined')
    BY <1>5, <1>6, <1>7 DEF TypeOK
  <2>2. QED
    BY <1>5, <1>6, <1>7, <1>9, <2>1 DEF ChainGrows, TypeOK
<1>13. ReportFits(r)
  BY <1>4, <1>5, <1>7, <1>8, <1>9 DEF ReportFits, IsCall, Mempool
<1>14. QED
  BY <1>11, <1>12, <1>13, ChainKeeps

\* A call is deep enough.
LEMMA DeepenKeeps ==
    ASSUME MarksInv, Deepen
    PROVE  MarksInv'
<1> USE DEF MarksInv
<1>1. /\ deep' = deep + 1 /\ deep' \in 1..Len(mined) /\ deep \in Nat /\ Len(mined) \in Nat
      /\ UNCHANGED <<needed, pooled, mined, standing, executed, at, list, doc, internal, viewing,
                     revokes, behind, excused>>
  BY MinedCalls DEF Deepen, TypeOK
<1>2. mined[deep'] \in Call /\ mined[deep'].by \in Miners
  BY <1>1, MinedCalls
<1>3. PICK r \in Report : r = [call |-> mined[deep'], stage |-> "confirmed"]
  BY <1>2 DEF Report
<1>4. r.call = mined[deep'] /\ r.stage = "confirmed"
  BY <1>3
<1>5. queue' = Append(queue, r)
  BY <1>3 DEF Deepen, Send
<1>6. Miners' = Miners
  BY <1>1 DEF Miners
<1>7. ChainOrder'
  BY <1>1, <1>6 DEF ChainOrder
<1>8. mined # <<>> /\ 1 \in 1..Len(mined)
  BY <1>1, MinedNone
<1>9. IsCall(r, Submitter) => deep' = 1
  BY <1>1, <1>4, <1>8 DEF IsCall, ChainOrder
<1>10. ChainGrows(r)
  BY <1>1, <1>5, <1>6 DEF ChainGrows, TypeOK
<1>11. ReportFits(r)
  BY <1>1, <1>2, <1>3, <1>4, <1>6, <1>8, <1>9 DEF ReportFits, Mempool
<1>12. QED
  BY <1>7, <1>10, <1>11, ChainKeeps

-----------------------------------------------------------------------------
\* The invariant holds at the start.
LEMMA InitMarks == Init => MarksInv
<1> SUFFICES ASSUME Init PROVE MarksInv
  OBVIOUS
<1>1. /\ pooled = {} /\ mined = <<>> /\ deep = 0 /\ standing = {} /\ executed = FALSE
      /\ queue = <<>> /\ at = "next" /\ list = NoDoc.owners /\ doc = NoDoc
      /\ internal = 0 /\ viewing = {} /\ revokes = 0 /\ behind = {} /\ excused = {}
      /\ needed \in 1..Cardinality(Owners)
  BY DEF Init
<1>2. /\ mined \in Seq(Call) /\ Len(mined) = 0 /\ queue \in Seq(Report) /\ Len(queue) = 0
  BY <1>1, EmptySeq
<1>3. /\ ~doc.found /\ ~doc.requestid /\ ~doc.confirmed
      /\ NoDoc.owners \in [Owners -> Mark]
      /\ \A o \in Owners : doc.owners[o] = Waiting /\ list[o] = Waiting
      /\ Waiting.status # "confirmed" /\ ~Waiting.timed
      /\ doc \in [found : BOOLEAN, requestid : BOOLEAN, confirmed : BOOLEAN, owners : [Owners -> Mark]]
  BY <1>1 DEF NoDoc, Waiting, Mark
<1>4. Miners = {}
  BY <1>2 DEF Miners
<1>5. TypeOK
  <2>1. list \in [Owners -> Mark] /\ 0 \in 0..MaxRevokes /\ 0 \in 0..Len(mined)
    BY <1>1, <1>2, <1>3, MultisigTxAssumption
  <2>2. QED
    BY <1>1, <1>2, <1>3, <2>1 DEF TypeOK
<1>6. ChainOrder /\ ReportsSent /\ RequestComes
  BY <1>1, <1>2, <1>3, <1>4 DEF ChainOrder, ReportsSent, RequestComes
<1>7. MarksEarned /\ Warranted /\ MarksComing /\ MarksMade
  BY <1>1, <1>3, <1>4 DEF MarksEarned, Warranted, ConfirmedWarranted, MarksComing, MarksMade
<1>8. ListCurrent /\ DeepInOrder /\ DeepListed /\ ConfirmComing
  BY <1>1, <1>2, <1>3 DEF ListCurrent, DeepInOrder, DeepListed, ConfirmComing
<1>9. QED
  BY <1>5, <1>6, <1>7, <1>8 DEF MarksInv

\* Where nothing changes nothing is lost.
LEMMA StutterMarks ==
    ASSUME MarksInv, UNCHANGED vars
    PROVE  MarksInv'
<1> USE DEF MarksInv
<1>1. /\ UNCHANGED <<chainVars, queue>>
      /\ UNCHANGED <<at, list, doc, internal, viewing, revokes, behind, excused>>
  BY DEF vars, chainVars
<1>2. /\ ChainOrder' /\ ReportsSent' /\ RequestComes' /\ MarksComing' /\ DeepInOrder'
      /\ \A k : Before(k)' \subseteq Before(k)
  BY <1>1, MarkKeeps
<1>3. Current' = Current /\ Miners' = Miners /\ Callers' = Callers /\ needed' = needed
      /\ mined' = mined /\ pooled' = pooled
  BY <1>1 DEF Current, Miners, Callers, chainVars
<1>4. TypeOK'
  BY <1>1, <1>3 DEF TypeOK, chainVars, IsSubmit
<1>5. MarksEarned' /\ Warranted' /\ MarksMade' /\ ListCurrent'
  BY <1>1, <1>3 DEF MarksEarned, Warranted, ConfirmedWarranted, MarksMade, ListCurrent
<1>6. DeepListed'
  BY <1>1, <1>2, <1>3 DEF DeepListed, Confirms, Deep, chainVars
<1>7. ConfirmComing'
  BY <1>1, ConfirmStays DEF Told
<1>8. QED
  BY <1>2, <1>4, <1>5, <1>6, <1>7

\* Every step keeps the invariant.
LEMMA NextMarks ==
    ASSUME MarksInv, [Next]_vars
    PROVE  MarksInv'
<1>1. CASE ChainStep
  BY <1>1, DeepenKeeps, EnterKeeps, MineKeeps, MineRevokeKeeps DEF ChainStep
<1>2. CASE StreamStep
  BY <1>2, SubmitKeeps, FindKeeps, WriteKeeps, ExecuteKeeps, InsertKeeps, RevokeKeeps DEF StreamStep
<1>3. CASE \E o \in Owners : OwnerStep(o)
  BY <1>3, OwnerKeeps
<1>4. CASE UNCHANGED vars
  BY <1>4, StutterMarks
<1>5. QED
  BY <1>1, <1>2, <1>3, <1>4 DEF Next

\* What relates the document, the chain, the stream and the goroutine's list
\* holds in every reachable state: the argument of the theorems below.
THEOREM MarksInvariant == Spec => []MarksInv
<1>1. MarksInv /\ [Next]_vars => MarksInv'
  BY NextMarks
<1>2. QED
  BY InitMarks, <1>1, PTL DEF Spec

\* Every variable of the stream's goroutine, the node and the document holds a
\* value of its kind, and the goroutine is between two database calls only with
\* a confirmation of a request it has found.
THEOREM TxTyped == Spec => []TypeOK
<1>1. MarksInv => TypeOK
  BY DEF MarksInv
<1>2. QED
  BY MarksInvariant, <1>1, PTL

\* processMultisig sets confirmed, and tells the internal transaction, only
\* after as many owners as needed have sent their calls and, where more than the
\* submission is needed, another's call is in a block.
THEOREM TxWarranted == Spec => []ConfirmedWarranted
<1>1. MarksInv => ConfirmedWarranted
  BY DEF MarksInv, Warranted
<1>2. QED
  BY MarksInvariant, <1>1, PTL

\* Once processMultisig has handled all reports every owner who has sent a call
\* is shown as confirmed, but for those another handler's write raced with.
THEOREM TxRestMark == Spec => []RestMark
<1>1. ASSUME MarksInv PROVE RestMark
  <2> SUFFICES ASSUME AtRest, NEW o \in Callers \ excused PROVE doc.owners[o] = Confirmed
    BY DEF RestMark
  <2>1. TypeOK /\ MarksComing
    BY <1>1 DEF MarksInv
  <2>2. Callers = pooled \cup Miners
    BY <2>1, CallersAre
  <2>3. Len(queue) = 0
    BY EmptySeq DEF AtRest
  <2>4. QED
    BY <2>1, <2>2, <2>3 DEF MarksComing, Coming
<1>2. QED
  BY MarksInvariant, <1>1, PTL

\* A handler of the socket changes the mark of its own owner, and processMultisig
\* the sender's and those that changed under the list it holds.
THEOREM TxMarkByOwner == Spec => MarkByOwner
<1> DEFINE ByOwner(o) ==
      (doc.found /\ doc'.owners[o] # doc.owners[o]) =>
            \/ doc'.owners[o] = [doc.owners[o] EXCEPT !.status = "declined"]
            \/ o \in viewing /\ doc'.owners[o] = [doc.owners[o] EXCEPT !.status = "seen"]
            \/ at \in {"write", "execute"} /\ o \in behind \cup {Current.call.by}
<1>1. ASSUME MarksInv, [Next]_vars, NEW o \in Owners PROVE ByOwner(o)
  <2> USE <1>1
  <2>1. doc \in [found : BOOLEAN, requestid : BOOLEAN, confirmed : BOOLEAN, owners : [Owners -> Mark]]
        /\ ListCurrent
    BY DEF MarksInv, TypeOK
  <2>2. CASE ChainStep \/ FindRequest \/ InsertInternal \/ Revoke \/ UNCHANGED vars
    <3>1. doc' = doc
      BY <2>2 DEF ChainStep, Deepen, EnterPool, Mine, MineRevoke, FindRequest, InsertInternal, Revoke, vars
    <3>2. QED
      BY <3>1
  <2>3. CASE Submit
    <3>1. doc.found => doc'.owners = doc.owners
      BY <2>3 DEF Submit
    <3>2. QED
      BY <3>1
  <2>4. CASE WriteOwners \/ Execute
    <3>1. at \in {"write", "execute"} /\ (doc'.owners = list \/ doc' = doc)
      BY <2>1, <2>4 DEF WriteOwners, Execute
    <3>2. QED
      BY <2>1, <3>1 DEF ListCurrent
  <2>5. ASSUME NEW p \in Owners, OwnerStep(p) PROVE ByOwner(o)
    <3>1. CASE CheckView(p)
      BY <3>1 DEF CheckView
    <3>2. CASE WriteView(p)
      BY <2>1, <3>2 DEF WriteView
    <3>3. CASE Decline(p)
      BY <2>1, <3>3 DEF Decline
    <3>4. QED
      BY <2>5, <3>1, <3>2, <3>3 DEF OwnerStep
  <2>6. QED
    BY <2>2, <2>3, <2>4, <2>5 DEF Next, StreamStep
<1>2. MarksInv /\ [Next]_vars => [\A o \in Owners : ByOwner(o)]_vars
  BY <1>1
<1>3. QED
  BY MarksInvariant, <1>2, PTL DEF Spec, MarkByOwner

-----------------------------------------------------------------------------
\* The calls up to place n hold those of all of G.
HaveCalled(G, n) == \A o \in G : \E j \in 1..n : mined[j].by = o /\ ~mined[j].revoke

\* Of owners who have called there is one who was the last to.
LEMMA LastCaller ==
    ASSUME TypeOK, NEW G, G # {}, HaveCalled(G, Len(mined))
    PROVE  \E n \in 1..Len(mined) : /\ HaveCalled(G, n)
                                    /\ mined[n].by \in G /\ ~mined[n].revoke
<1>1. Len(mined) \in Nat
  BY MinedCalls
<1>2. DEFINE T == {n \in Nat : HaveCalled(G, n)}
<1>3. PICK n \in T : \A m \in T : ~(<<m, n>> \in OpToRel(<, Nat))
  <2>1. T \subseteq Nat /\ T # {}
    BY <1>1
  <2>2. QED
    BY <2>1, NatLessThanWellFounded, WFMin
<1>4. n \in Nat /\ HaveCalled(G, n) /\ \A m \in Nat : m < n => ~HaveCalled(G, m)
  BY <1>3 DEF OpToRel
<1>5. n # 0 /\ n <= Len(mined)
  <2>1. n # 0
    BY <1>4 DEF HaveCalled
  <2>2. QED
    BY <1>1, <1>4, <2>1
<1>6. ~HaveCalled(G, n - 1)
  BY <1>4, <1>5
<1>7. PICK o \in G : \A j \in 1..(n - 1) : ~(mined[j].by = o /\ ~mined[j].revoke)
  BY <1>6 DEF HaveCalled
<1>8. PICK j \in 1..n : mined[j].by = o /\ ~mined[j].revoke
  BY <1>4 DEF HaveCalled
<1>9. j = n
  BY <1>4, <1>5, <1>7, <1>8
<1>10. QED
  BY <1>1, <1>4, <1>5, <1>8, <1>9

\* Once processMultisig has handled all reports, down to those of deep blocks, an
\* executed transaction is confirmed and its internal transaction told, whatever
\* the submission's later reports reset on the way.
THEOREM TxRestConfirmed == Spec => []RestConfirmed
<1>1. ASSUME MarksInv PROVE RestConfirmed
  <2> SUFFICES ASSUME AtRest, deep = Len(mined), executed, Cardinality(standing \ excused) >= needed
               PROVE  Told
    BY DEF RestConfirmed, Told
  <2> DEFINE G == standing \ excused
  <2>1. TypeOK /\ ChainOrder /\ RequestComes /\ ConfirmComing
    BY <1>1 DEF MarksInv
  <2>2. Len(queue) = 0 /\ mined # <<>> /\ Len(mined) \in Nat
    BY <2>1, EmptySeq, MinedCalls DEF AtRest, ChainOrder
  <2>3. CASE needed = 1
    <3>1. doc.requestid
      BY <2>1, <2>2 DEF RequestComes
    <3>2. QED
      BY <2>1, <2>3, <3>1 DEF ConfirmComing
  <2>4. CASE needed # 1
    <3>1. IsFiniteSet(Owners) /\ Cardinality(Owners) \in Nat /\ needed \in Nat /\ needed > 1
      BY <2>1, <2>4, MultisigTxAssumption, FS_CardinalityType DEF TypeOK
    <3>2. ~(G \subseteq {Submitter})
      <4>1. IsFiniteSet({Submitter}) /\ Cardinality({Submitter}) = 1
        BY FS_Singleton
      <4>2. G \subseteq {Submitter} => Cardinality(G) <= 1 /\ Cardinality(G) \in Nat
        BY <4>1, FS_Subset, FS_CardinalityType
      <4>3. QED
        BY <3>1, <4>2
    <3>3. HaveCalled(G, Len(mined))
      BY <2>1 DEF HaveCalled, ChainOrder
    <3>4. PICK n \in 1..Len(mined) : HaveCalled(G, n) /\ mined[n].by \in G /\ ~mined[n].revoke
      BY <2>1, <3>2, <3>3, LastCaller
    <3>5. Confirms(n)
      <4>1. n = 1 => G \subseteq {Submitter}
        BY <2>1, <2>2, <3>4 DEF HaveCalled, ChainOrder
      <4>2. mined[n].by = Submitter => n = 1
        BY <2>1, <2>2, <3>4 DEF ChainOrder
      <4>3. QED
        BY <3>2, <3>4, <4>1, <4>2 DEF Confirms
    <3>6. standing \cap Before(n) = G
      <4>1. standing \subseteq Owners
        BY <2>1 DEF TypeOK
      <4>2. QED
        BY <3>4, <4>1 DEF Before, HaveCalled
    <3>7. QED
      BY <2>1, <2>2, <2>4, <3>4, <3>5, <3>6 DEF ConfirmComing
  <2>5. QED
    BY <2>3, <2>4
<1>2. QED
  BY MarksInvariant, <1>1, PTL

=============================================================================
