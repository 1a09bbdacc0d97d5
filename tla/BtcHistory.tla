----------------------------- MODULE BtcHistory -----------------------------
(***************************************************************************)
(* The history of one BTC transaction of one user: saveMultyTransaction of *)
(* btc/utils.go, called by the NewTx stream and by the resync stream of    *)
(* btc/handlers.go, each read by a goroutine of its own; the rejection     *)
(* check of every new block; and the DeleteHistory of a resync.            *)
(*                                                                         *)
(* The node reports the transaction for each of the user's addresses that  *)
(* take part in it, when it enters the mempool (height -1), when a block   *)
(* has it and when it is confirmed.  A stage stands for the status,        *)
(* height, confirmations and block time stored together.  Amounts, rates   *)
(* and the indices of addresses are left out.                              *)
(***************************************************************************)
EXTENDS Naturals, Sequences, FiniteSets, Functions

CONSTANTS Ins,         \* the user's addresses among the inputs, in order
          Outs,        \* and among the outputs
          WalletOf,    \* the wallet of each address
          Times,       \* values of the mempool time
          MaxQueue,    \* bound on the reports that wait in the NewTx stream
          MaxResyncs   \* bound on the resyncs a user asks for

Addrs == Range(Ins) \cup Range(Outs)

ASSUME BtcHistoryAssumption ==
    /\ Addrs # {}
    /\ MaxQueue \in Nat /\ MaxResyncs \in Nat

VARIABLES
    net,        \* the network whose node and collections these are
    chain,      \* how far the transaction has come
    sent,       \* <<address, stage>> the node has reported on NewTx
    queue,      \* reports in each stream, oldest first
    at,         \* control point of each goroutine in saveMultyTransaction
    docs,       \* its documents, in the order of insertion
    resyncs,    \* resyncs so far
    overtaken,  \* history: goroutines past the time check when a document with
                \* the time of their report was inserted
    excused     \* history: addresses with a report that was dropped as doubled,
                \* came late or was inserted twice, or with a resync the node had
                \* no answer for

vars == <<net, chain, sent, queue, at, docs, resyncs, overtaken, excused>>

Streams == {"new", "resync"}
Stages  == {"mempool", "block", "confirmed"}
Report  == [addr : Addrs, stage : Stages, time : Times]
Doc     == [addr : Addrs, stage : Stages \cup {"rejected"}, time : Times]

Rank(s) == CASE s = "none" -> 0 [] s = "mempool" -> 1 [] s = "block" -> 2
             [] s = "confirmed" -> 3 [] s = "rejected" -> 4

Current(t) == Head(queue[t])
Matching(a) == {i \in DOMAIN docs : docs[i].addr = a}
First(S) == CHOOSE i \in S : \A j \in S : i <= j

\* The documents with the numbers in S are removed; the others keep their order.
Remove(S) ==
    LET kept == DOMAIN docs \ S IN
    \E n \in 0..Len(docs) : \E f \in [1..n -> kept] :
        /\ Range(f) = kept
        /\ \A i, j \in 1..n : i < j => f[i] < f[j]
        /\ docs' = [i \in 1..n |-> docs[f[i]]]

\* generatedTxDataToStore exchanges the two lists: a document's walletsoutput
\* has the wallets of the inputs.
WalletsOutput == {WalletOf[a] : a \in Range(Ins)}

\* A document of the transaction with this mempool time, whose walletsoutput
\* has the first wallet of either list.
Doubled(time) ==
    /\ \E i \in DOMAIN docs : docs[i].time = time
    /\ \/ Outs # <<>> /\ WalletOf[Head(Outs)] \in WalletsOutput
       \/ Ins # <<>>

\* A bug this code could have had: the goroutine goes on with a report it has saved.
FinishLate(t) ==
    /\ queue' = [queue EXCEPT ![t] = Tail(@)]
    /\ UNCHANGED at
    /\ overtaken' = overtaken \ {t}

\* The goroutine is done with its report.
Finish(t) ==
    /\ queue' = [queue EXCEPT ![t] = Tail(@)]
    /\ at' = [at EXCEPT ![t] = "next"]
    /\ overtaken' = overtaken \ {t}

Init ==
    /\ net \in {"Main", "Test"}
    /\ chain     = "none"
    /\ sent      = {}
    /\ queue     = [t \in Streams |-> <<>>]
    /\ at        = [t \in Streams |-> "next"]
    /\ docs      = <<>>
    /\ resyncs   = 0
    /\ overtaken = {}
    /\ excused   = {}

-----------------------------------------------------------------------------
(* Faulty variants of the actions below.  Each is a bug this code could      *)
(* have had; a run with the variant in place must break a property.          *)

\* The check is for documents that are not doubled.
CheckNothing(t) ==
    /\ at[t] = "next" /\ queue[t] # <<>>
    /\ at' = [at EXCEPT ![t] = "find"]
    /\ UNCHANGED <<net, chain, sent, queue, docs, resyncs, overtaken, excused>>

\* The update leaves the status out.
UpdateNothing(t) ==
    /\ at[t] = "update"
    /\ Finish(t)
    /\ UNCHANGED <<net, chain, sent, docs, resyncs, excused>>

-----------------------------------------------------------------------------
(* The node, a service outside this repository.  Mempool and blocks are      *)
(* watched separately: a report of the mempool may come after the block's.   *)

Advance ==
    /\ \/ chain = "none"    /\ chain' = "mempool"
       \/ chain = "mempool" /\ chain' \in {"block", "rejected"}
       \/ chain = "block"   /\ chain' \in {"confirmed", "rejected"}
    /\ UNCHANGED <<net, sent, queue, at, docs, resyncs, overtaken, excused>>

NodeSends(a, s) ==
    /\ Rank(s) <= Rank(chain) /\ <<a, s>> \notin sent
    /\ chain # "rejected" /\ Len(queue["new"]) < MaxQueue
    /\ s = "confirmed" => <<a, "block">> \in sent
    /\ sent' = sent \cup {<<a, s>>}
    /\ \E time \in Times :
         queue' = [queue EXCEPT !["new"] = Append(@, [addr |-> a, stage |-> s, time |-> time])]
    /\ UNCHANGED <<net, chain, at, docs, resyncs, overtaken, excused>>

\* resyncWallet drops the history of an address, every document in the test
\* network and one in the main network, and asks the node for it.  The answer
\* has what the transaction has come to, and nothing of one that is rejected.
Resync(a) ==
    /\ resyncs < MaxResyncs
    /\ resyncs' = resyncs + 1
    /\ \/ net = "Test" /\ Remove(Matching(a))
       \/ net = "Main" /\ Remove({i \in Matching(a) : i = First(Matching(a))})
    /\ \/ /\ chain \in Stages
          /\ \E time \in Times :
               queue' = [queue EXCEPT !["resync"] =
                           Append(@, [addr |-> a, stage |-> chain, time |-> time])]
          /\ UNCHANGED excused
       \/ /\ chain \notin Stages
          /\ excused' = excused \cup {a}
          /\ UNCHANGED queue
    /\ UNCHANGED <<net, chain, sent, at, overtaken>>

-----------------------------------------------------------------------------
(* saveMultyTransaction.  The first check, for a report with height -1, asks  *)
(* for a document with One(multyTX), no pointer: decoding a document that is  *)
(* found fails, so the report never counts as late and the check has no       *)
(* effect.                                                                    *)

\* The check of the mempool time, by user, transaction and wallet.
CheckDoubled(t) ==
    /\ at[t] = "next" /\ queue[t] # <<>>
    /\ \/ /\ Doubled(Current(t).time)
          /\ Finish(t)
          /\ excused' = excused \cup {Current(t).addr}
       \/ /\ ~Doubled(Current(t).time)
          /\ at' = [at EXCEPT ![t] = "find"]
          /\ UNCHANGED <<queue, overtaken, excused>>
    /\ UNCHANGED <<net, chain, sent, docs, resyncs>>

\* The document of the address.
FindDoc(t) ==
    /\ at[t] = "find"
    /\ at' = [at EXCEPT ![t] = IF Matching(Current(t).addr) = {} THEN "insert" ELSE "update"]
    /\ UNCHANGED <<net, chain, sent, queue, docs, resyncs, overtaken, excused>>

InsertDoc(t) ==
    /\ at[t] = "insert"
    /\ docs' = Append(docs, Current(t))
    /\ excused' = IF Matching(Current(t).addr) # {} THEN excused \cup {Current(t).addr} ELSE excused
    /\ queue' = [queue EXCEPT ![t] = Tail(@)]
    /\ at' = [at EXCEPT ![t] = "next"]
    /\ overtaken' = (overtaken \cup {r \in Streams : at[r] # "next" /\ Current(r).time = Current(t).time})
                      \ {t}
    /\ UNCHANGED <<net, chain, sent, resyncs>>

\* All but the mempool time, in the first document that matches; none may be
\* left.
UpdateDoc(t) ==
    /\ at[t] = "update"
    /\ LET m == Current(t)
           i == First(Matching(m.addr)) IN
       \/ /\ Matching(m.addr) # {}
          /\ docs' = [docs EXCEPT ![i].stage = m.stage]
          /\ excused' = IF Rank(m.stage) < Rank(docs[i].stage) THEN excused \cup {m.addr} ELSE excused
       \/ /\ Matching(m.addr) = {}
          /\ excused' = excused \cup {m.addr}
          /\ UNCHANGED docs
    /\ Finish(t)
    /\ UNCHANGED <<net, chain, sent, resyncs>>

\* A MultyTX has its hash in the field txhash.
HashField(d) == "absent"

\* The rejection check of a new block: the node is asked about the field hash
\* of the documents, and those with a hash it calls rejected are rewritten.
RejectTxs ==
    /\ chain = "rejected"
    /\ LET asked    == {HashField(docs[i]) : i \in DOMAIN docs}
           rejected == asked \cap {"hash"} IN
       docs' = [i \in DOMAIN docs |-> IF HashField(docs[i]) \in rejected
                                      THEN [docs[i] EXCEPT !.stage = "rejected"]
                                      ELSE docs[i]]
    /\ UNCHANGED <<net, chain, sent, queue, at, resyncs, overtaken, excused>>

-----------------------------------------------------------------------------
SaveStep(t) == CheckDoubled(t) \/ FindDoc(t) \/ InsertDoc(t) \/ UpdateDoc(t)

Next ==
    \/ Advance
    \/ \E a \in Addrs, s \in Stages : NodeSends(a, s)
    \/ \E a \in Addrs : Resync(a)
    \/ \E t \in Streams : SaveStep(t)
    \/ RejectTxs

Spec == Init /\ [][Next]_vars

\* The goroutines run and blocks keep coming.
FairSpec == Spec /\ WF_vars(RejectTxs) /\ \A t \in Streams : WF_vars(SaveStep(t))

-----------------------------------------------------------------------------
\* Every variable holds a value of its kind, and a goroutine in
\* saveMultyTransaction has the report it saves.
TypeOK ==
    /\ net \in {"Main", "Test"}
    /\ chain \in {"none", "rejected"} \cup Stages
    /\ sent \in SUBSET (Addrs \X Stages)
    /\ queue \in [Streams -> Seq(Report)]
    /\ at \in [Streams -> {"next", "find", "insert", "update"}]
    /\ docs \in Seq(Doc)
    /\ resyncs \in 0..MaxResyncs
    /\ overtaken \in SUBSET Streams /\ excused \in SUBSET Addrs
    /\ \A t \in Streams : at[t] # "next" => queue[t] # <<>>

\* "Doubling txs fix on a asynchronous err": for a transaction with an input of
\* the user, a second document with the mempool time of another is inserted only
\* by a goroutine that had passed the check before.
DoubledOnlyByRace ==
    [][Ins # <<>> =>
         \A i \in DOMAIN docs' \ DOMAIN docs :
            (\E j \in DOMAIN docs : docs[j].time = docs'[i].time)
              => \E t \in overtaken : at[t] = "insert" /\ Current(t).addr = docs'[i].addr]_vars

\* When all reports are saved, an address has one document, with the last stage
\* reported for it, unless a report was dropped as doubled, came late or was
\* inserted twice, or the node had nothing to answer a resync with.  Even then
\* it has no more than the two documents both goroutines may insert, having
\* found none: a main network's resync drops one of them only.
RestShowsStage ==
    (\A t \in Streams : queue[t] = <<>>) =>
        \A a \in Addrs :
            /\ Cardinality(Matching(a)) <= 2
            /\ (a \notin excused /\ \E s \in Stages : <<a, s>> \in sent) =>
                 \E i \in Matching(a) :
                    /\ Matching(a) = {i}
                    /\ \A s \in Stages : <<a, s>> \in sent => Rank(s) <= Rank(docs[i].stage)

\* "Set status to rejected in db": the history of a rejected transaction shows
\* it, once there is something to show.
RejectedShown ==
    (chain = "rejected" /\ docs # <<>>)
        ~> (docs = <<>> \/ \A i \in DOMAIN docs : docs[i].stage = "rejected")
=============================================================================
