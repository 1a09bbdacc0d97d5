--------------------------- MODULE HistoryProofs ---------------------------
(***************************************************************************)
(* What the histories of transactions guarantee for any keys or addresses, *)
(* bounds and resyncs.  HistoryInv is the inductive invariant of           *)
(* EthHistory: it follows each report from the node to its document, and   *)
(* the check of the last block from its query to its updates.  BtcInv, in  *)
(* the second half, is that of BtcHistory.                                 *)
(***************************************************************************)
EXTENDS EthHistory, TLAPS, SequenceTheorems, FiniteSetTheorems

\* The reports that are not saved yet.
InFlight == pending \cup (IF save = Idle THEN {} ELSE {save.m})

\* The latest report tells of the chain as it is.
ReportsCurrent ==
    \A m \in InFlight :
        /\ m.version <= version
        /\ m.version = version /\ chain \in Stages => m.stage = chain /\ m.height = height

\* What is reported, asked for again or answered has been told.
ReportsTold ==
    /\ chain # "none" => \A p \in DOMAIN keyOf : <<keyOf[p], chain>> \in told
    /\ \A m \in InFlight : <<keyOf[m.party], m.stage>> \in told
    /\ check.at \in {"to", "from"} => \A p \in DOMAIN keyOf : <<keyOf[p], "rejected">> \in told

\* A party's document is made, or a report for it is on its way.
DocsMade ==
    chain # "none" => \A p \in DOMAIN keyOf :
        docs[keyOf[p]] # NoDoc \/ \E m \in InFlight : m.party = p

\* The latest report is on its way, or was the last to set the document.
LatestKept ==
    chain \in Stages => \A p \in DOMAIN keyOf :
        \/ \E m \in InFlight : m.party = p /\ m.version = version
        \/ keyOf[p] \in stale
        \/ docs[keyOf[p]].stage = chain /\ docs[keyOf[p]].height = height

\* A document belongs to the party it shows, and shows what was told.
DocsBelong ==
    \A k \in Keys : docs[k] # NoDoc =>
        /\ docs[k].dir \in DOMAIN keyOf /\ keyOf[docs[k].dir] = k
        /\ <<k, docs[k].stage>> \in told

LastBlock == blocks # <<>> => blocks[Len(blocks)] = head

Settled == \A k \in Keys :
    docs[k] # NoDoc /\ MayBeReplaced(docs[k]) => docs[k].stage = "rejected"

\* While nothing has changed since the query of the last block, the documents it
\* has not dealt with are those its next steps are about.
BlockChecked ==
    ~dirty /\ chain = "rejected" /\ blocks = <<>> =>
        /\ check = Idle => Settled
        /\ check.at = "ask" => check.asked \/ Settled
        /\ check.at = "from" => \A k \in Keys : docs[k].dir = "to" => docs[k].stage = "rejected"

HistoryInv ==
    /\ TypeOK /\ ReportsCurrent /\ ReportsTold /\ DocsMade /\ LatestKept
    /\ DocsBelong /\ LastBlock /\ BlockChecked

-----------------------------------------------------------------------------
\* Nothing is told, shown or asked about at first.
LEMMA InitHistory == Init => HistoryInv
<1> SUFFICES ASSUME Init PROVE HistoryInv
  OBVIOUS
<1> USE EthHistoryAssumption DEF Init, Idle
<1>1. TypeOK
  BY DEF TypeOK, Stages
<1>2. ReportsCurrent /\ ReportsTold /\ DocsMade /\ LatestKept
  BY DEF ReportsCurrent, ReportsTold, DocsMade, LatestKept, InFlight, Stages
<1>3. DocsBelong /\ LastBlock /\ BlockChecked
  BY DEF DocsBelong, LastBlock, BlockChecked
<1>4. QED
  BY <1>1, <1>2, <1>3 DEF HistoryInv

\* A queue with nothing after its head.
LEMMA HeadIsLast ==
    ASSUME NEW S, NEW s \in Seq(S), s # <<>>, Tail(s) = <<>>
    PROVE  Head(s) = s[Len(s)]
<1>1. Len(Tail(s)) = 0
  BY HeadTailProperties, EmptySeq
<1>2. Len(Tail(s)) = Len(s) - 1 /\ Len(s) \in Nat
  BY HeadTailProperties, LenProperties
<1>3. Len(s) = 1
  BY <1>1, <1>2
<1>4. QED
  BY <1>3

\* The parties are known by the keys they are kept under.
LEMMA PartiesKnown ==
    ASSUME TypeOK
    PROVE  /\ DOMAIN keyOf \subseteq Parties
           /\ \A p \in DOMAIN keyOf : keyOf[p] \in Keys
  BY DEF TypeOK

\* What the node sends are reports for the parties.
LEMMA ReportsTyped ==
    ASSUME TypeOK, NEW s \in Stages, NEW h \in 0..MaxHead, NEW v \in Nat
    PROVE  Reports(s, h, v) \subseteq {m \in Report : m.party \in DOMAIN keyOf}
  BY PartiesKnown DEF Reports, Report

\* A goroutine that saves has a report in hand.
LEMMA SaveTyped ==
    ASSUME TypeOK, save # Idle
    PROVE  save.m \in Report /\ save.m.party \in DOMAIN keyOf
  BY DEF TypeOK

\* The node's announcement keeps the types of what it changes.
LEMMA AnnounceTyped ==
    ASSUME TypeOK, NEW s \in Stages, NEW h \in 0..MaxHead, Announce(s, h), UNCHANGED keyOf
    PROVE  /\ chain' \in Stages /\ height' \in 0..MaxHead /\ version' \in Nat
           /\ pending' \subseteq {m \in Report : m.party \in DOMAIN keyOf'}
           /\ told' \subseteq Keys \X (Stages \cup {"rejected"})
           /\ dirty' \in BOOLEAN
<1>1. version' \in Nat
  BY DEF TypeOK, Announce
<1>2. Reports(s, h, version') \subseteq {m \in Report : m.party \in DOMAIN keyOf}
  BY <1>1, ReportsTyped
<1>3. pending' \subseteq {m \in Report : m.party \in DOMAIN keyOf'}
  BY <1>2 DEF TypeOK, Announce
<1>4. told' \subseteq Keys \X (Stages \cup {"rejected"})
  BY PartiesKnown DEF TypeOK, Announce
<1>5. QED
  BY <1>1, <1>3, <1>4 DEF Announce

\* An announcement sends every party a report of the latest version.
LEMMA AnnounceReaches ==
    ASSUME TypeOK, NEW s, NEW h, Announce(s, h), UNCHANGED <<keyOf, save>>
    PROVE  \A p \in DOMAIN keyOf' : \E m \in InFlight' : m.party = p /\ m.version = version'
<1> SUFFICES ASSUME NEW p \in DOMAIN keyOf
             PROVE  \E m \in InFlight' : m.party = p /\ m.version = version'
  BY DEF Announce
<1> DEFINE m == [party |-> p, stage |-> s, height |-> h, version |-> version']
<1>1. m \in InFlight'
  BY DEF InFlight, Announce, Reports
<1>2. QED
  BY <1>1

\* An update of the documents of a direction leaves documents.
LEMMA RejectedTyped ==
    ASSUME TypeOK, NEW dir \in Parties
    PROVE  /\ Rejected(dir) \in [Keys -> Doc \cup {NoDoc}]
           /\ \A k \in Keys : /\ docs[k].dir = dir => /\ docs[k] # NoDoc
                                                      /\ Rejected(dir)[k].stage = "rejected"
                                                      /\ Rejected(dir)[k].dir = dir
                                                      /\ Rejected(dir)[k].height = docs[k].height
                              /\ docs[k].dir # dir => Rejected(dir)[k] = docs[k]
<1> SUFFICES ASSUME NEW k \in Keys
             PROVE  /\ Rejected(dir)[k] \in Doc \cup {NoDoc}
                    /\ docs[k].dir = dir => /\ docs[k] # NoDoc
                                            /\ Rejected(dir)[k].stage = "rejected"
                                            /\ Rejected(dir)[k].dir = dir
                                            /\ Rejected(dir)[k].height = docs[k].height
                    /\ docs[k].dir # dir => Rejected(dir)[k] = docs[k]
  BY DEF Rejected
<1>1. docs[k] \in Doc \cup {NoDoc}
  BY DEF TypeOK
<1>2. CASE docs[k].dir = dir
  BY <1>1, <1>2 DEF Rejected, Doc, NoDoc, Parties
<1>3. CASE docs[k].dir # dir
  BY <1>1, <1>3 DEF Rejected
<1>4. QED
  BY <1>2, <1>3

\* The first report of every party is sent.
LEMMA BroadcastKeeps ==
    ASSUME HistoryInv, Broadcast
    PROVE  HistoryInv'
<1> USE EthHistoryAssumption DEF HistoryInv, Idle, node, Broadcast
<1>1. TypeOK'
  BY AnnounceTyped, 0 \in 0..MaxHead, "mempool" \in Stages DEF TypeOK, Stages
<1>2. ReportsCurrent' /\ ReportsTold'
  BY DEF TypeOK, ReportsCurrent, ReportsTold, InFlight, Stages, Report, Reports, Announce
<1>3. DocsMade' /\ LatestKept'
  BY AnnounceReaches DEF DocsMade, LatestKept, Announce
<1>4. DocsBelong' /\ LastBlock'
  BY DEF TypeOK, DocsBelong, LastBlock, NoDoc, Announce
<1>5. BlockChecked'
  BY DEF BlockChecked, Announce
<1>6. QED
  BY <1>1, <1>2, <1>3, <1>4, <1>5

\* A block is announced.
LEMMA EmptyBlockKeeps ==
    ASSUME HistoryInv, EmptyBlock
    PROVE  HistoryInv'
<1> USE EthHistoryAssumption DEF HistoryInv, Idle, node, EmptyBlock, NextBlock
<1>1. TypeOK'
  BY DEF TypeOK, Stages
<1>2. ReportsCurrent' /\ ReportsTold'
  BY DEF TypeOK, ReportsCurrent, ReportsTold, InFlight, Stages, Report
<1>3. DocsMade' /\ LatestKept'
  BY DEF TypeOK, DocsMade, LatestKept, InFlight, Stages, Report
<1>4. DocsBelong' /\ LastBlock'
  BY DEF TypeOK, DocsBelong, LastBlock, NoDoc
<1>5. BlockChecked'
  BY DEF TypeOK, BlockChecked, Settled, MayBeReplaced, Stages
<1>6. QED
  BY <1>1, <1>2, <1>3, <1>4, <1>5

\* A block is announced, and what it says of the transaction reported.
LEMMA MineKeeps ==
    ASSUME HistoryInv, Mine
    PROVE  HistoryInv'
<1> USE EthHistoryAssumption DEF HistoryInv, Idle, node, Mine, NextBlock
<1>1. TypeOK'
  
  <2>1. CASE Announce("block", head')
    BY <2>1, AnnounceTyped, head + 1 \in 0..MaxHead DEF TypeOK, Stages
  <2>2. CASE chain = "block" /\ Announce("confirmed", height)
    BY <2>2, AnnounceTyped, height \in 0..MaxHead DEF TypeOK, Stages
  <2>3. QED
    BY <2>1, <2>2 DEF Mine
<1>2. ReportsCurrent' /\ ReportsTold'
  BY DEF TypeOK, ReportsCurrent, ReportsTold, InFlight, Stages, Report, Reports, Announce
<1>3. DocsMade' /\ LatestKept'
  <2>1. CASE Announce("block", head')
    BY <2>1, AnnounceReaches DEF DocsMade, LatestKept
  <2>2. CASE chain = "block" /\ Announce("confirmed", height)
    BY <2>2, AnnounceReaches DEF DocsMade, LatestKept
  <2>3. QED
    BY <2>1, <2>2 DEF Mine
<1>4. DocsBelong' /\ LastBlock'
  BY DEF TypeOK, DocsBelong, LastBlock, NoDoc, Announce
<1>5. BlockChecked'
  BY DEF BlockChecked, Announce
<1>6. QED
  BY <1>1, <1>2, <1>3, <1>4, <1>5

\* A block is announced; nothing is reported.
LEMMA RejectKeeps ==
    ASSUME HistoryInv, Reject
    PROVE  HistoryInv'
<1> USE EthHistoryAssumption DEF HistoryInv, Idle, node, Reject, NextBlock
<1>1. TypeOK'
  
  <2>1. told' \subseteq Keys \X (Stages \cup {"rejected"})
    BY PartiesKnown DEF TypeOK
  <2>2. QED
    BY <2>1 DEF TypeOK, Stages
<1>2. ReportsCurrent' /\ ReportsTold'
  BY DEF TypeOK, ReportsCurrent, ReportsTold, InFlight, Stages, Report
<1>3. DocsMade' /\ LatestKept'
  BY DEF TypeOK, DocsMade, LatestKept, InFlight, Stages, Report
<1>4. DocsBelong' /\ LastBlock'
  BY DEF TypeOK, DocsBelong, LastBlock, NoDoc
<1>5. BlockChecked'
  BY DEF TypeOK, BlockChecked, Settled, MayBeReplaced, Stages
<1>6. QED
  BY <1>1, <1>2, <1>3, <1>4, <1>5

\* What the chain is at is reported again.
LEMMA ResyncKeeps ==
    ASSUME HistoryInv, Resync
    PROVE  HistoryInv'
<1> USE EthHistoryAssumption DEF HistoryInv, Idle, node, Resync
<1>1. TypeOK'
  
  <2>1. Reports(chain, height, version) \subseteq {m \in Report : m.party \in DOMAIN keyOf}
    BY ReportsTyped DEF TypeOK
  <2>2. QED
    BY <2>1 DEF TypeOK
<1>2. ReportsCurrent' /\ ReportsTold'
  BY DEF TypeOK, ReportsCurrent, ReportsTold, InFlight, Stages, Report, Reports
<1>3. DocsMade' /\ LatestKept'
  BY DEF TypeOK, DocsMade, LatestKept, InFlight, Stages, Report
<1>4. DocsBelong' /\ LastBlock'
  BY DEF TypeOK, DocsBelong, LastBlock, NoDoc
<1>5. BlockChecked'
  BY DEF TypeOK, BlockChecked, Settled, MayBeReplaced, Stages
<1>6. QED
  BY <1>1, <1>2, <1>3, <1>4, <1>5

\* A report is taken up.
LEMMA FindTxKeeps ==
    ASSUME HistoryInv, NEW m \in pending, FindTx(m)
    PROVE  HistoryInv'
<1> USE EthHistoryAssumption DEF HistoryInv, Idle, node, FindTx
<1>1. TypeOK'
  BY DEF TypeOK, Stages, Parties, Report
<1>2. ReportsCurrent' /\ ReportsTold'
  BY DEF TypeOK, ReportsCurrent, ReportsTold, InFlight, Stages, Report
<1>3. DocsMade' /\ LatestKept'
  BY DEF TypeOK, DocsMade, LatestKept, InFlight, Stages, Report
<1>4. DocsBelong' /\ LastBlock'
  BY DEF TypeOK, DocsBelong, LastBlock, NoDoc
<1>5. BlockChecked'
  BY DEF TypeOK, BlockChecked, Settled, MayBeReplaced, Stages
<1>6. QED
  BY <1>1, <1>2, <1>3, <1>4, <1>5

\* The report in hand becomes what its document shows.
LEMMA SavedKeeps ==
    ASSUME HistoryInv, save # Idle, Saved(save.m),
           docs' = [docs EXCEPT ![Key(save.m)] =
                      [dir |-> save.m.party, stage |-> save.m.stage, height |-> save.m.height]]
    PROVE  HistoryInv'
<1> USE DEF HistoryInv, Idle, node, Saved
<1> DEFINE m == save.m
           d == [dir |-> m.party, stage |-> m.stage, height |-> m.height]
<1>a. m \in Report /\ m.party \in DOMAIN keyOf /\ Key(m) \in Keys /\ m \in InFlight
  BY SaveTyped, PartiesKnown DEF Key, InFlight
<1>b. d \in Doc /\ d # NoDoc
  BY <1>a DEF Report, Doc, NoDoc, Stages
<1>c. docs'[Key(m)] = d /\ \A k \in Keys \ {Key(m)} : docs'[k] = docs[k]
  BY <1>a DEF TypeOK
<1>d. InFlight' = pending /\ InFlight = pending \cup {m}
  BY DEF InFlight
<1>1. TypeOK'
  <2>1. docs' \in [Keys -> Doc \cup {NoDoc}]
    BY <1>a, <1>b DEF TypeOK
  <2>2. stale' \subseteq Keys
    BY <1>a DEF TypeOK
  <2>3. QED
    BY <2>1, <2>2 DEF TypeOK
<1>2. ReportsCurrent' /\ ReportsTold'
  BY <1>d DEF ReportsCurrent, ReportsTold
<1>3. DocsMade'
  BY <1>b, <1>c, <1>d, PartiesKnown DEF DocsMade, Key
<1>4. LatestKept'
  <2> SUFFICES ASSUME chain \in Stages, NEW p \in DOMAIN keyOf
               PROVE  \/ \E r \in pending : r.party = p /\ r.version = version
                      \/ keyOf[p] \in stale'
                      \/ docs'[keyOf[p]].stage = chain /\ docs'[keyOf[p]].height = height
    BY <1>d DEF LatestKept
  <2>1. CASE keyOf[p] # Key(m)
    BY <2>1, <1>c, <1>d, PartiesKnown DEF LatestKept, Key
  <2>2. CASE keyOf[p] = Key(m) /\ m.version < version
    BY <2>2
  <2>3. CASE keyOf[p] = Key(m) /\ m.version = version
    BY <2>3, <1>a, <1>c DEF ReportsCurrent
  <2>4. QED
    BY <2>1, <2>2, <2>3, <1>a DEF ReportsCurrent, TypeOK, Report
<1>5. DocsBelong' /\ LastBlock'
  BY <1>a, <1>c DEF DocsBelong, LastBlock, ReportsTold, Key
<1>6. BlockChecked'
  BY DEF BlockChecked
<1>7. QED
  BY <1>1, <1>2, <1>3, <1>4, <1>5, <1>6

\* The check of a block begins.
LEMMA QueryTxsKeeps ==
    ASSUME HistoryInv, QueryTxs
    PROVE  HistoryInv'
<1> USE EthHistoryAssumption DEF HistoryInv, Idle, node, QueryTxs
<1>1. TypeOK'
  
  <2>1. blocks' \in Seq(1..MaxHead)
    BY DEF TypeOK
  <2>2. QED
    BY <2>1 DEF TypeOK
<1>2. ReportsCurrent' /\ ReportsTold'
  BY DEF TypeOK, ReportsCurrent, ReportsTold, InFlight, Stages, Report
<1>3. DocsMade' /\ LatestKept'
  BY DEF TypeOK, DocsMade, LatestKept, InFlight, Stages, Report
<1>4. DocsBelong' /\ LastBlock'
  BY DEF TypeOK, DocsBelong, LastBlock
<1>5. BlockChecked'
  
  <2> SUFFICES ASSUME blocks' = <<>>, ~check'.asked
               PROVE  Settled'
    BY DEF BlockChecked
  <2>1. Head(blocks) = head
    <3>1. blocks \in Seq(1..MaxHead) /\ blocks # <<>>
      BY DEF TypeOK
    <3>2. Tail(blocks) = <<>>
      OBVIOUS
    <3>3. Head(blocks) = blocks[Len(blocks)]
      BY <3>1, <3>2, HeadIsLast
    <3>4. QED
      BY <3>1, <3>3 DEF LastBlock
  <2>2. \A k \in Keys : ~Asked(docs[k], head)
    BY <2>1
  <2>3. \A k \in Keys : docs[k] # NoDoc => docs[k] \in Doc
    BY DEF TypeOK
  <2>4. QED
    BY <2>2, <2>3 DEF TypeOK, Settled, MayBeReplaced, Asked, Doc, Stages
<1>6. QED
  BY <1>1, <1>2, <1>3, <1>4, <1>5

\* The node answers.
LEMMA CheckRejectTxsKeeps ==
    ASSUME HistoryInv, CheckRejectTxs
    PROVE  HistoryInv'
<1> USE EthHistoryAssumption DEF HistoryInv, Idle, node, CheckRejectTxs
<1>1. TypeOK'
  <2>1. check' \in {Idle, [at |-> "to"]}
    OBVIOUS
  <2>2. dirty' \in BOOLEAN
    BY DEF TypeOK
  <2>3. QED
    BY <2>1, <2>2 DEF TypeOK
<1>2. ReportsCurrent' /\ ReportsTold'
  BY DEF TypeOK, ReportsCurrent, ReportsTold, InFlight, Stages, Report
<1>3. DocsMade' /\ LatestKept'
  BY DEF TypeOK, DocsMade, LatestKept, InFlight, Stages, Report
<1>4. DocsBelong' /\ LastBlock'
  BY DEF TypeOK, DocsBelong, LastBlock, NoDoc
<1>5. BlockChecked'
  BY DEF TypeOK, BlockChecked, Settled, MayBeReplaced, Stages
<1>6. QED
  BY <1>1, <1>2, <1>3, <1>4, <1>5

\* Incoming documents are rejected.
LEMMA RejectIncomingKeeps ==
    ASSUME HistoryInv, RejectIncoming
    PROVE  HistoryInv'
<1> USE EthHistoryAssumption DEF HistoryInv, Idle, node, RejectIncoming, RejectTxs
<1>1. TypeOK'
  
  <2>1. docs' \in [Keys -> Doc \cup {NoDoc}]
    BY RejectedTyped, "to" \in Parties DEF Parties
  <2>2. QED
    BY <2>1 DEF TypeOK
<1>2. ReportsCurrent' /\ ReportsTold'
  BY DEF TypeOK, ReportsCurrent, ReportsTold, InFlight, Stages, Report
<1>3. DocsMade' /\ LatestKept'
  
  <2>1. \A k \in Keys : docs[k] # NoDoc => docs'[k] # NoDoc
    BY RejectedTyped, "to" \in Parties DEF Parties, NoDoc
  <2>2. \A k \in Keys : docs'[k] = docs[k] \/ docs[k].dir = "to"
    BY RejectedTyped, "to" \in Parties DEF Parties
  <2>3. DocsMade'
    BY <2>1, PartiesKnown DEF DocsMade, InFlight
  <2>4. LatestKept'
    BY <2>2, PartiesKnown DEF LatestKept, InFlight, Stages
  <2>5. QED
    BY <2>3, <2>4
<1>4. DocsBelong' /\ LastBlock'
  
  <2>1. ASSUME NEW k \in Keys, docs'[k] # NoDoc
        PROVE  /\ docs'[k].dir \in DOMAIN keyOf /\ keyOf[docs'[k].dir] = k
               /\ <<k, docs'[k].stage>> \in told
    <3>1. CASE docs[k].dir = "to"
      <4>1. docs[k] # NoDoc /\ docs'[k].dir = "to" /\ docs'[k].stage = "rejected"
        BY <3>1, RejectedTyped, "to" \in Parties DEF Parties
      <4>2. "to" \in DOMAIN keyOf /\ keyOf["to"] = k
        BY <3>1, <4>1 DEF DocsBelong
      <4>3. <<keyOf["to"], "rejected">> \in told
        BY <4>2 DEF ReportsTold
      <4>4. QED
        BY <4>1, <4>2, <4>3
    <3>2. CASE docs[k].dir # "to"
      <4>1. docs'[k] = docs[k]
        BY <3>2, RejectedTyped, "to" \in Parties DEF Parties
      <4>2. QED
        BY <2>1, <4>1 DEF DocsBelong
    <3>3. QED
      BY <3>1, <3>2
  <2>2. QED
    BY <2>1 DEF DocsBelong, LastBlock
<1>5. BlockChecked'
  BY RejectedTyped, "to" \in Parties DEF Parties, BlockChecked, TypeOK
<1>6. QED
  BY <1>1, <1>2, <1>3, <1>4, <1>5

\* Outgoing documents are rejected.
LEMMA RejectOutgoingKeeps ==
    ASSUME HistoryInv, RejectOutgoing
    PROVE  HistoryInv'
<1> USE EthHistoryAssumption DEF HistoryInv, Idle, node, RejectOutgoing, RejectTxs
<1>1. TypeOK'
  
  <2>1. docs' \in [Keys -> Doc \cup {NoDoc}]
    BY RejectedTyped, "from" \in Parties DEF Parties
  <2>2. QED
    BY <2>1 DEF TypeOK
<1>2. ReportsCurrent' /\ ReportsTold'
  BY DEF TypeOK, ReportsCurrent, ReportsTold, InFlight, Stages, Report
<1>3. DocsMade' /\ LatestKept'
  
  <2>1. \A k \in Keys : docs[k] # NoDoc => docs'[k] # NoDoc
    BY RejectedTyped, "from" \in Parties DEF Parties, NoDoc
  <2>2. \A k \in Keys : docs'[k] = docs[k] \/ docs[k].dir = "from"
    BY RejectedTyped, "from" \in Parties DEF Parties
  <2>3. DocsMade'
    BY <2>1, PartiesKnown DEF DocsMade, InFlight
  <2>4. LatestKept'
    BY <2>2, PartiesKnown DEF LatestKept, InFlight, Stages
  <2>5. QED
    BY <2>3, <2>4
<1>4. DocsBelong' /\ LastBlock'
  
  <2>1. ASSUME NEW k \in Keys, docs'[k] # NoDoc
        PROVE  /\ docs'[k].dir \in DOMAIN keyOf /\ keyOf[docs'[k].dir] = k
               /\ <<k, docs'[k].stage>> \in told
    <3>1. CASE docs[k].dir = "from"
      <4>1. docs[k] # NoDoc /\ docs'[k].dir = "from" /\ docs'[k].stage = "rejected"
        BY <3>1, RejectedTyped, "from" \in Parties DEF Parties
      <4>2. "from" \in DOMAIN keyOf /\ keyOf["from"] = k
        BY <3>1, <4>1 DEF DocsBelong
      <4>3. <<keyOf["from"], "rejected">> \in told
        BY <4>2 DEF ReportsTold
      <4>4. QED
        BY <4>1, <4>2, <4>3
    <3>2. CASE docs[k].dir # "from"
      <4>1. docs'[k] = docs[k]
        BY <3>2, RejectedTyped, "from" \in Parties DEF Parties
      <4>2. QED
        BY <2>1, <4>1 DEF DocsBelong
    <3>3. QED
      BY <3>1, <3>2
  <2>2. QED
    BY <2>1 DEF DocsBelong, LastBlock
<1>5. BlockChecked'
  
  <2> SUFFICES ASSUME ~dirty, chain = "rejected", blocks = <<>>,
                      NEW k \in Keys, docs'[k] # NoDoc
               PROVE  docs'[k].stage = "rejected"
    BY DEF BlockChecked, Settled
  <2>1. docs[k].dir = "to" => docs[k].stage = "rejected"
    BY DEF BlockChecked
  <2>2. docs[k] # NoDoc => docs[k].dir \in {"from", "to"}
    BY DEF TypeOK, Doc, Parties
  <2>3. QED
    BY <2>1, <2>2, RejectedTyped, "from" \in Parties DEF Parties, NoDoc
<1>6. QED
  BY <1>1, <1>2, <1>3, <1>4, <1>5

-----------------------------------------------------------------------------
\* Every step of the handlers and of the node keeps the invariant.
LEMMA NextKeeps == HistoryInv /\ [Next]_vars => HistoryInv'
<1> SUFFICES ASSUME HistoryInv, [Next]_vars PROVE HistoryInv'
  OBVIOUS
<1>1. CASE Broadcast \/ EmptyBlock \/ Mine \/ Reject \/ Resync
  BY <1>1, BroadcastKeeps, EmptyBlockKeeps, MineKeeps, RejectKeeps, ResyncKeeps
<1>2. CASE \E m \in pending : FindTx(m)
  BY <1>2, FindTxKeeps
<1>3. CASE InsertTx \/ UpdateTx
  <2>1. save # Idle
    BY <1>3 DEF InsertTx, UpdateTx, Idle
  <2>2. QED
    BY <1>3, <2>1, SavedKeeps DEF InsertTx, UpdateTx
<1>4. CASE QueryTxs \/ CheckRejectTxs \/ RejectIncoming \/ RejectOutgoing
  BY <1>4, QueryTxsKeeps, CheckRejectTxsKeeps, RejectIncomingKeeps, RejectOutgoingKeeps
<1>5. CASE UNCHANGED vars
  BY <1>5 DEF vars, node, HistoryInv, TypeOK, ReportsCurrent, ReportsTold, DocsMade, LatestKept,
              DocsBelong, LastBlock, BlockChecked, Settled, MayBeReplaced, InFlight
<1>6. QED
  BY <1>1, <1>2, <1>3, <1>4, <1>5 DEF Next

\* The variables of the history keep their types, for any number of keys and
\* blocks.
THEOREM HistoryTyped == Spec => []TypeOK
<1>1. HistoryInv => TypeOK
  BY DEF HistoryInv
<1>2. QED
  BY <1>1, InitHistory, NextKeeps, PTL DEF Spec

\* At rest the history shows what has become of the transaction.
THEOREM HistoryShowsChain == Spec => []RestShowsChain
<1>1. ASSUME HistoryInv PROVE RestShowsChain
  <2> SUFFICES ASSUME AtRest, NEW p \in DOMAIN keyOf
               PROVE  LET d == docs[keyOf[p]] IN
                      /\ chain = "rejected" /\ MayBeReplaced(d) => d.stage = "rejected"
                      /\ chain \in Stages /\ keyOf[p] \notin stale
                           => d.stage = chain /\ d.height = height
                      /\ chain # "none" /\ ~SharedKey => d.dir = p
    BY DEF RestShowsChain
  <2> USE <1>1 DEF HistoryInv
  <2>1. InFlight = {} /\ keyOf[p] \in Keys
    BY PartiesKnown DEF AtRest, InFlight
  <2>2. chain # "none" => docs[keyOf[p]] # NoDoc
    BY <2>1 DEF DocsMade
  <2>3. chain = "rejected" /\ MayBeReplaced(docs[keyOf[p]]) => docs[keyOf[p]].stage = "rejected"
    BY <2>1, <2>2 DEF AtRest, BlockChecked, Settled
  <2>4. chain \in Stages /\ keyOf[p] \notin stale
          => docs[keyOf[p]].stage = chain /\ docs[keyOf[p]].height = height
    BY <2>1 DEF LatestKept
  <2>5. chain # "none" /\ ~SharedKey => docs[keyOf[p]].dir = p
    BY <2>1, <2>2 DEF DocsBelong, SharedKey
  <2>6. QED
    BY <2>3, <2>4, <2>5
<1>2. QED
  BY <1>1, InitHistory, NextKeeps, PTL DEF Spec

\* The handlers implement the abstract history: every step shows something the
\* node has told, or nothing new.
THEOREM HistoryImplementsBoard == Spec => ImplementsBoard
<1> DEFINE shown == [k \in Keys |-> docs[k].stage]
<1>1. Init => Board!Init
  BY DEF Init, Board!Init, Board!Nothing, NoDoc
<1>2. ASSUME HistoryInv, HistoryInv', [Next]_vars
      PROVE  [Board!Next]_<<told, shown>>
  <2> USE <1>2 DEF HistoryInv
  <2>1. told' \subseteq Keys \X (Stages \cup {"rejected"})
    BY DEF TypeOK, Stages
  <2>2. ASSUME told \subseteq told', UNCHANGED docs
        PROVE  Board!Tell
    BY <2>1, <2>2 DEF Board!Tell
  <2>3. CASE Broadcast \/ EmptyBlock \/ Mine \/ Reject \/ Resync
    BY <2>2, <2>3 DEF Board!Next, Broadcast, EmptyBlock, Mine, Reject, Resync, NextBlock, Announce
  <2>4. CASE \/ \E m \in pending : FindTx(m)
             \/ QueryTxs \/ CheckRejectTxs \/ UNCHANGED vars
    BY <2>4 DEF FindTx, QueryTxs, CheckRejectTxs, vars, node
  <2>5. CASE InsertTx \/ UpdateTx
    <3> DEFINE m == save.m
    <3>1. save # Idle /\ UNCHANGED told
      BY <2>5 DEF InsertTx, UpdateTx, Saved, Idle
    <3>2. m \in Report /\ Key(m) \in Keys /\ <<Key(m), m.stage>> \in told
      BY <3>1, SaveTyped, PartiesKnown DEF Key, ReportsTold, InFlight
    <3>3. shown' = [k \in Keys |-> IF k \in {Key(m)} THEN m.stage ELSE shown[k]]
      BY <2>5, <3>2 DEF InsertTx, UpdateTx, TypeOK
    <3>4. {Key(m)} \in SUBSET Keys /\ m.stage \in Stages \cup {"rejected"}
      BY <3>2 DEF Report
    <3>5. QED
      BY <3>1, <3>2, <3>3, <3>4 DEF Board!Next, Board!Show
  <2>6. ASSUME NEW dir \in Parties, docs' = Rejected(dir), UNCHANGED told, check.at \in {"to", "from"}
        PROVE  Board!Show
    <3> DEFINE K == {k \in Keys : docs[k].dir = dir}
    <3>1. shown' = [k \in Keys |-> IF k \in K THEN "rejected" ELSE shown[k]]
      BY <2>6, RejectedTyped
    <3>2. \A k \in K : <<k, "rejected">> \in told
      <4> SUFFICES ASSUME NEW k \in K PROVE <<k, "rejected">> \in told
        OBVIOUS
      <4>1. docs[k] # NoDoc /\ docs[k].dir = dir
        BY RejectedTyped
      <4>2. dir \in DOMAIN keyOf /\ keyOf[dir] = k
        BY <4>1 DEF DocsBelong
      <4>3. QED
        BY <2>6, <4>2 DEF ReportsTold
    <3>3. QED
      BY <2>6, <3>1, <3>2 DEF Board!Show
  <2>7. CASE RejectIncoming \/ RejectOutgoing
    BY <2>6, <2>7 DEF RejectIncoming, RejectOutgoing, RejectTxs, Board!Next, Parties
  <2>8. QED
    BY <1>2, <2>3, <2>4, <2>5, <2>7 DEF Next
<1>3. QED
  BY <1>1, <1>2, InitHistory, NextKeeps, PTL DEF Spec, ImplementsBoard, Board!Spec

-----------------------------------------------------------------------------
(* The history of a BTC transaction, a system of its own: the goroutines of   *)
(* btc/handlers.go and the collections of one BTC network.                    *)

CONSTANTS Ins, Outs, WalletOf, Times, MaxQueue
VARIABLES net, btcChain, sent, queue, at, btcDocs, btcResyncs, overtaken, excused

Btc == INSTANCE BtcHistory WITH chain <- btcChain, docs <- btcDocs, resyncs <- btcResyncs

\* The reports that are not saved yet.
BtcWaiting == {m \in Btc!Report : \E t \in Btc!Streams : \E n \in DOMAIN queue[t] : queue[t][n] = m}

\* The goroutines that have found no document of the address and will insert one.
BtcInserting(a) == {t \in Btc!Streams : at[t] = "insert" /\ Btc!Current(t).addr = a}

\* The node reports what has happened.
BtcSentReached ==
    btcChain # "rejected" => \A m \in sent : Btc!Rank(m[2]) <= Btc!Rank(btcChain)

\* A reported stage is shown or waits, and so does a resync's answer.
BtcShown ==
    \A a \in Btc!Addrs \ excused, s \in Btc!Stages : <<a, s>> \in sent =>
        \/ \E i \in Btc!Matching(a) : Btc!Rank(s) <= Btc!Rank(btcDocs[i].stage)
        \/ \E m \in BtcWaiting : m.addr = a /\ Btc!Rank(s) <= Btc!Rank(m.stage)

\* Only an insertion after another's makes a second document.
BtcOneDoc == \A a \in Btc!Addrs \ excused : \A i, j \in Btc!Matching(a) : i = j

\* The documents of an address and the insertions to come are no more than two.
BtcTwoDocs ==
    \A a \in Btc!Addrs :
        /\ \A i, j, k \in Btc!Matching(a) : i = j \/ j = k \/ i = k
        /\ BtcInserting(a) # {} => \A i, j \in Btc!Matching(a) : i = j
        /\ BtcInserting(a) = Btc!Streams => Btc!Matching(a) = {}

\* A document with the time of a report that has passed the check came later.
BtcOvertaken ==
    Ins # <<>> => \A t \in Btc!Streams :
        at[t] # "next" /\ (\E j \in DOMAIN btcDocs : btcDocs[j].time = Btc!Current(t).time)
            => t \in overtaken

BtcInv ==
    /\ Btc!TypeOK /\ BtcSentReached /\ BtcShown /\ BtcOneDoc /\ BtcTwoDocs /\ BtcOvertaken

-----------------------------------------------------------------------------
\* Nothing is reported at first.
LEMMA BtcInit == Btc!Init => BtcInv
<1> SUFFICES ASSUME Btc!Init PROVE BtcInv
  OBVIOUS
<1> USE DEF Btc!Init
<1>1. Btc!TypeOK
  BY EthHistoryAssumption DEF Btc!TypeOK, Btc!Streams, Btc!Stages
<1>2. BtcSentReached /\ BtcShown
  BY DEF BtcSentReached, BtcShown
<1>3. DOMAIN btcDocs = {}
  OBVIOUS
<1>4. BtcOneDoc /\ BtcTwoDocs /\ BtcOvertaken
  BY <1>3 DEF BtcOneDoc, BtcTwoDocs, BtcOvertaken, Btc!Matching
<1>5. QED
  BY <1>1, <1>2, <1>4 DEF BtcInv

\* Stages are ordered by numbers.
LEMMA BtcRanks ==
    /\ \A s \in Btc!Stages \cup {"none", "rejected"} : Btc!Rank(s) \in Nat
    /\ Btc!Rank("none") = 0 /\ Btc!Rank("mempool") = 1 /\ Btc!Rank("block") = 2
    /\ Btc!Rank("confirmed") = 3
  BY DEF Btc!Rank, Btc!Stages

\* A goroutine's report, and those after it.
LEMMA BtcCurrent ==
    ASSUME Btc!TypeOK, NEW t \in Btc!Streams, queue[t] # <<>>
    PROVE  /\ Btc!Current(t) \in Btc!Report
           /\ Btc!Current(t) \in BtcWaiting
           /\ Tail(queue[t]) \in Seq(Btc!Report)
           /\ \A n \in DOMAIN queue[t] :
                 \/ queue[t][n] = Btc!Current(t)
                 \/ \E k \in DOMAIN Tail(queue[t]) : Tail(queue[t])[k] = queue[t][n]
<1>1. queue[t] \in Seq(Btc!Report)
  BY DEF Btc!TypeOK
<1>2. Btc!Current(t) = queue[t][1] /\ 1 \in DOMAIN queue[t]
  BY <1>1 DEF Btc!Current
<1>3. Btc!Current(t) \in Btc!Report /\ Tail(queue[t]) \in Seq(Btc!Report)
  BY <1>1, <1>2
<1>4. ASSUME NEW n \in DOMAIN queue[t], n # 1
      PROVE  n - 1 \in DOMAIN Tail(queue[t]) /\ Tail(queue[t])[n - 1] = queue[t][n]
  BY <1>1, <1>4
<1>5. QED
  BY <1>2, <1>3, <1>4 DEF BtcWaiting

\* A report that is done is the only one that no longer waits.
LEMMA BtcFinished ==
    ASSUME Btc!TypeOK, NEW t \in Btc!Streams, queue[t] # <<>>,
           queue' = [queue EXCEPT ![t] = Tail(@)]
    PROVE  \A m \in BtcWaiting : m = Btc!Current(t) \/ m \in BtcWaiting'
<1> SUFFICES ASSUME NEW m \in BtcWaiting, m # Btc!Current(t)
             PROVE  m \in BtcWaiting'
  OBVIOUS
<1>1. PICK r \in Btc!Streams : \E n \in DOMAIN queue[r] : queue[r][n] = m
  BY DEF BtcWaiting
<1>2. \E n \in DOMAIN queue'[r] : queue'[r][n] = m
  BY <1>1, BtcCurrent DEF Btc!TypeOK
<1>3. QED
  BY <1>2 DEF BtcWaiting

\* A report that is sent waits, and so do those before it.
LEMMA BtcReported ==
    ASSUME Btc!TypeOK, NEW t \in Btc!Streams, NEW m \in Btc!Report,
           queue' = [queue EXCEPT ![t] = Append(@, m)]
    PROVE  /\ queue' \in [Btc!Streams -> Seq(Btc!Report)]
           /\ m \in BtcWaiting' /\ BtcWaiting \subseteq BtcWaiting'
           /\ \A r \in Btc!Streams : queue[r] # <<>> =>
                 queue'[r] # <<>> /\ Btc!Current(r)' = Btc!Current(r)
<1>1. \A r \in Btc!Streams : queue[r] \in Seq(Btc!Report)
  BY DEF Btc!TypeOK
<1>2. queue'[t] = Append(queue[t], m) /\ \A r \in Btc!Streams : r # t => queue'[r] = queue[r]
  BY DEF Btc!TypeOK
<1>3. /\ Append(queue[t], m) \in Seq(Btc!Report)
      /\ Len(queue[t]) + 1 \in DOMAIN Append(queue[t], m)
      /\ Append(queue[t], m)[Len(queue[t]) + 1] = m
      /\ \A n \in DOMAIN queue[t] : n \in DOMAIN Append(queue[t], m)
                                    /\ Append(queue[t], m)[n] = queue[t][n]
  BY <1>1
<1>4. queue' \in [Btc!Streams -> Seq(Btc!Report)]
  BY <1>3 DEF Btc!TypeOK
<1>5. m \in BtcWaiting'
  BY <1>2, <1>3 DEF BtcWaiting
<1>6. BtcWaiting \subseteq BtcWaiting'
  BY <1>2, <1>3 DEF BtcWaiting
<1>7. ASSUME NEW r \in Btc!Streams, queue[r] # <<>>
      PROVE  queue'[r] # <<>> /\ Btc!Current(r)' = Btc!Current(r)
  <2>1. queue'[r] \in Seq(Btc!Report) /\ 1 \in DOMAIN queue[r]
    BY <1>1, <1>4, <1>7
  <2>2. 1 \in DOMAIN queue'[r] /\ queue'[r][1] = queue[r][1]
    BY <1>2, <1>3, <2>1
  <2>3. QED
    BY <1>1, <1>7, <2>1, <2>2 DEF Btc!Current
<1>8. QED
  BY <1>4, <1>5, <1>6, <1>7

\* The documents left after a deletion are those that were not named.
LEMMA BtcRemoved ==
    ASSUME Btc!TypeOK, NEW S, Btc!Remove(S)
    PROVE  /\ btcDocs' \in Seq(Btc!Doc)
           /\ \E f \in [DOMAIN btcDocs' -> DOMAIN btcDocs \ S] :
                /\ \A i \in DOMAIN btcDocs' : btcDocs'[i] = btcDocs[f[i]]
                /\ \A i, j \in DOMAIN btcDocs' : f[i] = f[j] => i = j
                /\ \A k \in DOMAIN btcDocs \ S : \E i \in DOMAIN btcDocs' : f[i] = k
<1> DEFINE kept == DOMAIN btcDocs \ S
<1>0. PICK n \in 0..Len(btcDocs) : \E f \in [1..n -> kept] :
         /\ Btc!Range(f) = kept
         /\ \A i, j \in 1..n : i < j => f[i] < f[j]
         /\ btcDocs' = [i \in 1..n |-> btcDocs[f[i]]]
  BY DEF Btc!Remove
<1>1. PICK f \in [1..n -> kept] :
         /\ Btc!Range(f) = kept
         /\ \A i, j \in 1..n : i < j => f[i] < f[j]
         /\ btcDocs' = [i \in 1..n |-> btcDocs[f[i]]]
  BY <1>0
<1>2. btcDocs \in Seq(Btc!Doc) /\ n \in Nat
  BY DEF Btc!TypeOK
<1>3. \A i \in 1..n : f[i] \in DOMAIN btcDocs /\ f[i] \in Nat /\ btcDocs[f[i]] \in Btc!Doc
  BY <1>2
<1>4. btcDocs' \in Seq(Btc!Doc) /\ DOMAIN btcDocs' = 1..n
  BY <1>1, <1>2, <1>3
<1>5. \A i, j \in 1..n : f[i] = f[j] => i = j
  BY <1>1, <1>2, <1>3
<1>6. \A k \in kept : \E i \in 1..n : f[i] = k
  BY <1>1 DEF Btc!Range
<1>7. QED
  BY <1>1, <1>4, <1>5, <1>6

\* The first of some documents is one of them.
LEMMA BtcFirst ==
    ASSUME NEW S \in SUBSET Nat, S # {}
    PROVE  Btc!First(S) \in S
<1>1. PICK i \in S : \A j \in S : ~(<<j, i>> \in OpToRel(<, Nat))
  BY NatLessThanWellFounded, WFMin
<1>2. \A j \in S : i <= j
  <2> SUFFICES ASSUME NEW j \in S, ~(i <= j) PROVE FALSE
    OBVIOUS
  <2>1. j < i /\ j \in Nat /\ i \in Nat
    OBVIOUS
  <2>2. QED
    BY <1>1, <2>1 DEF OpToRel
<1>3. QED
  BY <1>2 DEF Btc!First

\* The transaction goes on: what was reported stays behind it.
LEMMA BtcAdvanceKeeps ==
    ASSUME BtcInv, Btc!Advance
    PROVE  BtcInv'
<1> USE DEF BtcInv, Btc!Advance
<1>1. Btc!TypeOK'
  BY DEF Btc!TypeOK, Btc!Stages
<1>2. BtcSentReached'
  <2>1. ASSUME NEW m \in sent, btcChain # "rejected"
        PROVE  Btc!Rank(m[2]) <= Btc!Rank(btcChain) /\ Btc!Rank(m[2]) \in Nat
    BY <2>1, BtcRanks DEF BtcSentReached, Btc!TypeOK
  <2>2. btcChain' # "rejected" => Btc!Rank(btcChain) <= Btc!Rank(btcChain')
    BY BtcRanks DEF Btc!Stages
  <2>3. Btc!Rank(btcChain) \in Nat /\ Btc!Rank(btcChain') \in Nat /\ btcChain # "rejected"
    BY <1>1, BtcRanks DEF Btc!TypeOK
  <2>4. QED
    BY <2>1, <2>2, <2>3 DEF BtcSentReached
<1>3. BtcShown' /\ BtcOneDoc' /\ BtcTwoDocs' /\ BtcOvertaken'
  BY DEF BtcShown, BtcOneDoc, BtcTwoDocs, BtcOvertaken, BtcWaiting, BtcInserting,
         Btc!Matching, Btc!Current
<1>4. QED
  BY <1>1, <1>2, <1>3

\* A report of what has happened waits.
LEMMA BtcNodeSendsKeeps ==
    ASSUME BtcInv, NEW a \in Btc!Addrs, NEW s \in Btc!Stages, Btc!NodeSends(a, s)
    PROVE  BtcInv'
<1> USE DEF BtcInv
<1>1. PICK time \in Times :
         queue' = [queue EXCEPT !["new"] = Append(@, [addr |-> a, stage |-> s, time |-> time])]
  BY DEF Btc!NodeSends
<1> DEFINE m == [addr |-> a, stage |-> s, time |-> time]
<1>2. m \in Btc!Report /\ "new" \in Btc!Streams
  BY DEF Btc!Report, Btc!Streams
<1> HIDE DEF m
<1>3. queue' = [queue EXCEPT !["new"] = Append(@, m)]
  BY <1>1 DEF m
<1>4. /\ queue' \in [Btc!Streams -> Seq(Btc!Report)]
      /\ m \in BtcWaiting' /\ BtcWaiting \subseteq BtcWaiting'
      /\ \A r \in Btc!Streams : queue[r] # <<>> =>
            queue'[r] # <<>> /\ Btc!Current(r)' = Btc!Current(r)
  BY <1>2, <1>3, BtcReported
<1>5. Btc!TypeOK'
  BY <1>4 DEF Btc!TypeOK, Btc!NodeSends
<1>6. BtcSentReached'
  BY DEF BtcSentReached, Btc!NodeSends
<1>7. BtcShown'
  <2> SUFFICES ASSUME NEW b \in Btc!Addrs \ excused, NEW r \in Btc!Stages, <<b, r>> \in sent'
               PROVE  \/ \E i \in Btc!Matching(b) : Btc!Rank(r) <= Btc!Rank(btcDocs[i].stage)
                      \/ \E x \in BtcWaiting' : x.addr = b /\ Btc!Rank(r) <= Btc!Rank(x.stage)
    BY DEF BtcShown, Btc!NodeSends, Btc!Matching
  <2>1. CASE <<b, r>> \in sent
    BY <2>1, <1>4 DEF BtcShown
  <2>2. CASE <<b, r>> = <<a, s>>
    <3>1. m.addr = b /\ m.stage = r /\ Btc!Rank(r) <= Btc!Rank(r)
      BY <2>2, BtcRanks DEF m
    <3>2. QED
      BY <3>1, <1>4
  <2>3. QED
    BY <2>1, <2>2 DEF Btc!NodeSends
<1>8. \A r \in Btc!Streams : at[r] # "next" => Btc!Current(r)' = Btc!Current(r)
  BY <1>4 DEF Btc!TypeOK
<1>9. \A b : BtcInserting(b)' = BtcInserting(b)
  BY <1>8 DEF BtcInserting, Btc!NodeSends
<1>10. BtcOneDoc' /\ BtcTwoDocs'
  BY <1>9 DEF BtcOneDoc, BtcTwoDocs, Btc!Matching, Btc!NodeSends
<1>11. BtcOvertaken'
  BY <1>8 DEF BtcOvertaken, Btc!NodeSends
<1>12. QED
  BY <1>5, <1>6, <1>7, <1>10, <1>11


\* A deletion among the documents of an address keeps all others, and makes none.
LEMMA BtcRemoveKeeps ==
    ASSUME BtcInv, NEW a \in Btc!Addrs, NEW S \in SUBSET Btc!Matching(a), Btc!Remove(S)
    PROVE  /\ btcDocs' \in Seq(Btc!Doc)
           /\ \A b \in Btc!Addrs \ {a} : \A i \in Btc!Matching(b) :
                 \E k \in Btc!Matching(b)' : btcDocs'[k] = btcDocs[i]
           /\ \A k \in DOMAIN btcDocs' : \E i \in DOMAIN btcDocs : btcDocs[i] = btcDocs'[k]
           /\ \A b \in Btc!Addrs :
                /\ (\A i, j \in Btc!Matching(b) : i = j) => \A i, j \in Btc!Matching(b)' : i = j
                /\ \A i, j, k \in Btc!Matching(b)' : i = j \/ j = k \/ i = k
                /\ Btc!Matching(b) = {} => Btc!Matching(b)' = {}
<1>1. Btc!TypeOK
  BY DEF BtcInv
<1>2. btcDocs' \in Seq(Btc!Doc)
  BY <1>1, BtcRemoved
<1>3. PICK f \in [DOMAIN btcDocs' -> DOMAIN btcDocs \ S] :
        /\ \A i \in DOMAIN btcDocs' : btcDocs'[i] = btcDocs[f[i]]
        /\ \A i, j \in DOMAIN btcDocs' : f[i] = f[j] => i = j
        /\ \A k \in DOMAIN btcDocs \ S : \E i \in DOMAIN btcDocs' : f[i] = k
  BY <1>1, BtcRemoved
<1>4. ASSUME NEW b \in Btc!Addrs \ {a}, NEW i \in Btc!Matching(b)
      PROVE  \E k \in Btc!Matching(b)' : btcDocs'[k] = btcDocs[i]
  <2>1. i \in DOMAIN btcDocs \ S /\ btcDocs[i].addr = b
    BY <1>4 DEF Btc!Matching
  <2>2. PICK k \in DOMAIN btcDocs' : f[k] = i
    BY <1>3, <2>1
  <2>3. btcDocs'[k] = btcDocs[i]
    BY <1>3, <2>2
  <2>4. QED
    BY <2>1, <2>2, <2>3 DEF Btc!Matching
<1>5. \A b : \A i \in Btc!Matching(b)' : f[i] \in Btc!Matching(b)
  BY <1>3 DEF Btc!Matching
<1>6. \A b : Btc!Matching(b)' \subseteq DOMAIN btcDocs'
  BY DEF Btc!Matching
<1>7. ASSUME NEW b \in Btc!Addrs
      PROVE  /\ (\A i, j \in Btc!Matching(b) : i = j) => \A i, j \in Btc!Matching(b)' : i = j
             /\ \A i, j, k \in Btc!Matching(b)' : i = j \/ j = k \/ i = k
             /\ Btc!Matching(b) = {} => Btc!Matching(b)' = {}
  <2>1. \A i, j, k \in Btc!Matching(b) : i = j \/ j = k \/ i = k
    BY DEF BtcInv, BtcTwoDocs
  <2>2. \A i, j \in Btc!Matching(b)' : f[i] = f[j] => i = j
    BY <1>3, <1>6
  <2>3. QED
    BY <1>5, <2>1, <2>2
<1>8. QED
  BY <1>2, <1>3, <1>4, <1>7

\* A resync deletes documents of its address, and has the node's answer waiting,
\* or excuses the address.
LEMMA BtcResyncKeeps ==
    ASSUME BtcInv, NEW a \in Btc!Addrs, Btc!Resync(a)
    PROVE  BtcInv'
<1>1. PICK S \in SUBSET Btc!Matching(a) : Btc!Remove(S)
  <2>1. CASE Btc!Remove(Btc!Matching(a))
    BY <2>1
  <2>2. CASE Btc!Remove({i \in Btc!Matching(a) : i = Btc!First(Btc!Matching(a))})
    BY <2>2
  <2>3. QED
    BY <2>1, <2>2 DEF Btc!Resync
<1>2. /\ btcDocs' \in Seq(Btc!Doc)
      /\ \A b \in Btc!Addrs \ {a} : \A i \in Btc!Matching(b) :
            \E k \in Btc!Matching(b)' : btcDocs'[k] = btcDocs[i]
      /\ \A k \in DOMAIN btcDocs' : \E i \in DOMAIN btcDocs : btcDocs[i] = btcDocs'[k]
      /\ \A b \in Btc!Addrs :
           /\ (\A i, j \in Btc!Matching(b) : i = j) => \A i, j \in Btc!Matching(b)' : i = j
           /\ \A i, j, k \in Btc!Matching(b)' : i = j \/ j = k \/ i = k
           /\ Btc!Matching(b) = {} => Btc!Matching(b)' = {}
  BY <1>1, BtcRemoveKeeps
<1>3. /\ queue' \in [Btc!Streams -> Seq(Btc!Report)]
      /\ BtcWaiting \subseteq BtcWaiting'
      /\ \A r \in Btc!Streams : queue[r] # <<>> =>
            queue'[r] # <<>> /\ Btc!Current(r)' = Btc!Current(r)
      /\ \/ a \in excused'
         \/ /\ btcChain \in Btc!Stages
            /\ \E m \in BtcWaiting' : m.addr = a /\ m.stage = btcChain
      /\ excused \subseteq excused' /\ excused' \subseteq Btc!Addrs
  <2>1. CASE /\ btcChain \in Btc!Stages /\ UNCHANGED excused
             /\ \E time \in Times :
                  queue' = [queue EXCEPT !["resync"] =
                              Append(@, [addr |-> a, stage |-> btcChain, time |-> time])]
    <3>1. PICK time \in Times :
             queue' = [queue EXCEPT !["resync"] =
                         Append(@, [addr |-> a, stage |-> btcChain, time |-> time])]
      BY <2>1
    <3> DEFINE m == [addr |-> a, stage |-> btcChain, time |-> time]
    <3>2. m \in Btc!Report /\ "resync" \in Btc!Streams /\ m.addr = a /\ m.stage = btcChain
      BY <2>1 DEF Btc!Report, Btc!Streams
    <3>3. queue' = [queue EXCEPT !["resync"] = Append(@, m)]
      BY <3>1
    <3> HIDE DEF m
    <3>4. Btc!TypeOK
      BY DEF BtcInv
    <3>5. QED
      BY <2>1, <3>2, <3>3, <3>4, BtcReported DEF Btc!TypeOK
  <2>2. CASE excused' = excused \cup {a} /\ UNCHANGED queue
    BY <2>2 DEF BtcInv, Btc!TypeOK, BtcWaiting, Btc!Current
  <2>3. QED
    BY <2>1, <2>2 DEF Btc!Resync
<1> USE DEF BtcInv
<1>4. Btc!TypeOK'
  BY <1>2, <1>3, EthHistoryAssumption DEF Btc!TypeOK, Btc!Resync
<1>5. BtcSentReached'
  BY DEF BtcSentReached, Btc!Resync
<1>6. BtcShown'
  <2> SUFFICES ASSUME NEW b \in Btc!Addrs \ excused', NEW s \in Btc!Stages, <<b, s>> \in sent
               PROVE  \/ \E i \in Btc!Matching(b)' : Btc!Rank(s) <= Btc!Rank(btcDocs'[i].stage)
                      \/ \E x \in BtcWaiting' : x.addr = b /\ Btc!Rank(s) <= Btc!Rank(x.stage)
    BY DEF BtcShown, Btc!Resync
  <2>1. CASE b = a
    <3>1. btcChain \in Btc!Stages /\ \E m \in BtcWaiting' : m.addr = a /\ m.stage = btcChain
      BY <1>3, <2>1
    <3>2. Btc!Rank(s) <= Btc!Rank(btcChain)
      BY <3>1 DEF BtcSentReached, Btc!Stages
    <3>3. QED
      BY <2>1, <3>1, <3>2
  <2>2. CASE b # a
    <3>1. CASE \E i \in Btc!Matching(b) : Btc!Rank(s) <= Btc!Rank(btcDocs[i].stage)
      BY <1>2, <2>2, <3>1
    <3>2. CASE \E x \in BtcWaiting : x.addr = b /\ Btc!Rank(s) <= Btc!Rank(x.stage)
      BY <1>3, <3>2
    <3>3. QED
      BY <1>3, <3>1, <3>2 DEF BtcShown
  <2>3. QED
    BY <2>1, <2>2
<1>7. \A r \in Btc!Streams : at[r] # "next" => Btc!Current(r)' = Btc!Current(r)
  BY <1>3 DEF Btc!TypeOK
<1>8. \A b : BtcInserting(b)' = BtcInserting(b)
  BY <1>7 DEF BtcInserting, Btc!Resync
<1>9. BtcOneDoc'
  BY <1>2, <1>3 DEF BtcOneDoc
<1>10. BtcTwoDocs'
  BY <1>2, <1>8 DEF BtcTwoDocs
<1>11. BtcOvertaken'
  <2>1. UNCHANGED <<at, overtaken>>
    BY DEF Btc!Resync
  <2>2. QED
    BY <1>2, <1>7, <2>1 DEF BtcOvertaken
<1>12. QED
  BY <1>4, <1>5, <1>6, <1>9, <1>10, <1>11


\* A goroutine that is done with its report leaves the others where they are.
LEMMA BtcDone ==
    ASSUME Btc!TypeOK, NEW t \in Btc!Streams, queue[t] # <<>>,
           queue' = [queue EXCEPT ![t] = Tail(@)], at' = [at EXCEPT ![t] = "next"]
    PROVE  /\ queue' \in [Btc!Streams -> Seq(Btc!Report)]
           /\ at' \in [Btc!Streams -> {"next", "find", "insert", "update"}]
           /\ \A r \in Btc!Streams : at'[r] # "next" =>
                 r # t /\ queue'[r] # <<>> /\ Btc!Current(r)' = Btc!Current(r) /\ at'[r] = at[r]
           /\ \A m \in BtcWaiting : m = Btc!Current(t) \/ m \in BtcWaiting'
           /\ \A b : BtcInserting(b)' = BtcInserting(b) \ {t}
<1>1. queue' \in [Btc!Streams -> Seq(Btc!Report)]
  BY BtcCurrent DEF Btc!TypeOK
<1>2. at' \in [Btc!Streams -> {"next", "find", "insert", "update"}] /\ at'[t] = "next"
  BY DEF Btc!TypeOK
<1>3. \A r \in Btc!Streams \ {t} : queue'[r] = queue[r] /\ at'[r] = at[r]
  BY DEF Btc!TypeOK
<1>4. \A r \in Btc!Streams : at'[r] # "next" =>
         r # t /\ queue'[r] # <<>> /\ Btc!Current(r)' = Btc!Current(r) /\ at'[r] = at[r]
  BY <1>2, <1>3 DEF Btc!TypeOK, Btc!Current
<1>5. \A b : BtcInserting(b)' = BtcInserting(b) \ {t}
  BY <1>2, <1>3, <1>4 DEF BtcInserting, Btc!Current
<1>6. QED
  BY <1>1, <1>2, <1>4, <1>5, BtcFinished

\* A report that is dropped excuses its address; one that goes on has the time
\* of no document.
LEMMA BtcCheckDoubledKeeps ==
    ASSUME BtcInv, NEW t \in Btc!Streams, Btc!CheckDoubled(t)
    PROVE  BtcInv'
<1> USE DEF BtcInv
<1>1. queue[t] # <<>> /\ at[t] = "next" /\ UNCHANGED <<net, btcChain, sent, btcDocs, btcResyncs>>
  BY DEF Btc!CheckDoubled
<1>2. Btc!Current(t) \in Btc!Report
  BY <1>1, BtcCurrent
<1>3. BtcSentReached'
  BY <1>1 DEF BtcSentReached
<1>4. CASE Btc!Doubled(Btc!Current(t).time) /\ Btc!Finish(t)
           /\ excused' = excused \cup {Btc!Current(t).addr}
  <2>1. queue' = [queue EXCEPT ![t] = Tail(@)] /\ at' = [at EXCEPT ![t] = "next"]
    BY <1>4 DEF Btc!Finish
  <2>2. /\ queue' \in [Btc!Streams -> Seq(Btc!Report)]
        /\ at' \in [Btc!Streams -> {"next", "find", "insert", "update"}]
        /\ \A r \in Btc!Streams : at'[r] # "next" =>
              r # t /\ queue'[r] # <<>> /\ Btc!Current(r)' = Btc!Current(r) /\ at'[r] = at[r]
        /\ \A m \in BtcWaiting : m = Btc!Current(t) \/ m \in BtcWaiting'
        /\ \A b : BtcInserting(b)' = BtcInserting(b) \ {t}
    BY <1>1, <2>1, BtcDone
  <2>3. Btc!TypeOK'
    BY <1>1, <1>2, <1>4, <2>2 DEF Btc!TypeOK, Btc!Finish, Btc!Report
  <2>4. BtcShown'
    BY <1>1, <1>4, <2>2 DEF BtcShown, Btc!Matching
  <2>5. BtcOneDoc' /\ BtcTwoDocs'
    BY <1>1, <1>4, <2>2 DEF BtcOneDoc, BtcTwoDocs, Btc!Matching
  <2>6. BtcOvertaken'
    BY <1>1, <1>4, <2>2 DEF BtcOvertaken, Btc!Finish
  <2>7. QED
    BY <1>3, <2>3, <2>4, <2>5, <2>6
<1>5. CASE /\ ~Btc!Doubled(Btc!Current(t).time) /\ at' = [at EXCEPT ![t] = "find"]
           /\ UNCHANGED <<queue, overtaken, excused>>
  <2>1. Btc!TypeOK'
    BY <1>1, <1>5 DEF Btc!TypeOK
  <2>2. BtcWaiting' = BtcWaiting /\ \A r : Btc!Current(r)' = Btc!Current(r)
    BY <1>5 DEF BtcWaiting, Btc!Current
  <2>3. \A b : BtcInserting(b)' = BtcInserting(b)
    BY <1>1, <1>5, <2>2 DEF BtcInserting, Btc!TypeOK
  <2>4. BtcShown' /\ BtcOneDoc' /\ BtcTwoDocs'
    BY <1>1, <1>5, <2>2, <2>3 DEF BtcShown, BtcOneDoc, BtcTwoDocs, Btc!Matching
  <2>5. Ins # <<>> => ~\E j \in DOMAIN btcDocs : btcDocs[j].time = Btc!Current(t).time
    BY <1>5 DEF Btc!Doubled
  <2>6. BtcOvertaken'
    BY <1>1, <1>5, <2>2, <2>5 DEF BtcOvertaken, Btc!TypeOK
  <2>7. QED
    BY <1>3, <2>1, <2>4, <2>6
<1>6. QED
  BY <1>4, <1>5 DEF Btc!CheckDoubled

\* A goroutine goes on to insert only if it has found no document.
LEMMA BtcFindDocKeeps ==
    ASSUME BtcInv, NEW t \in Btc!Streams, Btc!FindDoc(t)
    PROVE  BtcInv'
<1> USE DEF BtcInv
<1>1. /\ at[t] = "find"
      /\ at' = [at EXCEPT ![t] = IF Btc!Matching(Btc!Current(t).addr) = {} THEN "insert" ELSE "update"]
      /\ UNCHANGED <<net, btcChain, sent, queue, btcDocs, btcResyncs, overtaken, excused>>
  BY DEF Btc!FindDoc
<1>2. Btc!TypeOK'
  BY <1>1 DEF Btc!TypeOK
<1>3. /\ BtcWaiting' = BtcWaiting
      /\ \A r : Btc!Current(r)' = Btc!Current(r)
      /\ \A b : Btc!Matching(b)' = Btc!Matching(b)
  BY <1>1 DEF BtcWaiting, Btc!Current, Btc!Matching
<1>4. BtcSentReached' /\ BtcShown' /\ BtcOneDoc'
  BY <1>1, <1>3 DEF BtcSentReached, BtcShown, BtcOneDoc
<1>5. \A b : BtcInserting(b)' = BtcInserting(b) \/ Btc!Matching(b) = {}
  BY <1>1, <1>3 DEF BtcInserting, Btc!TypeOK
<1>6. BtcTwoDocs'
  BY <1>3, <1>5 DEF BtcTwoDocs
<1>7. BtcOvertaken'
  BY <1>1, <1>3 DEF BtcOvertaken, Btc!TypeOK
<1>8. QED
  BY <1>2, <1>4, <1>6, <1>7


\* The insertion makes a document of its address; a second one excuses it, and
\* there was none if the other goroutine inserts one too.
LEMMA BtcInsertDocKeeps ==
    ASSUME BtcInv, NEW t \in Btc!Streams, Btc!InsertDoc(t)
    PROVE  BtcInv'
<1> USE DEF BtcInv
<1> DEFINE m == Btc!Current(t)
           n == Len(btcDocs) + 1
<1>1. /\ at[t] = "insert"
      /\ btcDocs' = Append(btcDocs, m)
      /\ excused' = IF Btc!Matching(m.addr) # {} THEN excused \cup {m.addr} ELSE excused
      /\ queue' = [queue EXCEPT ![t] = Tail(@)] /\ at' = [at EXCEPT ![t] = "next"]
      /\ overtaken' = (overtaken \cup
            {r \in Btc!Streams : at[r] # "next" /\ Btc!Current(r).time = m.time}) \ {t}
      /\ UNCHANGED <<net, btcChain, sent, btcResyncs>>
  BY DEF Btc!InsertDoc
<1>2. queue[t] # <<>>
  BY <1>1 DEF Btc!TypeOK
<1>3. m \in Btc!Report
  BY <1>2, BtcCurrent
<1>4. /\ queue' \in [Btc!Streams -> Seq(Btc!Report)]
      /\ at' \in [Btc!Streams -> {"next", "find", "insert", "update"}]
      /\ \A r \in Btc!Streams : at'[r] # "next" =>
            r # t /\ queue'[r] # <<>> /\ Btc!Current(r)' = Btc!Current(r) /\ at'[r] = at[r]
      /\ \A x \in BtcWaiting : x = m \/ x \in BtcWaiting'
      /\ \A b : BtcInserting(b)' = BtcInserting(b) \ {t}
  BY <1>1, <1>2, BtcDone
<1> HIDE DEF m
<1>5. m \in Btc!Doc /\ btcDocs \in Seq(Btc!Doc)
  BY <1>3 DEF Btc!Report, Btc!Doc, Btc!TypeOK
<1>6. /\ btcDocs' \in Seq(Btc!Doc) /\ DOMAIN btcDocs' = DOMAIN btcDocs \cup {n}
      /\ n \notin DOMAIN btcDocs /\ btcDocs'[n] = m
      /\ \A i \in DOMAIN btcDocs : btcDocs'[i] = btcDocs[i]
  BY <1>1, <1>5
<1> HIDE DEF n
<1>7. /\ \A b : b # m.addr => Btc!Matching(b)' = Btc!Matching(b)
      /\ \A b : b = m.addr => Btc!Matching(b)' = Btc!Matching(b) \cup {n}
  BY <1>6 DEF Btc!Matching
<1>8. Btc!TypeOK'
  BY <1>1, <1>3, <1>4, <1>6 DEF Btc!TypeOK, Btc!Report
<1>9. BtcSentReached'
  BY <1>1 DEF BtcSentReached
<1>10. \A b : \A i \in Btc!Matching(b) : i \in Btc!Matching(b)' /\ btcDocs'[i] = btcDocs[i]
  BY <1>6, <1>7 DEF Btc!Matching
<1>11. BtcShown'
  <2> SUFFICES ASSUME NEW b \in Btc!Addrs \ excused, NEW s \in Btc!Stages, <<b, s>> \in sent
               PROVE  \/ \E i \in Btc!Matching(b)' : Btc!Rank(s) <= Btc!Rank(btcDocs'[i].stage)
                      \/ \E x \in BtcWaiting' : x.addr = b /\ Btc!Rank(s) <= Btc!Rank(x.stage)
    BY <1>1 DEF BtcShown
  <2>1. CASE \E i \in Btc!Matching(b) : Btc!Rank(s) <= Btc!Rank(btcDocs[i].stage)
    BY <1>10, <2>1
  <2>2. CASE \E x \in BtcWaiting : x.addr = b /\ Btc!Rank(s) <= Btc!Rank(x.stage)
    <3>1. PICK x \in BtcWaiting : x.addr = b /\ Btc!Rank(s) <= Btc!Rank(x.stage)
      BY <2>2
    <3>2. CASE x = m
      BY <1>6, <1>7, <3>1, <3>2
    <3>3. QED
      BY <1>4, <3>1, <3>2
  <2>3. QED
    BY <2>1, <2>2 DEF BtcShown
<1>12. BtcOneDoc'
  BY <1>1, <1>7 DEF BtcOneDoc
<1>13. t \in BtcInserting(m.addr)
  BY <1>1 DEF BtcInserting, m
<1>14. BtcTwoDocs'
  <2> SUFFICES ASSUME NEW b \in Btc!Addrs
               PROVE  /\ \A i, j, k \in Btc!Matching(b)' : i = j \/ j = k \/ i = k
                      /\ BtcInserting(b)' # {} => \A i, j \in Btc!Matching(b)' : i = j
                      /\ BtcInserting(b)' = Btc!Streams => Btc!Matching(b)' = {}
    BY DEF BtcTwoDocs
  <2>1. /\ \A i, j, k \in Btc!Matching(b) : i = j \/ j = k \/ i = k
        /\ BtcInserting(b) # {} => \A i, j \in Btc!Matching(b) : i = j
        /\ BtcInserting(b) = Btc!Streams => Btc!Matching(b) = {}
    BY DEF BtcTwoDocs
  <2>2. BtcInserting(b)' # Btc!Streams
    BY <1>4
  <2>3. CASE b # m.addr
    BY <1>4, <1>7, <2>1, <2>2, <2>3
  <2>4. CASE b = m.addr
    <3>1. \A i, j, k \in Btc!Matching(b)' : i = j \/ j = k \/ i = k
      BY <1>7, <1>13, <2>1, <2>4
    <3>2. ASSUME BtcInserting(b)' # {} PROVE \A i, j \in Btc!Matching(b)' : i = j
      <4>1. PICK r \in BtcInserting(b) : r # t
        BY <1>4, <3>2
      <4>2. r \in Btc!Streams
        BY DEF BtcInserting
      <4>3. BtcInserting(b) = Btc!Streams
        BY <1>13, <2>4, <4>1, <4>2 DEF Btc!Streams, BtcInserting
      <4>4. QED
        BY <1>7, <2>1, <2>4, <4>3
    <3>3. QED
      BY <2>2, <3>1, <3>2
  <2>5. QED
    BY <2>3, <2>4
<1>15. BtcOvertaken'
  <2> SUFFICES ASSUME Ins # <<>>, NEW r \in Btc!Streams, at'[r] # "next",
                      NEW j \in DOMAIN btcDocs', btcDocs'[j].time = Btc!Current(r)'.time
               PROVE  r \in overtaken'
    BY DEF BtcOvertaken
  <2>1. r # t /\ Btc!Current(r)' = Btc!Current(r) /\ at[r] # "next"
    BY <1>4
  <2>2. CASE j = n
    BY <1>1, <1>6, <2>1, <2>2
  <2>3. CASE j \in DOMAIN btcDocs
    BY <1>1, <1>6, <2>1, <2>3 DEF BtcOvertaken
  <2>4. QED
    BY <1>6, <2>2, <2>3
<1>16. QED
  BY <1>8, <1>9, <1>11, <1>12, <1>14, <1>15

\* The update sets the first document of its address; to find none, or a later
\* stage, excuses the address.
LEMMA BtcUpdateDocKeeps ==
    ASSUME BtcInv, NEW t \in Btc!Streams, Btc!UpdateDoc(t)
    PROVE  BtcInv'
<1> USE DEF BtcInv
<1> DEFINE m == Btc!Current(t)
           i == Btc!First(Btc!Matching(m.addr))
<1>1. /\ at[t] = "update"
      /\ queue' = [queue EXCEPT ![t] = Tail(@)] /\ at' = [at EXCEPT ![t] = "next"]
      /\ overtaken' = overtaken \ {t}
      /\ UNCHANGED <<net, btcChain, sent, btcResyncs>>
      /\ \/ /\ Btc!Matching(m.addr) # {}
            /\ btcDocs' = [btcDocs EXCEPT ![i].stage = m.stage]
            /\ excused' = IF Btc!Rank(m.stage) < Btc!Rank(btcDocs[i].stage)
                          THEN excused \cup {m.addr} ELSE excused
         \/ /\ Btc!Matching(m.addr) = {}
            /\ excused' = excused \cup {m.addr}
            /\ UNCHANGED btcDocs
  BY DEF Btc!UpdateDoc, Btc!Finish
<1>2. queue[t] # <<>>
  BY <1>1 DEF Btc!TypeOK
<1>3. m \in Btc!Report
  BY <1>2, BtcCurrent
<1>4. /\ queue' \in [Btc!Streams -> Seq(Btc!Report)]
      /\ at' \in [Btc!Streams -> {"next", "find", "insert", "update"}]
      /\ \A r \in Btc!Streams : at'[r] # "next" =>
            r # t /\ queue'[r] # <<>> /\ Btc!Current(r)' = Btc!Current(r) /\ at'[r] = at[r]
      /\ \A x \in BtcWaiting : x = m \/ x \in BtcWaiting'
      /\ \A b : BtcInserting(b)' = BtcInserting(b) \ {t}
  BY <1>1, <1>2, BtcDone
<1>5. btcDocs \in Seq(Btc!Doc)
  BY DEF Btc!TypeOK
<1>6. Btc!Matching(m.addr) # {} => i \in Btc!Matching(m.addr)
  <2>1. Btc!Matching(m.addr) \subseteq Nat
    BY <1>5 DEF Btc!Matching
  <2>2. QED
    BY <2>1, BtcFirst
<1> HIDE DEF m, i
<1>7. /\ btcDocs' \in Seq(Btc!Doc) /\ DOMAIN btcDocs' = DOMAIN btcDocs
      /\ \A j \in DOMAIN btcDocs :
            btcDocs'[j].addr = btcDocs[j].addr /\ btcDocs'[j].time = btcDocs[j].time
      /\ \A j \in DOMAIN btcDocs : btcDocs[j].addr # m.addr => btcDocs'[j] = btcDocs[j]
  <2>1. CASE Btc!Matching(m.addr) = {}
    BY <1>1, <1>5, <2>1
  <2>2. CASE Btc!Matching(m.addr) # {}
    <3>1. i \in DOMAIN btcDocs /\ btcDocs[i].addr = m.addr /\ btcDocs[i] \in Btc!Doc
      BY <1>5, <1>6, <2>2 DEF Btc!Matching
    <3>2. btcDocs' = [btcDocs EXCEPT ![i] = [btcDocs[i] EXCEPT !.stage = m.stage]]
      BY <1>1, <2>2
    <3>3. /\ [btcDocs[i] EXCEPT !.stage = m.stage] \in Btc!Doc
          /\ [btcDocs[i] EXCEPT !.stage = m.stage].addr = btcDocs[i].addr
          /\ [btcDocs[i] EXCEPT !.stage = m.stage].time = btcDocs[i].time
      BY <1>3, <3>1 DEF Btc!Doc, Btc!Report
    <3> HIDE DEF i
    <3>4. btcDocs' \in Seq(Btc!Doc) /\ DOMAIN btcDocs' = DOMAIN btcDocs
      BY <1>5, <3>1, <3>2, <3>3
    <3>5. QED
      BY <1>5, <3>1, <3>2, <3>3, <3>4
  <2>3. QED
    BY <2>1, <2>2
<1>8. \A b : Btc!Matching(b)' = Btc!Matching(b)
  BY <1>7 DEF Btc!Matching
<1>9. excused \subseteq excused' /\ excused' \subseteq Btc!Addrs
  BY <1>1, <1>3 DEF Btc!TypeOK, Btc!Report
<1>10. Btc!TypeOK'
  BY <1>1, <1>4, <1>7, <1>9 DEF Btc!TypeOK
<1>11. BtcSentReached'
  BY <1>1 DEF BtcSentReached
<1>12. BtcShown'
  <2> SUFFICES ASSUME NEW b \in Btc!Addrs \ excused', NEW s \in Btc!Stages, <<b, s>> \in sent
               PROVE  \/ \E j \in Btc!Matching(b) : Btc!Rank(s) <= Btc!Rank(btcDocs'[j].stage)
                      \/ \E x \in BtcWaiting' : x.addr = b /\ Btc!Rank(s) <= Btc!Rank(x.stage)
    BY <1>1, <1>8 DEF BtcShown
  <2>1. \/ \E j \in Btc!Matching(b) : Btc!Rank(s) <= Btc!Rank(btcDocs[j].stage)
        \/ \E x \in BtcWaiting : x.addr = b /\ Btc!Rank(s) <= Btc!Rank(x.stage)
    BY <1>9 DEF BtcShown
  <2>2. CASE b # m.addr
    <3>1. \A j \in Btc!Matching(b) : btcDocs'[j] = btcDocs[j]
      BY <1>7, <2>2 DEF Btc!Matching
    <3>2. QED
      BY <1>4, <2>1, <2>2, <3>1
  <2>3. CASE b = m.addr
    <3>1. Btc!Matching(b) # {} /\ ~(Btc!Rank(m.stage) < Btc!Rank(btcDocs[i].stage))
      BY <1>1, <2>3
    <3>2. i \in Btc!Matching(b) /\ \A j \in Btc!Matching(b) : j = i
      BY <1>6, <1>9, <2>3, <3>1 DEF BtcOneDoc
    <3>3. i \in DOMAIN btcDocs /\ btcDocs[i] \in Btc!Doc
      BY <1>5, <3>2 DEF Btc!Matching
    <3>4. btcDocs'[i].stage = m.stage
      <4>1. btcDocs' = [btcDocs EXCEPT ![i] = [btcDocs[i] EXCEPT !.stage = m.stage]]
        BY <1>1, <2>3, <3>1
      <4>2. [btcDocs[i] EXCEPT !.stage = m.stage].stage = m.stage
        BY <3>3 DEF Btc!Doc
      <4>3. QED
        BY <1>5, <3>3, <4>1, <4>2
    <3>5. /\ Btc!Rank(m.stage) \in Nat /\ Btc!Rank(btcDocs[i].stage) \in Nat
          /\ Btc!Rank(s) \in Nat
      BY <1>3, <3>3, BtcRanks DEF Btc!Report, Btc!Doc
    <3>6. CASE Btc!Rank(s) <= Btc!Rank(btcDocs[i].stage)
      BY <3>1, <3>2, <3>4, <3>5, <3>6
    <3>7. CASE \E x \in BtcWaiting : x.addr = b /\ Btc!Rank(s) <= Btc!Rank(x.stage)
      BY <1>4, <3>2, <3>4, <3>7
    <3>8. QED
      BY <2>1, <3>2, <3>6, <3>7
  <2>4. QED
    BY <2>2, <2>3
<1>13. BtcOneDoc' /\ BtcTwoDocs'
  BY <1>4, <1>8, <1>9 DEF BtcOneDoc, BtcTwoDocs
<1>14. BtcOvertaken'
  BY <1>1, <1>4, <1>7 DEF BtcOvertaken
<1>15. QED
  BY <1>10, <1>11, <1>12, <1>13, <1>14


\* The rejection check asks about a hash no document has.
LEMMA BtcRejectTxsKeeps ==
    ASSUME BtcInv, Btc!RejectTxs
    PROVE  BtcInv' /\ UNCHANGED btcDocs
<1>1. btcDocs \in Seq(Btc!Doc)
  BY DEF BtcInv, Btc!TypeOK
<1>2. btcDocs' = [i \in DOMAIN btcDocs |-> btcDocs[i]]
  BY DEF Btc!RejectTxs, Btc!HashField
<1>3. UNCHANGED btcDocs
  BY <1>1, <1>2
<1>4. UNCHANGED Btc!vars
  BY <1>3 DEF Btc!RejectTxs, Btc!vars
<1>5. BtcInv'
  BY <1>4 DEF Btc!vars, BtcInv, Btc!TypeOK, BtcSentReached, BtcShown, BtcOneDoc, BtcTwoDocs,
              BtcOvertaken, BtcWaiting, BtcInserting, Btc!Matching, Btc!Current
<1>6. QED
  BY <1>3, <1>5

\* The invariant of the BTC history: every stage the node has reported for an
\* address is shown, waits or is excused, and the documents of an address and the
\* insertions to come are no more than two.
THEOREM BtcInvariant == Btc!Spec => []BtcInv
<1>1. Btc!Init => BtcInv
  BY BtcInit
<1>2. BtcInv /\ [Btc!Next]_Btc!vars => BtcInv'
  <2> SUFFICES ASSUME BtcInv, [Btc!Next]_Btc!vars PROVE BtcInv'
    OBVIOUS
  <2>1. CASE Btc!Advance
    BY <2>1, BtcAdvanceKeeps
  <2>2. ASSUME NEW a \in Btc!Addrs, NEW s \in Btc!Stages, Btc!NodeSends(a, s) PROVE BtcInv'
    BY <2>2, BtcNodeSendsKeeps
  <2>3. ASSUME NEW a \in Btc!Addrs, Btc!Resync(a) PROVE BtcInv'
    BY <2>3, BtcResyncKeeps
  <2>4. ASSUME NEW t \in Btc!Streams, Btc!SaveStep(t) PROVE BtcInv'
    BY <2>4, BtcCheckDoubledKeeps, BtcFindDocKeeps, BtcInsertDocKeeps, BtcUpdateDocKeeps
       DEF Btc!SaveStep
  <2>5. CASE Btc!RejectTxs
    BY <2>5, BtcRejectTxsKeeps
  <2>6. CASE UNCHANGED Btc!vars
    BY <2>6 DEF Btc!vars, BtcInv, Btc!TypeOK, BtcSentReached, BtcShown, BtcOneDoc, BtcTwoDocs,
                BtcOvertaken, BtcWaiting, BtcInserting, Btc!Matching, Btc!Current
  <2>7. QED
    BY <2>1, <2>2, <2>3, <2>4, <2>5, <2>6 DEF Btc!Next
<1>3. QED
  BY <1>1, <1>2, PTL DEF Btc!Spec

\* TypeOK: a goroutine in saveMultyTransaction has the report it saves.
THEOREM BtcTyped == Btc!Spec => []Btc!TypeOK
<1>1. BtcInv => Btc!TypeOK
  BY DEF BtcInv
<1>2. QED
  BY <1>1, BtcInvariant, PTL

\* A set without three different members has two at most.
LEMMA BtcTwoAtMost ==
    ASSUME NEW S, \A i, j, k \in S : i = j \/ j = k \/ i = k
    PROVE  Btc!Cardinality(S) <= 2
<1>1. Cardinality(S) <= 2
  <2>1. CASE S = {}
    BY <2>1, FS_EmptySet
  <2>2. CASE \E x \in S : S = {x}
    <3>1. PICK x \in S : S = {x}
      BY <2>2
    <3>2. Cardinality({x}) = 1
      BY FS_Singleton
    <3>3. QED
      BY <3>1, <3>2
  <2>3. CASE S # {} /\ ~\E x \in S : S = {x}
    <3>1. PICK x \in S, y \in S : x # y
      BY <2>3
    <3>2. S = {x} \cup {y}
      BY <3>1
    <3>3. IsFiniteSet({x}) /\ Cardinality({x}) = 1
      BY FS_Singleton
    <3>4. Cardinality({x} \cup {y}) = 2
      BY <3>1, <3>3, FS_AddElement
    <3>5. QED
      BY <3>2, <3>4
  <2>4. QED
    BY <2>1, <2>2, <2>3
<1>2. Btc!Cardinality(S) = Cardinality(S)
  BY DEF Btc!Cardinality, Cardinality
<1>3. QED
  BY <1>1, <1>2

\* RestShowsStage: with all reports saved, an address that is not excused has one
\* document with the last stage reported for it, and none has more than two.
THEOREM BtcShowsStage == Btc!Spec => []Btc!RestShowsStage
<1>1. BtcInv => Btc!RestShowsStage
  <2> SUFFICES ASSUME BtcInv, \A t \in Btc!Streams : queue[t] = <<>>, NEW a \in Btc!Addrs
               PROVE  /\ Btc!Cardinality(Btc!Matching(a)) <= 2
                      /\ (a \notin excused /\ \E s \in Btc!Stages : <<a, s>> \in sent) =>
                           \E i \in Btc!Matching(a) :
                              /\ Btc!Matching(a) = {i}
                              /\ \A s \in Btc!Stages : <<a, s>> \in sent =>
                                    Btc!Rank(s) <= Btc!Rank(btcDocs[i].stage)
    BY DEF Btc!RestShowsStage
  <2>1. Btc!Cardinality(Btc!Matching(a)) <= 2
    BY BtcTwoAtMost DEF BtcInv, BtcTwoDocs
  <2>2. BtcWaiting = {}
    BY DEF BtcWaiting
  <2>3. ASSUME a \notin excused, NEW s \in Btc!Stages, <<a, s>> \in sent
        PROVE  \E i \in Btc!Matching(a) : Btc!Rank(s) <= Btc!Rank(btcDocs[i].stage)
    BY <2>2, <2>3 DEF BtcInv, BtcShown
  <2>4. a \notin excused => \A i, j \in Btc!Matching(a) : i = j
    BY DEF BtcInv, BtcOneDoc
  <2>5. QED
    BY <2>1, <2>3, <2>4
<1>2. QED
  BY <1>1, BtcInvariant, PTL

\* DoubledOnlyByRace: for a payment a second document with a time that is stored
\* comes only from a goroutine that had passed the check before.
THEOREM BtcDoubledByRace == Btc!Spec => Btc!DoubledOnlyByRace
<1>1. ASSUME BtcInv, [Btc!Next]_Btc!vars
      PROVE  [Ins # <<>> =>
                \A i \in DOMAIN btcDocs' \ DOMAIN btcDocs :
                   (\E j \in DOMAIN btcDocs : btcDocs[j].time = btcDocs'[i].time)
                     => \E t \in overtaken :
                           at[t] = "insert" /\ Btc!Current(t).addr = btcDocs'[i].addr]_Btc!vars
  <2> SUFFICES ASSUME Btc!Next, Ins # <<>>,
                      NEW i \in DOMAIN btcDocs' \ DOMAIN btcDocs,
                      NEW j \in DOMAIN btcDocs, btcDocs[j].time = btcDocs'[i].time
               PROVE  \E t \in overtaken :
                           at[t] = "insert" /\ Btc!Current(t).addr = btcDocs'[i].addr
    BY <1>1
  <2>1. btcDocs \in Seq(Btc!Doc)
    BY <1>1 DEF BtcInv, Btc!TypeOK
  <2>2. ASSUME NEW t \in Btc!Streams, Btc!InsertDoc(t)
        PROVE  t \in overtaken /\ at[t] = "insert" /\ Btc!Current(t).addr = btcDocs'[i].addr
    <3>1. at[t] = "insert" /\ btcDocs' = Append(btcDocs, Btc!Current(t))
      BY <2>2 DEF Btc!InsertDoc
    <3>2. btcDocs'[i] = Btc!Current(t)
      BY <2>1, <3>1
    <3>3. t \in overtaken
      BY <1>1, <3>1, <3>2 DEF BtcInv, BtcOvertaken
    <3>4. QED
      BY <3>1, <3>2, <3>3
  <2>3. ASSUME NEW S, Btc!Remove(S) PROVE FALSE
    BY <2>1, <2>3 DEF Btc!Remove
  <2>4. ~\E a \in Btc!Addrs : Btc!Resync(a)
    BY <2>3 DEF Btc!Resync
  <2>5. ASSUME NEW t \in Btc!Streams, Btc!UpdateDoc(t) PROVE FALSE
    BY <2>1, <2>5 DEF Btc!UpdateDoc
  <2>6. ~Btc!RejectTxs
    BY <1>1, BtcRejectTxsKeeps
  <2>7. PICK t \in Btc!Streams : Btc!InsertDoc(t)
    BY <2>4, <2>5, <2>6 DEF Btc!Next, Btc!SaveStep, Btc!Advance, Btc!NodeSends,
                            Btc!CheckDoubled, Btc!FindDoc
  <2>8. QED
    BY <2>2, <2>7
<1>2. QED
  BY <1>1, BtcInvariant, PTL DEF Btc!Spec, Btc!DoubledOnlyByRace
=============================================================================
