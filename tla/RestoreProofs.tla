--------------------------- MODULE RestoreProofs ----------------------------
(***************************************************************************)
(* That no block is missing after a restart, for any addresses, blocks and *)
(* faults.  RestoreInv is the inductive invariant: of every address in a   *)
(* wallet it says why nothing is or will be missing for it.                *)
(***************************************************************************)
EXTENDS Restore, TLAPS, SequenceTheorems

\* The server has been told of the pair, or a report of it waits.
InFlight(p) == \E i \in 1..Len(flight) : p \in flight[i]
Has(p) == p \in reported \/ InFlight(p)

\* All blocks have been reported for the address, and new ones will be.
Full(a) == "tx" \in open /\ a \in watched /\ \A h \in 1..head : Has(<<a, h>>)

\* The blocks before those that the server restores were reported earlier.
From == mark - AccuracyRange
Before(a) == \A h \in 1..(From - 1) : <<a, h>> \in reported
Old(a) == a \in book /\ restore.at # "done" /\ Before(a)

\* NewAddressNode is to tell the node of the address, or does.
Asked(a) ==
    a \in asking \/ (watch # Idle /\ watch.addr = a /\ (watch.at = "resync" => a \in watched))

Covered ==
    (~excuse /\ phase # "down" /\ ~broken) =>
        \A a \in (book \cup pushing) \ apart : Full(a) \/ Old(a) \/ Asked(a)

\* Without a server nothing is on its way, and what a start will not ask for was
\* reported.
Down ==
    phase = "down" =>
        /\ open = {} /\ ~broken /\ blocks = <<>> /\ flight = <<>>
        /\ ~excuse => \A a \in book \ apart, h \in 1..(stored - AccuracyRange - 1) :
                          <<a, h>> \in reported

\* What runs in each phase of the start.
Phases ==
    /\ phase # "serving" => asking = {} /\ pushing = {} /\ watch = Idle
    /\ phase \in {"down", "handlers"} => restore = Idle
    /\ restore.at = "sync" /\ ~excuse => restore.from = From

\* A recorded height is none or beyond the range.
Heights ==
    /\ stored = 0 \/ stored >= Base
    /\ \A i \in 1..Len(blocks) : blocks[i] >= Base

RestoreInv == TypeOK /\ Covered /\ Down /\ Phases /\ Heights

-----------------------------------------------------------------------------
\* The constants are numbers, and the range ends before the first height.
LEMMA Numbers ==
    ASSUME TypeOK
    PROVE  /\ AccuracyRange \in Nat /\ Base \in Nat /\ MaxHead \in Nat /\ MaxFaults \in Nat
           /\ AccuracyRange < Base /\ Base <= MaxHead
           /\ head \in Nat /\ stored \in Nat /\ mark \in Nat /\ head >= Base /\ From \in Int
           /\ Len(flight) \in Nat /\ Len(blocks) \in Nat
           /\ \A i \in 1..Len(blocks) : blocks[i] \in 1..head
           /\ \A i \in 1..Len(flight) : flight[i] \subseteq Addrs \X (1..head)
<1>1. blocks \in Seq(1..head) /\ flight \in Seq(SUBSET (Addrs \X (1..head)))
  BY DEF TypeOK
<1>2. /\ Len(flight) \in Nat /\ Len(blocks) \in Nat
      /\ \A i \in 1..Len(blocks) : blocks[i] \in 1..head
      /\ \A i \in 1..Len(flight) : flight[i] \in SUBSET (Addrs \X (1..head))
  BY <1>1, LenProperties, ElementOfSeq
<1>3. QED
  BY <1>2, RestoreAssumption DEF TypeOK, From

\* Types of the streams survive new blocks.
LEMMA StreamsTyped ==
    ASSUME TypeOK, head' \in Nat, head' >= head
    PROVE  /\ blocks \in Seq(1..head') /\ flight \in Seq(SUBSET (Addrs \X (1..head')))
           /\ reported \subseteq Addrs \X (1..head')
<1>1. 1..head \subseteq 1..head'
  BY Numbers
<1>2. SUBSET (Addrs \X (1..head)) \subseteq SUBSET (Addrs \X (1..head'))
  BY <1>1
<1>3. QED
  BY <1>1, <1>2, Numbers, SeqMonotonic DEF TypeOK

\* What is on its way when the node reports pairs.
LEMMA SendsKeeps ==
    ASSUME TypeOK, head' \in Nat, head' >= head, NEW P \in SUBSET (Addrs \X (1..head')), Sends(P)
    PROVE  /\ flight' \in Seq(SUBSET (Addrs \X (1..head')))
           /\ \A p : InFlight(p) => InFlight(p)'
           /\ Listening => \A p \in P : InFlight(p)'
           /\ ~Listening => flight' = flight
<1>1. flight \in Seq(SUBSET (Addrs \X (1..head')))
  BY StreamsTyped
<1>2. CASE ~Listening
  BY <1>1, <1>2 DEF Sends, InFlight
<1>3. CASE Listening
  <2>1. flight' = Append(flight, P)
    BY <1>3 DEF Sends
  <2>2. /\ flight' \in Seq(SUBSET (Addrs \X (1..head'))) /\ Len(flight) \in Nat
        /\ Len(flight') = Len(flight) + 1
        /\ \A i \in 1..Len(flight) : flight'[i] = flight[i]
        /\ flight'[Len(flight) + 1] = P
    BY <1>1, <2>1, AppendProperties, LenProperties
  <2>3. \A i \in 1..Len(flight) : i \in 1..Len(flight')
    BY <2>2
  <2>4. (Len(flight) + 1) \in 1..Len(flight')
    BY <2>2
  <2>5. QED
    BY <1>3, <2>2, <2>3, <2>4 DEF InFlight
<1>4. QED
  BY <1>2, <1>3

\* Nothing that was told of is lost while the server runs on.
Grows ==
    /\ head' = head /\ open \subseteq open' /\ watched \subseteq watched'
    /\ \A a \in Addrs, h \in 1..head : Has(<<a, h>>) => Has(<<a, h>>)'

\* An address of which all has been told stays so as the reports grow.
LEMMA FullStays ==
    ASSUME TypeOK, Grows
    PROVE  \A a \in Addrs : Full(a) => Full(a)'
BY DEF Grows, Full

\* With the streams' reports as they are.
LEMMA StillGrows ==
    ASSUME UNCHANGED <<head, flight, reported>>, open \subseteq open', watched \subseteq watched'
    PROVE  Grows
BY DEF Grows, Has, InFlight

-----------------------------------------------------------------------------
(* The node.                                                                 *)

\* A new block is told to who listens: else its pairs are among those a start asks for.
LEMMA NewBlockKeeps ==
    ASSUME RestoreInv, NewBlock
    PROVE  RestoreInv'
<1> USE DEF RestoreInv
<1>1. /\ head < MaxHead /\ head' = head + 1 /\ Sends(watched \X {head + 1})
      /\ blocks' = IF "block" \in open /\ ~broken THEN Append(blocks, head') ELSE blocks
      /\ UNCHANGED <<watched, stored, book, phase, open, broken, known, restore, asking, pushing,
                     watch, reported, faults, mark, apart, excuse>>
  BY DEF NewBlock, database, history
<1>2. head' \in Nat /\ head' >= head /\ head \in Nat /\ (head + 1) \in 1..head' /\ 1..head \subseteq 1..head'
      /\ head' <= MaxHead /\ head' >= Base
  BY <1>1, Numbers
<1>3. (watched \X {head + 1}) \in SUBSET (Addrs \X (1..head'))
  BY <1>2 DEF TypeOK
<1>4. /\ flight' \in Seq(SUBSET (Addrs \X (1..head')))
      /\ \A p : InFlight(p) => InFlight(p)'
      /\ Listening => \A p \in watched \X {head + 1} : InFlight(p)'
      /\ ~Listening => flight' = flight
  BY <1>1, <1>2, <1>3, SendsKeeps
<1>5. blocks \in Seq(1..head') /\ reported \subseteq Addrs \X (1..head')
  BY <1>2, StreamsTyped
<1>6. blocks' \in Seq(1..head') /\ Len(blocks) \in Nat
      /\ \A i \in 1..Len(blocks') : blocks'[i] = head' \/ (i \in 1..Len(blocks) /\ blocks'[i] = blocks[i])
  <2>1. CASE blocks' = blocks
    BY <1>5, <2>1, LenProperties
  <2>2. CASE blocks' = Append(blocks, head')
    <3>1. head' \in 1..head'
      BY <1>1, <1>2
    <3>2. blocks' \in Seq(1..head') /\ Len(blocks) \in Nat /\ Len(blocks') = Len(blocks) + 1
          /\ (\A i \in 1..Len(blocks) : blocks'[i] = blocks[i]) /\ blocks'[Len(blocks) + 1] = head'
      BY <1>5, <2>2, <3>1, AppendProperties, LenProperties
    <3>3. \A i \in 1..(Len(blocks) + 1) : i \in 1..Len(blocks) \/ i = Len(blocks) + 1
      BY <3>2
    <3>4. QED
      BY <3>2, <3>3
  <2>3. QED
    BY <1>1, <2>1, <2>2
<1>7. TypeOK'
  <2>1. /\ head' \in Base..MaxHead /\ stored \in 0..head' /\ mark \in 0..head'
        /\ restore \in {Idle, [at |-> "read"], [at |-> "done"]} \cup [at : {"sync"}, from : 1..head']
    BY <1>1, <1>2, Numbers DEF TypeOK
  <2>2. QED
    BY <1>1, <1>4, <1>5, <1>6, <2>1 DEF TypeOK
<1>8. Covered'
  <2> SUFFICES ASSUME ~excuse, phase # "down", ~broken, NEW a \in (book \cup pushing) \ apart
               PROVE  Full(a)' \/ Old(a)' \/ Asked(a)'
    BY <1>1 DEF Covered
  <2>1. CASE Full(a)
    <3>1. Listening /\ a \in watched
      BY <2>1 DEF Listening, Full
    <3>2. PICK n \in Nat : n = head + 1 /\ InFlight(<<a, n>>)'
      BY <1>2, <1>4, <3>1
    <3>3. \A h \in 1..n : h \in 1..head \/ h = n
      BY <1>2, <3>2
    <3>4. \A h \in 1..head : Has(<<a, h>>)'
      BY <1>1, <1>4, <2>1 DEF Full, Has
    <3>5. \A h \in 1..head' : Has(<<a, h>>)'
      BY <1>1, <3>2, <3>3, <3>4 DEF Has
    <3>6. QED
      BY <1>1, <2>1, <3>5 DEF Full
  <2>2. CASE Old(a)
    BY <1>1, <2>2 DEF Old, Before, From
  <2>3. CASE Asked(a)
    BY <1>1, <2>3 DEF Asked
  <2>4. QED
    BY <2>1, <2>2, <2>3 DEF Covered
<1>9. Down'
  BY <1>1, <1>4 DEF Down, Listening
<1>10. Phases'
  BY <1>1 DEF Phases, From
<1>11. Heights'
  BY <1>1, <1>2, <1>6 DEF Heights
<1>12. QED
  BY <1>7, <1>8, <1>9, <1>10, <1>11

\* The streams of a node that has gone are of no use to what is to be covered.
LEMMA NodeRestartKeeps ==
    ASSUME RestoreInv, NodeRestart
    PROVE  RestoreInv'
<1> USE DEF RestoreInv
<1>1. /\ faults < MaxFaults /\ faults' = faults + 1 /\ watched' = {}
      /\ (broken' <=> open # {}) /\ broken' \in BOOLEAN
      /\ flight' = <<>> /\ blocks' = <<>>
      /\ excuse' \in BOOLEAN /\ (~excuse' => ~excuse /\ (phase = "down" \/ open = Streams))
      /\ UNCHANGED <<head, stored, book, phase, open, known, restore, asking, pushing, watch,
                     reported, mark, apart>>
  BY DEF NodeRestart, database, TypeOK
<1>2. TypeOK'
  <2>1. faults' \in 0..MaxFaults
    BY <1>1, Numbers DEF TypeOK
  <2>2. flight' \in Seq(SUBSET (Addrs \X (1..head))) /\ blocks' \in Seq(1..head)
    BY <1>1, EmptySeq
  <2>3. QED
    BY <1>1, <2>1, <2>2 DEF TypeOK
<1>3. Covered'
  BY <1>1 DEF Covered, Streams
<1>4. Down'
  BY <1>1 DEF Down
<1>5. Phases'
  BY <1>1 DEF Phases, From
<1>6. Heights'
  BY <1>1, EmptySeq DEF Heights
<1>7. QED
  BY <1>2, <1>3, <1>4, <1>5, <1>6

-----------------------------------------------------------------------------
(* The start of the server.                                                  *)

\* A start finds nothing under way, and what it is to ask for is among the missing.
LEMMA BootKeeps ==
    ASSUME RestoreInv, Boot
    PROVE  RestoreInv'
<1> USE DEF RestoreInv
<1>1. /\ phase = "down" /\ phase' = "handlers" /\ mark' = stored
      /\ UNCHANGED <<head, watched, stored, book, open, broken, blocks, flight, known, restore,
                     asking, pushing, watch, reported, faults, apart, excuse>>
  BY DEF Boot, database
<1>2. restore = Idle /\ pushing = {} /\ asking = {} /\ watch = Idle /\ restore.at = "idle"
  BY <1>1 DEF Phases, Idle
<1>3. TypeOK'
  BY <1>1 DEF TypeOK
<1>4. Covered'
  BY <1>1, <1>2 DEF Covered, Down, Old, Before, From
<1>5. Down' /\ Phases' /\ Heights'
  BY <1>1, <1>2 DEF Down, Phases, Heights
<1>6. QED
  BY <1>3, <1>4, <1>5

\* An open stream reports more, and nothing that was covered ceases to be.
LEMMA OpenKeeps ==
    ASSUME RestoreInv, NEW s \in Streams, OpenStream(s)
    PROVE  RestoreInv'
<1> USE DEF RestoreInv
<1>1. /\ phase # "down" /\ open' = open \cup {s}
      /\ UNCHANGED <<head, watched, stored, book, phase, broken, blocks, flight, known, restore,
                     asking, pushing, watch, reported, faults, mark, apart, excuse>>
  BY DEF OpenStream, database, history
<1>2. \A a \in Addrs : Full(a) => Full(a)'
  BY <1>1, StillGrows, FullStays
<1>3. TypeOK'
  BY <1>1 DEF TypeOK
<1>4. Covered'
  BY <1>1, <1>2 DEF Covered, Old, Before, From, Asked, TypeOK
<1>5. Down' /\ Phases' /\ Heights'
  BY <1>1 DEF Down, Phases, Heights, From
<1>6. QED
  BY <1>3, <1>4, <1>5

\* The addresses in wallets at the start are those the node is to be given.
LEMMA FindUsersKeeps ==
    ASSUME RestoreInv, FindUserDataChain
    PROVE  RestoreInv'
<1> USE DEF RestoreInv
<1>1. /\ phase = "handlers" /\ phase' = "users" /\ known' = book /\ restore' = [at |-> "read"]
      /\ UNCHANGED <<head, watched, stored, book, open, broken, blocks, flight, asking, pushing,
                     watch, reported, faults, mark, apart, excuse>>
  BY DEF FindUserDataChain, database, history
<1>2. \A a \in Addrs : Full(a) => Full(a)'
  BY <1>1, StillGrows, FullStays
<1>3. restore'.at = "read"
  BY <1>1
<1>4. TypeOK'
  BY <1>1 DEF TypeOK
<1>5. Covered'
  BY <1>1, <1>2, <1>3 DEF Covered, Old, Before, From, Asked, TypeOK
<1>6. Down' /\ Phases' /\ Heights'
  BY <1>1, <1>3 DEF Down, Phases, Heights, From
<1>7. QED
  BY <1>4, <1>5, <1>6

\* The addresses given at the start become watched.
LEMMA InitialAddKeeps ==
    ASSUME RestoreInv, EventInitialAdd
    PROVE  RestoreInv'
<1> USE DEF RestoreInv
<1>1. /\ phase = "users" /\ phase' = "serving" /\ watched' = watched \cup known
      /\ UNCHANGED <<head, stored, book, open, broken, blocks, flight, known, restore, asking,
                     pushing, watch, reported, faults, mark, apart, excuse>>
  BY DEF EventInitialAdd, database, history
<1>2. \A a \in Addrs : Full(a) => Full(a)'
  BY <1>1, StillGrows, FullStays
<1>3. TypeOK'
  BY <1>1 DEF TypeOK
<1>4. Covered'
  BY <1>1, <1>2 DEF Covered, Old, Before, From, Asked, TypeOK
<1>5. Down' /\ Phases' /\ Heights'
  BY <1>1 DEF Down, Phases, Heights, From
<1>6. QED
  BY <1>3, <1>4, <1>5

\* The height read is the one recorded at the start, or there were no addresses.
LEMMA FetchKeeps ==
    ASSUME RestoreInv, FetchLastSyncBlockState
    PROVE  RestoreInv'
<1> USE DEF RestoreInv
<1>1. /\ restore.at = "read"
      /\ restore' = IF stored - AccuracyRange > 0
                    THEN [at |-> "sync", from |-> stored - AccuracyRange] ELSE [at |-> "done"]
      /\ excuse' \in BOOLEAN
      /\ ~excuse' => ~excuse /\ stored = mark /\ (stored = 0 => book = {})
      /\ UNCHANGED <<head, watched, stored, book, phase, open, broken, blocks, flight, known,
                     asking, pushing, watch, reported, faults, mark, apart>>
  BY DEF FetchLastSyncBlockState, database, TypeOK
<1>2. \A a \in Addrs : Full(a) => Full(a)'
  BY <1>1, StillGrows, FullStays
<1>3. stored - AccuracyRange > 0 \/ stored = 0
  BY Numbers DEF Heights
<1>4. phase \notin {"down", "handlers"}
  BY <1>1 DEF Phases, Idle
<1>5. CASE stored - AccuracyRange > 0
  <2>1. restore' = [at |-> "sync", from |-> stored - AccuracyRange]
        /\ restore'.at = "sync" /\ restore'.from = stored - AccuracyRange
    BY <1>1, <1>5
  <2>2. (stored - AccuracyRange) \in 1..head
    BY <1>5, Numbers, RestoreAssumption DEF TypeOK
  <2>3. TypeOK'
    BY <1>1, <2>1, <2>2 DEF TypeOK
  <2>4. Covered'
    BY <1>1, <1>2, <2>1 DEF Covered, Old, Before, From, Asked, TypeOK
  <2>5. Down' /\ Phases' /\ Heights'
    BY <1>1, <1>4, <2>1 DEF Down, Phases, Heights, From
  <2>6. QED
    BY <2>3, <2>4, <2>5
<1>6. CASE ~(stored - AccuracyRange > 0)
  <2>1. restore' = [at |-> "done"] /\ restore'.at = "done"
    BY <1>1, <1>6
  <2>2. TypeOK'
    BY <1>1, <2>1 DEF TypeOK
  <2>3. Covered'
    BY <1>1, <1>2, <1>3, <1>6, <2>1 DEF Covered, Old, Asked, TypeOK
  <2>4. Down' /\ Phases' /\ Heights'
    BY <1>1, <1>4, <2>1 DEF Down, Phases, Heights, From
  <2>5. QED
    BY <2>2, <2>3, <2>4
<1>7. QED
  BY <1>5, <1>6

\* The node's answer makes up for what was not reported, or the run is excused.
LEMMA SyncKeeps ==
    ASSUME RestoreInv, SyncState
    PROVE  RestoreInv'
<1> USE DEF RestoreInv
<1>1. /\ restore.at = "sync" /\ restore' = [at |-> "done"] /\ restore'.at = "done"
      /\ excuse' \in BOOLEAN /\ (excuse => excuse')
      /\ UNCHANGED <<head, watched, stored, book, phase, open, broken, blocks, known,
                     asking, pushing, watch, reported, faults, mark, apart>>
      /\ \/ /\ Sends(Pairs(watched, restore.from))
            /\ ~excuse' => Listening /\ book \ apart \subseteq watched
         \/ excuse' /\ flight' = flight
  BY DEF SyncState, database, TypeOK
<1>2. restore.from \in 1..head /\ phase \notin {"down", "handlers"} /\ head \in Nat
  BY <1>1, Numbers DEF TypeOK, Phases, Idle
<1>3. Pairs(watched, restore.from) \in SUBSET (Addrs \X (1..head))
  BY <1>2 DEF TypeOK, Pairs
<1>4. /\ flight' \in Seq(SUBSET (Addrs \X (1..head)))
      /\ \A p : InFlight(p) => InFlight(p)'
      /\ ~excuse' => \A p \in Pairs(watched, restore.from) : InFlight(p)'
  <2>1. CASE Sends(Pairs(watched, restore.from)) /\ (~excuse' => Listening)
    <3>1. head' \in Nat /\ head' >= head /\ head' = head
      BY <1>1, <1>2
    <3>2. QED
      BY <1>3, <2>1, <3>1, SendsKeeps
  <2>2. CASE excuse' /\ flight' = flight
    BY <2>2 DEF TypeOK, InFlight
  <2>3. QED
    BY <1>1, <2>1, <2>2
<1>5. Grows
  BY <1>1, <1>4 DEF Grows, Has
<1>6. \A a \in Addrs : Full(a) => Full(a)'
  BY <1>5, FullStays
<1>7. TypeOK'
  BY <1>1, <1>4 DEF TypeOK
<1>8. Covered'
  <2> SUFFICES ASSUME ~excuse', phase # "down", ~broken, NEW a \in (book \cup pushing) \ apart
               PROVE  Full(a)' \/ Old(a)' \/ Asked(a)'
    BY <1>1 DEF Covered
  <2>1. Full(a) \/ Old(a) \/ Asked(a)
    BY <1>1 DEF Covered
  <2>2. CASE Old(a)
    <3>1. a \in watched /\ "tx" \in open /\ restore.from = From
      BY <1>1, <2>2 DEF Old, Listening, Phases
    <3>2. \A h \in 1..head : h \in 1..(From - 1) \/ h \in From..head
      BY <1>2, <3>1
    <3>3. \A h \in From..head : InFlight(<<a, h>>)'
      <4>1. \A h \in From..head : <<a, h>> \in Pairs(watched, restore.from)
        BY <3>1 DEF Pairs
      <4>2. QED
        BY <1>4, <4>1
    <3>4. \A h \in 1..head : Has(<<a, h>>)'
      BY <1>1, <2>2, <3>2, <3>3 DEF Old, Before, Has
    <3>5. QED
      BY <1>1, <3>1, <3>4 DEF Full
  <2>3. QED
    BY <1>1, <1>6, <2>1, <2>2 DEF Asked, TypeOK
<1>9. Down' /\ Phases' /\ Heights'
  BY <1>1, <1>2 DEF Down, Phases, Heights
<1>10. QED
  BY <1>7, <1>8, <1>9

\* What a crash loses is asked for again, or the run is excused.
LEMMA CrashKeeps ==
    ASSUME RestoreInv, Crash
    PROVE  RestoreInv'
<1> USE DEF RestoreInv
<1>1. /\ faults < MaxFaults /\ faults' = faults + 1
      /\ phase' = "down" /\ open' = {} /\ broken' = FALSE
      /\ blocks' = <<>> /\ flight' = <<>> /\ known' = {} /\ restore' = Idle
      /\ asking' = {} /\ pushing' = {} /\ watch' = Idle
      /\ apart' = apart \cup {a \in book : <<a, 1>> \notin reported}
      /\ excuse' \in BOOLEAN /\ (~excuse' => ~Late)
      /\ UNCHANGED <<head, watched, stored, book, reported, mark>>
  BY DEF Crash, database, TypeOK
<1>2. TypeOK'
  <2>1. faults' \in 0..MaxFaults
    BY <1>1, Numbers DEF TypeOK
  <2>2. flight' \in Seq(SUBSET (Addrs \X (1..head))) /\ blocks' \in Seq(1..head)
    BY <1>1, EmptySeq
  <2>3. QED
    BY <1>1, <2>1, <2>2 DEF TypeOK
<1>3. Down'
  <2> SUFFICES ASSUME ~Late, NEW a \in book \ apart', NEW h \in 1..(stored - AccuracyRange - 1)
               PROVE  <<a, h>> \in reported
    BY <1>1 DEF Down
  <2>1. <<a, 1>> \in reported
    BY <1>1
  <2>2. QED
    BY <2>1 DEF Late
<1>4. Covered'
  BY <1>1 DEF Covered
<1>5. Phases' /\ Heights'
  BY <1>1, EmptySeq DEF Phases, Heights, Idle
<1>6. QED
  BY <1>2, <1>3, <1>4, <1>5

-----------------------------------------------------------------------------
(* The streams.                                                              *)

\* The height recorded is of a block that there is.
LEMMA NewBlockEventKeeps ==
    ASSUME RestoreInv, EventNewBlock
    PROVE  RestoreInv'
<1> USE DEF RestoreInv
<1>1. /\ blocks # <<>> /\ stored' = Head(blocks) /\ blocks' = Tail(blocks)
      /\ UNCHANGED <<head, watched, book, phase, open, broken, flight, known, restore,
                     asking, pushing, watch, reported, faults, mark, apart, excuse>>
  BY DEF EventNewBlock, history
<1>2. /\ stored' = blocks[1] /\ stored' \in 1..head /\ 1 \in 1..Len(blocks)
      /\ blocks' \in Seq(1..head)
      /\ \A i \in 1..Len(blocks') : (i + 1) \in 1..Len(blocks) /\ blocks'[i] = blocks[i + 1]
  <2>1. blocks \in Seq(1..head)
    BY DEF TypeOK
  <2>2. Len(blocks) \in Nat \ {0}
    BY <1>1, <2>1, EmptySeq
  <2>3. /\ Head(blocks) = blocks[1] /\ Tail(blocks) \in Seq(1..head)
        /\ Len(Tail(blocks)) = Len(blocks) - 1
        /\ \A i \in 1..Len(Tail(blocks)) : Tail(blocks)[i] = blocks[i + 1]
    BY <1>1, <2>1, HeadTailProperties
  <2>4. blocks[1] \in 1..head
    BY <2>2, Numbers
  <2>5. QED
    BY <1>1, <2>2, <2>3, <2>4
<1>3. \A a \in Addrs : Full(a) => Full(a)'
  BY <1>1, StillGrows, FullStays
<1>4. TypeOK'
  <2>1. stored' \in 0..head
    BY <1>2, Numbers
  <2>2. QED
    BY <1>1, <1>2, <2>1 DEF TypeOK
<1>5. Covered'
  BY <1>1, <1>3 DEF Covered, Old, Before, From, Asked, TypeOK
<1>6. Down' /\ Phases'
  BY <1>1 DEF Down, Phases, From
<1>7. Heights'
  BY <1>2 DEF Heights
<1>8. QED
  BY <1>4, <1>5, <1>6, <1>7

\* With a height of zero there are no blocks before the restored range.
LEMMA NewBlockErrorKeeps ==
    ASSUME RestoreInv, EventNewBlockError
    PROVE  RestoreInv'
<1> USE DEF RestoreInv
<1>1. /\ phase # "down" /\ broken /\ stored' = 0
      /\ UNCHANGED <<head, watched, book, phase, open, broken, blocks, flight, known, restore,
                     asking, pushing, watch, reported, faults, mark, apart, excuse>>
  BY DEF EventNewBlockError, server, history
<1>2. TypeOK'
  BY <1>1, Numbers DEF TypeOK
<1>3. Covered' /\ Down' /\ Phases' /\ Heights'
  BY <1>1 DEF Covered, Down, Phases, Heights, From
<1>4. QED
  BY <1>2, <1>3

\* What is saved has been reported.
LEMMA NewTxKeeps ==
    ASSUME RestoreInv, NewTx
    PROVE  RestoreInv'
<1> USE DEF RestoreInv
<1>1. /\ flight # <<>> /\ reported' = reported \cup Head(flight) /\ flight' = Tail(flight)
      /\ UNCHANGED <<head, watched, stored, book, phase, open, broken, blocks, known, restore,
                     asking, pushing, watch, faults, mark, apart, excuse>>
  BY DEF NewTx, database
<1>2. PICK n \in Nat : n = Len(flight)
  BY Numbers
<1>3. /\ flight' \in Seq(SUBSET (Addrs \X (1..head))) /\ n # 0 /\ Len(flight') = n - 1
      /\ reported' = reported \cup flight[1] /\ flight[1] \subseteq Addrs \X (1..head)
      /\ \A i \in 1..(n - 1) : flight'[i] = flight[i + 1]
  <2>1. flight \in Seq(SUBSET (Addrs \X (1..head)))
    BY DEF TypeOK
  <2>2. /\ Head(flight) = flight[1] /\ Head(flight) \in SUBSET (Addrs \X (1..head))
        /\ Tail(flight) \in Seq(SUBSET (Addrs \X (1..head)))
        /\ n \in Nat \ {0} /\ Len(Tail(flight)) = n - 1
        /\ \A i \in 1..Len(Tail(flight)) : Tail(flight)[i] = flight[i + 1]
    BY <1>1, <1>2, <2>1, EmptySeq, HeadTailProperties
  <2>3. QED
    BY <1>1, <2>2
<1>4. ASSUME NEW p, Has(p) PROVE Has(p)'
  <2>1. CASE p \in reported
    BY <1>1, <2>1 DEF Has
  <2>2. CASE InFlight(p)
    <3>1. PICK i \in 1..n : p \in flight[i]
      BY <1>2, <2>2 DEF InFlight
    <3>2. CASE i = 1
      BY <1>3, <3>1, <3>2 DEF Has
    <3>3. CASE i # 1
      <4>1. (i - 1) \in 1..(n - 1) /\ (i - 1) + 1 = i
        BY <1>3, <3>3
      <4>2. p \in flight'[i - 1]
        BY <1>3, <3>1, <4>1
      <4>3. QED
        BY <1>3, <4>1, <4>2 DEF Has, InFlight
    <3>4. QED
      BY <3>2, <3>3
  <2>3. QED
    BY <1>4, <2>1, <2>2 DEF Has
<1>5. \A a \in Addrs : Full(a) => Full(a)'
  <2>1. Grows
    BY <1>1, <1>4 DEF Grows
  <2>2. QED
    BY <2>1, FullStays
<1>6. TypeOK'
  BY <1>1, <1>3 DEF TypeOK
<1>7. reported \subseteq reported'
  BY <1>1
<1>8. Covered'
  BY <1>1, <1>5, <1>7 DEF Covered, Old, Before, From, Asked, TypeOK
<1>9. Down' /\ Phases' /\ Heights'
  BY <1>1 DEF Down, Phases, Heights, From
<1>10. QED
  BY <1>6, <1>8, <1>9

-----------------------------------------------------------------------------
(* New addresses.                                                            *)

\* A wallet on its way has an address that the node is to be told.
LEMMA CreateKeeps ==
    ASSUME RestoreInv, NEW a \in Addrs, CreateCustomWallet(a)
    PROVE  RestoreInv'
<1> USE DEF RestoreInv
<1>1. /\ phase = "serving" /\ asking' = asking \cup {a} /\ pushing' = pushing \cup {a}
      /\ UNCHANGED <<head, watched, stored, book, phase, open, broken, blocks, flight, known,
                     restore, watch, reported, faults, mark, apart, excuse>>
  BY DEF CreateCustomWallet, database, history
<1>2. \A b \in Addrs : Full(b) => Full(b)'
  BY <1>1, StillGrows, FullStays
<1>3. TypeOK'
  BY <1>1 DEF TypeOK
<1>4. Covered'
  BY <1>1, <1>2 DEF Covered, Old, Before, From, Asked, TypeOK
<1>5. Down' /\ Phases' /\ Heights'
  BY <1>1 DEF Down, Phases, Heights, From
<1>6. QED
  BY <1>3, <1>4, <1>5

\* A pushed wallet was covered while it was on its way.
LEMMA PushKeeps ==
    ASSUME RestoreInv, NEW a \in Addrs, PushWallet(a)
    PROVE  RestoreInv'
<1> USE DEF RestoreInv
<1>1. /\ a \in pushing /\ pushing' = pushing \ {a} /\ book' = book \cup {a}
      /\ UNCHANGED <<head, watched, stored, phase, open, broken, blocks, flight, known,
                     restore, asking, watch, reported, faults, mark, apart, excuse>>
  BY DEF PushWallet, history
<1>2. \A b \in Addrs : Full(b) => Full(b)'
  BY <1>1, StillGrows, FullStays
<1>3. phase = "serving"
  BY <1>1 DEF Phases
<1>4. TypeOK'
  BY <1>1 DEF TypeOK
<1>5. Covered'
  BY <1>1, <1>2 DEF Covered, Old, Before, From, Asked, TypeOK
<1>6. Down' /\ Phases' /\ Heights'
  BY <1>1, <1>3 DEF Down, Phases, Heights, From
<1>7. QED
  BY <1>4, <1>5, <1>6

\* An added address is one of those apart: nobody tells the node of it.
LEMMA AddAddressKeeps ==
    ASSUME RestoreInv, NEW a \in Addrs, AddAddress(a)
    PROVE  RestoreInv'
<1> USE DEF RestoreInv
<1>1. /\ phase = "serving" /\ book' = book \cup {a} /\ apart' = apart \cup {a}
      /\ UNCHANGED <<head, watched, stored, phase, open, broken, blocks, flight, known,
                     restore, asking, pushing, watch, reported, faults, mark, excuse>>
  BY DEF AddAddress, server
<1>2. \A b \in Addrs : Full(b) => Full(b)'
  BY <1>1, StillGrows, FullStays
<1>3. TypeOK'
  BY <1>1 DEF TypeOK
<1>4. Covered'
  BY <1>1, <1>2 DEF Covered, Old, Before, From, Asked, TypeOK
<1>5. Down' /\ Phases' /\ Heights'
  BY <1>1 DEF Down, Phases, Heights, From
<1>6. QED
  BY <1>3, <1>4, <1>5

\* The address that NewAddressNode takes up is still to be told to the node.
LEMMA NewAddressKeeps ==
    ASSUME RestoreInv, NEW a \in Addrs, NewAddressNode(a)
    PROVE  RestoreInv'
<1> USE DEF RestoreInv
<1>1. /\ watch = Idle /\ a \in asking /\ asking' = asking \ {a}
      /\ watch' = [at |-> "add", addr |-> a]
      /\ UNCHANGED <<head, watched, stored, book, phase, open, broken, blocks, flight, known,
                     restore, pushing, reported, faults, mark, apart, excuse>>
  BY DEF NewAddressNode, database, history
<1>2. \A b \in Addrs : Full(b) => Full(b)'
  BY <1>1, StillGrows, FullStays
<1>3. watch' # Idle /\ watch'.addr = a /\ watch'.at = "add" /\ watch' \in [at : {"add", "resync"}, addr : Addrs]
  <2>1. watch'.at = "add" /\ watch'.addr = a /\ Idle.at = "idle"
    BY <1>1 DEF Idle
  <2>2. QED
    BY <1>1, <2>1
<1>4. phase = "serving"
  BY <1>1 DEF Phases
<1>5. TypeOK'
  BY <1>1, <1>3 DEF TypeOK
<1>6. Covered'
  BY <1>1, <1>2, <1>3 DEF Covered, Old, Before, From, Asked, TypeOK
<1>7. Down' /\ Phases' /\ Heights'
  BY <1>1, <1>4 DEF Down, Phases, Heights, From
<1>8. QED
  BY <1>5, <1>6, <1>7

\* A new address is watched before the node is asked to go through its blocks.
LEMMA WatchAddKeeps ==
    ASSUME RestoreInv, EventAddNewAddress
    PROVE  RestoreInv'
<1> USE DEF RestoreInv
<1>1. /\ watch.at = "add" /\ watch' = [watch EXCEPT !.at = "resync"]
      /\ \/ watched' = watched \cup {watch.addr} /\ apart' = apart
         \/ watched' = watched /\ apart' = apart \cup {watch.addr}
      /\ UNCHANGED <<head, stored, book, phase, open, broken, blocks, flight, known, restore,
                     asking, pushing, reported, faults, mark, excuse>>
  BY DEF EventAddNewAddress, Fails, database
<1>2. \A b \in Addrs : Full(b) => Full(b)'
  BY <1>1, StillGrows, FullStays
<1>3. /\ watch # Idle /\ watch' # Idle /\ watch.addr \in Addrs /\ watch'.addr = watch.addr
      /\ watch'.at = "resync" /\ watch' \in [at : {"add", "resync"}, addr : Addrs]
  <2>1. watch \in [at : {"add", "resync"}, addr : Addrs] /\ Idle.at = "idle"
    BY <1>1 DEF TypeOK, Idle
  <2>2. watch'.at = "resync" /\ watch'.addr = watch.addr
    BY <1>1, <2>1
  <2>3. QED
    BY <1>1, <2>1, <2>2
<1>4. phase = "serving"
  BY <1>3 DEF Phases
<1>5. TypeOK'
  BY <1>1, <1>3 DEF TypeOK
<1>6. Covered'
  BY <1>1, <1>2, <1>3 DEF Covered, Old, Before, From, Asked, TypeOK
<1>7. Down' /\ Phases' /\ Heights'
  BY <1>1, <1>4 DEF Down, Phases, Heights, From
<1>8. QED
  BY <1>5, <1>6, <1>7

\* The node goes through all its blocks for the address, or it is one of those apart.
LEMMA ResyncKeeps ==
    ASSUME RestoreInv, EventResyncAddress
    PROVE  RestoreInv'
<1> USE DEF RestoreInv
<1>1. /\ watch.at = "resync" /\ watch' = Idle
      /\ \/ Sends(Pairs({watch.addr}, 1)) /\ Listening /\ apart' = apart
         \/ Sends(Pairs({watch.addr}, 1)) /\ apart' = apart \cup {watch.addr}
         \/ flight' = flight /\ apart' = apart \cup {watch.addr}
      /\ UNCHANGED <<head, watched, stored, book, phase, open, broken, blocks, known, restore,
                     asking, pushing, reported, faults, mark, excuse>>
  BY DEF EventResyncAddress, Fails, database
<1>2. watch # Idle /\ watch.addr \in Addrs /\ head \in Nat
  BY <1>1, Numbers DEF TypeOK, Idle
<1>3. Pairs({watch.addr}, 1) \in SUBSET (Addrs \X (1..head))
  BY <1>2 DEF Pairs
<1>4. /\ flight' \in Seq(SUBSET (Addrs \X (1..head)))
      /\ \A p : InFlight(p) => InFlight(p)'
      /\ apart' = apart => watch.addr \in apart \/ (Listening /\ \A p \in Pairs({watch.addr}, 1) : InFlight(p)')
  <2>1. CASE Sends(Pairs({watch.addr}, 1))
    <3>1. head' \in Nat /\ head' >= head /\ head' = head
      BY <1>1, <1>2
    <3>2. QED
      BY <1>1, <1>3, <2>1, <3>1, SendsKeeps
  <2>2. CASE flight' = flight /\ apart' = apart \cup {watch.addr}
    BY <2>2 DEF TypeOK, InFlight
  <2>3. QED
    BY <1>1, <2>1, <2>2
<1>5. \A b \in Addrs : Full(b) => Full(b)'
  <2>1. Grows
    BY <1>1, <1>4 DEF Grows, Has
  <2>2. QED
    BY <2>1, FullStays
<1>6. TypeOK'
  BY <1>1, <1>2, <1>4 DEF TypeOK
<1>7. Covered'
  <2> SUFFICES ASSUME ~excuse, phase # "down", ~broken, NEW a \in (book \cup pushing) \ apart'
               PROVE  Full(a)' \/ Old(a)' \/ Asked(a)'
    BY <1>1 DEF Covered
  <2>1. a \in Addrs /\ a \notin apart /\ (Full(a) \/ Old(a) \/ Asked(a))
    BY <1>1 DEF Covered, TypeOK
  <2>2. CASE watch.addr = a /\ a \in watched
    <3>1. apart' = apart
      BY <1>1, <2>2
    <3>2. Listening /\ \A h \in 1..head : InFlight(<<a, h>>)'
      <4>1. \A h \in 1..head : <<a, h>> \in Pairs({watch.addr}, 1)
        BY <1>2, <2>2 DEF Pairs
      <4>2. QED
        BY <1>4, <2>1, <2>2, <3>1, <4>1
    <3>3. QED
      BY <1>1, <2>2, <3>2 DEF Full, Has, Listening
  <2>3. CASE ~(watch.addr = a /\ a \in watched)
    BY <1>1, <1>5, <2>1, <2>3 DEF Old, Before, From, Asked
  <2>4. QED
    BY <2>2, <2>3
<1>8. phase = "serving"
  BY <1>2 DEF Phases
<1>9. Down' /\ Phases' /\ Heights'
  BY <1>1, <1>8 DEF Down, Phases, Heights, From
<1>10. QED
  BY <1>6, <1>7, <1>9

-----------------------------------------------------------------------------
\* At the beginning all blocks have been reported.
LEMMA InitRestore == Init => RestoreInv
<1> SUFFICES ASSUME Init PROVE RestoreInv
  OBVIOUS
<1>1. /\ head = Base /\ book \subseteq Addrs /\ watched = book
      /\ stored = (IF book = {} THEN 0 ELSE Base)
      /\ phase = "down" /\ open = {} /\ broken = FALSE /\ blocks = <<>> /\ flight = <<>>
      /\ known = {} /\ restore = Idle /\ asking = {} /\ pushing = {} /\ watch = Idle
      /\ reported = book \X (1..Base)
      /\ faults = 0 /\ mark = 0 /\ apart = {} /\ excuse = FALSE
  BY DEF Init
<1>2. Base \in Nat /\ AccuracyRange \in Nat /\ Base <= MaxHead /\ MaxFaults \in Nat /\ MaxHead \in Nat
  BY RestoreAssumption
<1>3. blocks \in Seq(1..head) /\ flight \in Seq(SUBSET (Addrs \X (1..head))) /\ Len(blocks) = 0
  BY <1>1, EmptySeq
<1>4. TypeOK
  <2>1. head \in Base..MaxHead /\ stored \in 0..head /\ faults \in 0..MaxFaults /\ mark \in 0..head
    BY <1>1, <1>2
  <2>2. reported \subseteq Addrs \X (1..head)
    BY <1>1
  <2>3. QED
    BY <1>1, <1>3, <2>1, <2>2 DEF TypeOK
<1>5. Covered /\ Phases
  BY <1>1 DEF Covered, Phases, Idle
<1>6. Down
  <2>1. \A h \in 1..(stored - AccuracyRange - 1) : h \in 1..Base
    BY <1>1, <1>2
  <2>2. QED
    BY <1>1, <2>1 DEF Down
<1>7. Heights
  BY <1>1, <1>2, <1>3 DEF Heights
<1>8. QED
  BY <1>4, <1>5, <1>6, <1>7 DEF RestoreInv

\* Steps that change nothing keep the invariant.
LEMMA StutterRestore ==
    ASSUME RestoreInv, UNCHANGED vars
    PROVE  RestoreInv'
<1> USE DEF RestoreInv
<1>1. UNCHANGED <<head, watched, stored, book, phase, open, broken, blocks, flight, known, restore,
                  asking, pushing, watch, reported, faults, mark, apart, excuse>>
  BY DEF vars, database, server, history
<1>2. \A b \in Addrs : Full(b) => Full(b)'
  BY <1>1, StillGrows, FullStays
<1>3. TypeOK'
  BY <1>1 DEF TypeOK
<1>4. Covered'
  BY <1>1, <1>2 DEF Covered, Old, Before, From, Asked, TypeOK
<1>5. Down' /\ Phases' /\ Heights'
  BY <1>1 DEF Down, Phases, Heights, From
<1>6. QED
  BY <1>3, <1>4, <1>5

\* Every step keeps the invariant.
LEMMA NextRestore ==
    ASSUME RestoreInv, [Next]_vars
    PROVE  RestoreInv'
<1>1. CASE NewBlock \/ NodeRestart
  BY <1>1, NewBlockKeeps, NodeRestartKeeps
<1>2. CASE \/ Boot \/ FindUserDataChain \/ EventInitialAdd \/ FetchLastSyncBlockState \/ SyncState
           \/ Crash \/ \E s \in Streams : OpenStream(s)
  BY <1>2, BootKeeps, FindUsersKeeps, InitialAddKeeps, FetchKeeps, SyncKeeps, CrashKeeps, OpenKeeps
<1>3. CASE EventNewBlock \/ EventNewBlockError \/ NewTx
  BY <1>3, NewBlockEventKeeps, NewBlockErrorKeeps, NewTxKeeps
<1>4. CASE \/ \E a \in Addrs : CreateCustomWallet(a) \/ PushWallet(a) \/ AddAddress(a) \/ NewAddressNode(a)
           \/ EventAddNewAddress \/ EventResyncAddress
  BY <1>4, CreateKeeps, PushKeeps, AddAddressKeeps, NewAddressKeeps, WatchAddKeeps, ResyncKeeps
<1>5. CASE UNCHANGED vars
  BY <1>5, StutterRestore
<1>6. QED
  BY <1>1, <1>2, <1>3, <1>4, <1>5 DEF Next

\* Why no block is or will be missing for an address holds in every reachable
\* state: the argument of the theorems below.
THEOREM RestoreInvariant == Spec => []RestoreInv
<1>1. RestoreInv /\ [Next]_vars => RestoreInv'
  BY NextRestore
<1>2. QED
  BY InitRestore, <1>1, PTL DEF Spec

\* Every variable holds a value of its kind, and restoreState asks the node for a
\* block that there is.
THEOREM RestoreTyped == Spec => []TypeOK
<1>1. RestoreInv => TypeOK
  BY DEF RestoreInv
<1>2. QED
  BY RestoreInvariant, <1>1, PTL

\* Once SetUserData and restoreState are done and the NewTx stream is read, the
\* server has been told of all blocks for all its addresses, but in the
\* circumstances that RestNoGap names.
THEOREM RestoreNoGap == Spec => []RestNoGap
<1>1. ASSUME RestoreInv PROVE RestNoGap
  <2> SUFFICES ASSUME AtRest, ~excuse, NEW a \in book \ apart, NEW h \in 1..head
               PROVE  <<a, h>> \in reported
    BY DEF RestNoGap
  <2>1. Full(a) \/ Old(a) \/ Asked(a)
    BY <1>1 DEF RestoreInv, Covered, AtRest
  <2>2. Full(a)
    BY <2>1 DEF Old, Asked, AtRest
  <2>3. Len(flight) = 0
    BY EmptySeq DEF AtRest
  <2>4. QED
    BY <2>2, <2>3 DEF Full, Has, InFlight
<1>2. QED
  BY RestoreInvariant, <1>1, PTL

=============================================================================
