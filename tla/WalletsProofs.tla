--------------------------- MODULE WalletsProofs ---------------------------
(***************************************************************************)
(* What the app was told of its account stays true, for any devices,       *)
(* wallets and number of requests, as long as the account is one document  *)
(* and no login has rewritten what had changed since it was read (Sound).  *)
(* Then every position that a request or a report carries is that of the   *)
(* wallet it was read for: positions only ever grow (Placed), and the      *)
(* other invariants follow the list of wallets and the list of devices.    *)
(***************************************************************************)
EXTENDS Wallets, TLAPS, SequenceTheorems, FiniteSetTheorems, WellFoundedInduction

-----------------------------------------------------------------------------
(* The kinds of values.                                                      *)

Positions == Nat \ {0}
Instants == 1..MaxSeconds
Device == [id : Devices, jwt : Instants]
TornWallet == [key : {Torn.key}, status : {"none", "ok", "deleted"},
               addrs : SUBSET Addresses, by : SUBSET Keys]
Entry == Wallet \cup TornWallet
Doc == [devices : Seq(Device), wallets : Seq(Entry)]
Asked == Addresses \cup {<<Torn.key, 0>>}
Seen == Seq(Doc) \X SUBSET Addresses

\* A request by what it is about to do, with what it carries.
Inserting == [op : {"login"}, at : {"insert"}, dev : Devices, jwt : Instants, old : {0}, doc : {<<>>}]
Refreshing == [op : {"login"}, at : {"refresh"}, dev : Devices, jwt : Instants,
               old : Instants, doc : {<<>>}]
Rewriting == [op : {"login"}, at : {"rewrite"}, dev : Devices, jwt : Instants, old : {0}, doc : Doc]
Creation == [op : {"create"}, at : {"check", "read", "push"}, key : Keys, jwt : Instants]
Mixed == [op : {"mixed"}, at : {"check", "read", "push"}, key : {k \in Keys : Imported(k)}, jwt : Instants]
Discovery == [op : {"discover"}, at : {"read", "push"}, key : Keys, jwt : Instants]
Adding == [op : {"address", "send"}, at : {"send", "read"}, key : Keys, jwt : Instants]
AddingAt == [op : {"address", "send"}, at : {"push"}, key : Keys, jwt : Instants, pos : Positions]
Naming == [op : {"rename"}, at : {"read"}, key : Keys, jwt : Instants]
NamingAt == [op : {"rename"}, at : {"set"}, key : Keys, pos : Positions]
Breaking == [op : {"broken"}, at : {"set"}, key : Keys, jwt : Instants]
Deleting == [op : {"delete"}, at : {"read"}, key : Keys, jwt : Instants]
Weighing == [op : {"delete"}, at : {"weigh", "imported", "locate"}, key : Keys,
             asked : SUBSET Asked, seen : Seen]
DeletingAt == [op : {"delete"}, at : {"mark"}, key : Keys,
               asked : SUBSET Asked, seen : Seen, pos : Positions]

Request == {Idle} \cup Inserting \cup Refreshing \cup Rewriting
             \cup Creation \cup Mixed \cup Discovery \cup Adding \cup AddingAt
             \cup Naming \cup NamingAt \cup Breaking
             \cup Deleting \cup Weighing \cup DeletingAt

Told == ({"wallet", "deleted", "address"} \X Keys) \cup ({"token"} \X Devices)
Touching == [op : {"touch"}, addr : Addresses, pos : Positions]

\* Without an account there is no token, and only first logins are served.
NoAccount ==
    docs = <<>> => /\ \A d \in Devices : token[d] = 0
                   /\ \A r \in Reqs : req[r] \in {Idle} \cup Inserting

Typed ==
    /\ docs \in Seq(Doc)
    /\ token \in [Devices -> 0..MaxSeconds] /\ now \in Instants
    /\ req \in [Reqs -> Request] /\ requests \in 0..MaxRequests
    /\ funds \subseteq Addresses /\ reports \in Seq(Addresses)
    /\ touch \in {Idle} \cup Touching
    /\ answered \subseteq Told /\ sent \subseteq Keys /\ cut \subseteq Keys
    /\ granted \subseteq Devices \X Instants /\ overtook \in BOOLEAN
    /\ hid \subseteq Keys /\ revived \subseteq Keys
    /\ NoAccount

-----------------------------------------------------------------------------
(* The invariants of a sound account.                                        *)

\* The devices and the wallets of the account.
Devs == IF docs = <<>> THEN <<>> ELSE docs[1].devices
List == IF docs = <<>> THEN <<>> ELSE docs[1].wallets

Listed(k) == \E i \in DOMAIN List : List[i].key = k
PointsTo(p, k) == p \in DOMAIN List /\ List[p].key = k
Several == \E i, j \in DOMAIN List : i # j /\ Imported(List[i].key) /\ Imported(List[j].key)

\* A wallet has its own addresses, the first among them, and its own changes.
Own(w) ==
    /\ w \in Wallet /\ <<w.key, 0>> \in w.addrs
    /\ \A a \in w.addrs : a[1] = w.key
    /\ \A k \in w.by : k = w.key \/ (Imported(k) /\ Imported(w.key) /\ Several)
OwnKept == \A i \in DOMAIN List : Own(List[i])

ToldWallets == \A k \in Keys : <<"wallet", k>> \in answered => Listed(k)

\* A request about a wallet has one to be about, at the position it has read.
Aimed(r) ==
    /\ req[r].op \in {"address", "send", "rename", "broken", "delete"} => Listed(req[r].key)
    /\ req[r] \in AddingAt \cup NamingAt \cup DeletingAt => PointsTo(req[r].pos, req[r].key)
    /\ req[r].op = "delete" /\ req[r].at = "imported" => Imported(req[r].key)

\* The report in progress is about the wallet at its position.
Paid == touch # Idle => touch.pos \in DOMAIN List /\ touch.addr \in List[touch.pos].addrs

Placed == OwnKept /\ ToldWallets /\ Paid /\ \A r \in Reqs : Aimed(r)

\* Devices only lose a token that another device was given too.
Granted ==
    /\ \A i \in DOMAIN Devs : <<Devs[i].id, Devs[i].jwt>> \in granted
    /\ \A r \in Reqs : req[r] \in Refreshing => <<req[r].dev, req[r].old>> \in granted
    /\ \A d \in Devices : <<"token", d>> \in answered =>
         /\ <<d, token[d]>> \in granted
         /\ \E i \in DOMAIN Devs : Devs[i].jwt = token[d]

Pushing(k) == {r \in Reqs : Creating(r) /\ req[r].at = "push" /\ req[r].key = k}
Copies == \A k \in Keys : \/ Imported(k)
                          \/ Cardinality(Matches(List, k)) + Cardinality(Pushing(k)) <= Cardinality(Reqs)

AddressKept(k) == \E i \in DOMAIN List : List[i].key = k /\ NextAddress(k) \in List[i].addrs
Deleted(k) == \E i \in DOMAIN List : List[i].key = k /\ List[i].status = "deleted"

ToldAddresses == \A k \in Keys : <<"address", k>> \in answered => AddressKept(k)
ToldDeletions == \A k \in Keys : <<"deleted", k>> \in answered =>
                    Deleted(k) \/ k \in revived \/ (Imported(k) /\ Several)

\* A payment that is sent and whose change address is still to be added.
Owed(k) == \E r \in Reqs : req[r].op = "send" /\ req[r].at # "send" /\ req[r].key = k
Change == \A k \in sent : AddressKept(k) \/ Owed(k) \/ k \in cut

\* An address with a balance is shown, or its wallet was hidden unweighed, or
\* the report that will show it is on its way.
Shown(a) == \E i \in DOMAIN List : a \in List[i].addrs /\ List[i].status = "ok"
Reported(a) == a \in ToSet(reports) \/ (touch # Idle /\ touch.addr = a)
Balances ==
    \A a \in funds :
        /\ \E i \in DOMAIN List : a \in List[i].addrs
        /\ Imported(a[1]) \/ a[1] \in hid \/ Reported(a) \/ Shown(a)

\* What a deletion knows of the balances: those it saw, of the addresses of the
\* list it saw, and none of the wallet's own chain once it is past the weighing.
Weighs(r) ==
    /\ req[r] \in Weighing \cup DeletingAt =>
         /\ req[r].seen[1] # <<>> /\ req[r].asked = Weighed(req[r].seen[1][1].wallets, req[r].key)
         /\ req[r].seen[2] \subseteq funds
    /\ (At(r, "delete", "locate") \/ At(r, "delete", "mark")) /\ Looked(req[r].key) =>
            \A a \in req[r].asked \cap req[r].seen[2] : Chain(a[1]) # Chain(req[r].key)

Funded == Balances /\ ToSet(reports) \subseteq funds /\ \A r \in Reqs : Weighs(r)

-----------------------------------------------------------------------------
WalletsInv ==
    /\ Typed
    /\ Sound => /\ Placed /\ Copies /\ ToldAddresses /\ ToldDeletions /\ Change /\ Funded
                /\ ~SharedToken => Granted

-----------------------------------------------------------------------------
(* The least and the greatest of a set of positions.                         *)

\* A set of numbers has a least.
LEMMA LeastOf ==
    ASSUME NEW S \in SUBSET Nat, S # {}
    PROVE  Min(S) \in S /\ \A y \in S : Min(S) <= y
<1>1. PICK x \in S : \A y \in S : ~(<<y, x>> \in OpToRel(<, Nat))
  BY NatLessThanWellFounded, WFMin
<1>2. \A y \in S : x <= y
  <2> SUFFICES ASSUME NEW y \in S, ~(x <= y) PROVE FALSE
    OBVIOUS
  <2>1. y < x /\ y \in Nat /\ x \in Nat
    OBVIOUS
  <2>2. QED
    BY <1>1, <2>1 DEF OpToRel
<1>3. QED
  BY <1>2 DEF Min

\* A set of numbers up to a bound has a greatest.
LEMMA GreatestOf ==
    ASSUME NEW n \in Nat, NEW S \in SUBSET (1..n), S # {}
    PROVE  Max(S) \in S
<1> DEFINE T == {n - x : x \in S}
<1>1. T \in SUBSET Nat /\ T # {}
  <2>1. \A x \in S : n - x \in Nat
    OBVIOUS
  <2>2. QED
    BY <2>1
<1>2. PICK x \in S : Min(T) = n - x
  BY <1>1, LeastOf
<1>3. \A y \in S : n - x <= n - y
  BY <1>1, <1>2, LeastOf
<1>4. \A y \in S : x >= y
  BY <1>3
<1>5. QED
  BY <1>4 DEF Max

\* The greater of two numbers.
LEMMA GreaterOf ==
    ASSUME NEW p \in Nat, NEW n \in Nat
    PROVE  Max({p, n}) = IF p >= n THEN p ELSE n
<1> DEFINE m == IF p >= n THEN p ELSE n
<1>1. m \in {p, n} /\ \A y \in {p, n} : m >= y
  OBVIOUS
<1>2. \A x \in {p, n} : (\A y \in {p, n} : x >= y) => x = m
  OBVIOUS
<1> HIDE DEF m
<1>3. QED
  BY <1>1, <1>2 DEF Max

\* What a search from the front and one from the back return.
LEMMA FirstOf ==
    ASSUME NEW n \in Nat, NEW I \in SUBSET (1..n), NEW m, m = IF I # {} THEN Min(I) ELSE 0
    PROVE  m \in 0..n /\ (m = 0 => I = {}) /\ (m # 0 => m \in I)
<1>1. CASE I = {}
  BY <1>1
<1>2. CASE I # {}
  <2>1. m = Min(I) /\ I \in SUBSET Nat
    BY <1>2
  <2>2. m \in I
    BY <1>2, <2>1, LeastOf
  <2>3. QED
    BY <1>2, <2>2
<1>3. QED
  BY <1>1, <1>2

\* The greatest position in a set, or 0 for none.
LEMMA LastOf ==
    ASSUME NEW n \in Nat, NEW I \in SUBSET (1..n), NEW m, m = IF I # {} THEN Max(I) ELSE 0
    PROVE  m \in 0..n /\ (m = 0 => I = {}) /\ (m # 0 => m \in I)
<1>1. CASE I = {}
  BY <1>1
<1>2. CASE I # {}
  <2>1. m = Max(I) /\ I \in SUBSET Nat
    BY <1>2
  <2>2. m \in I
    BY <1>2, <2>1, GreatestOf
  <2>3. QED
    BY <1>2, <2>2
<1>3. QED
  BY <1>1, <1>2

-----------------------------------------------------------------------------
(* What the queries and the loops of the handlers find.                      *)

\* A query by token finds a document that holds it, or there is none.
LEMMA UserFound ==
    ASSUME Len(docs) \in Nat, NEW jwt
    PROVE  /\ FindUser(jwt) \in 0..Len(docs)
           /\ FindUser(jwt) # 0 => Holds(docs[FindUser(jwt)], jwt)
           /\ FindUser(jwt) = 0 => \A u \in 1..Len(docs) : ~Holds(docs[u], jwt)
<1> DEFINE I == {i \in 1..Len(docs) : Holds(docs[i], jwt)}
<1>1. FindUser(jwt) = IF I # {} THEN Min(I) ELSE 0
  BY DEF FindUser, SelectInSeq
<1>2. /\ FindUser(jwt) \in 0..Len(docs)
      /\ FindUser(jwt) = 0 => I = {}
      /\ FindUser(jwt) # 0 => FindUser(jwt) \in I
  <2>1. I \in SUBSET (1..Len(docs))
    OBVIOUS
  <2> HIDE DEF I
  <2>2. QED
    BY <1>1, <2>1, FirstOf
<1>3. QED
  BY <1>2

\* A query by wallet finds a document or none.
LEMMA WalletUserFound ==
    ASSUME Len(docs) \in Nat, NEW k, NEW fields
    PROVE  FindByWallet(k, fields) \in 0..Len(docs)
<1> DEFINE I == {i \in 1..Len(docs) : Selected(docs[i], k, fields)}
<1>1. FindByWallet(k, fields) = IF I # {} THEN Min(I) ELSE 0
  BY DEF FindByWallet, SelectInSeq
<1>2. QED
  BY <1>1, FirstOf

\* So does one by token and wallet.
LEMMA HolderFound ==
    ASSUME Len(docs) \in Nat, NEW jwt, NEW k
    PROVE  FindHolder(jwt, k) \in 0..Len(docs)
<1> DEFINE I == {i \in 1..Len(docs) : Holds(docs[i], jwt) /\ Selected(docs[i], k, Triple)}
<1>1. FindHolder(jwt, k) = IF I # {} THEN Min(I) ELSE 0
  BY DEF FindHolder, SelectInSeq
<1>2. QED
  BY <1>1, FirstOf

\* The wallet a document has an address in, or it has the address nowhere.
LEMMA AddressFound ==
    ASSUME NEW doc, Len(doc.wallets) \in Nat, NEW a
    PROVE  /\ HasAddress(doc, a) \in 0..Len(doc.wallets)
           /\ HasAddress(doc, a) # 0 => a \in doc.wallets[HasAddress(doc, a)].addrs
           /\ HasAddress(doc, a) = 0 => \A i \in 1..Len(doc.wallets) : a \notin doc.wallets[i].addrs
<1> DEFINE I == {i \in 1..Len(doc.wallets) : a \in doc.wallets[i].addrs}
<1>1. HasAddress(doc, a) = IF I # {} THEN Min(I) ELSE 0
  BY DEF HasAddress, SelectInSeq
<1>2. /\ HasAddress(doc, a) \in 0..Len(doc.wallets)
      /\ HasAddress(doc, a) = 0 => I = {}
      /\ HasAddress(doc, a) # 0 => HasAddress(doc, a) \in I
  <2>1. I \in SUBSET (1..Len(doc.wallets))
    OBVIOUS
  <2> HIDE DEF I
  <2>2. QED
    BY <1>1, <2>1, FirstOf
<1>3. QED
  BY <1>2

\* The same for the last wallet with the address.
LEMMA LastAddressFound ==
    ASSUME NEW ws, Len(ws) \in Nat, NEW a
    PROVE  /\ LastWith(ws, a) \in 0..Len(ws)
           /\ LastWith(ws, a) # 0 => a \in ws[LastWith(ws, a)].addrs
           /\ LastWith(ws, a) = 0 => \A i \in 1..Len(ws) : a \notin ws[i].addrs
<1> DEFINE I == {i \in 1..Len(ws) : a \in ws[i].addrs}
<1>1. LastWith(ws, a) = IF I # {} THEN Max(I) ELSE 0
  BY DEF LastWith, SelectLastInSeq
<1>2. /\ LastWith(ws, a) \in 0..Len(ws)
      /\ LastWith(ws, a) = 0 => I = {}
      /\ LastWith(ws, a) # 0 => LastWith(ws, a) \in I
  <2>1. I \in SUBSET (1..Len(ws))
    OBVIOUS
  <2> HIDE DEF I
  <2>2. QED
    BY <1>1, <2>1, LastOf
<1>3. QED
  BY <1>2

\* A query by address finds a document that has it, or none has.
LEMMA AddressUserFound ==
    ASSUME Len(docs) \in Nat, NEW a
    PROVE  /\ FindByAddress(a) \in 0..Len(docs)
           /\ FindByAddress(a) # 0 => HasAddress(docs[FindByAddress(a)], a) # 0
           /\ FindByAddress(a) = 0 => \A u \in 1..Len(docs) : HasAddress(docs[u], a) = 0
<1> DEFINE I == {i \in 1..Len(docs) : HasAddress(docs[i], a) # 0}
<1>1. FindByAddress(a) = IF I # {} THEN Min(I) ELSE 0
  BY DEF FindByAddress, SelectInSeq
<1>2. /\ FindByAddress(a) \in 0..Len(docs)
      /\ FindByAddress(a) = 0 => I = {}
      /\ FindByAddress(a) # 0 => FindByAddress(a) \in I
  <2>1. I \in SUBSET (1..Len(docs))
    OBVIOUS
  <2> HIDE DEF I
  <2>2. QED
    BY <1>1, <2>1, FirstOf
<1>3. QED
  BY <1>2

\* The first imported wallet of a document is one.
LEMMA ImportedFound ==
    ASSUME NEW doc, Len(doc.wallets) \in Nat
    PROVE  /\ FirstImported(doc) \in 0..Len(doc.wallets)
           /\ FirstImported(doc) # 0 => Imported(doc.wallets[FirstImported(doc)].key)
<1> DEFINE I == {i \in 1..Len(doc.wallets) : Imported(doc.wallets[i].key)}
<1>1. FirstImported(doc) = IF I # {} THEN Min(I) ELSE 0
  BY DEF FirstImported, SelectInSeq
<1>2. /\ FirstImported(doc) \in 0..Len(doc.wallets)
      /\ FirstImported(doc) = 0 => I = {}
      /\ FirstImported(doc) # 0 => FirstImported(doc) \in I
  <2>1. I \in SUBSET (1..Len(doc.wallets))
    OBVIOUS
  <2> HIDE DEF I
  <2>2. QED
    BY <1>1, <2>1, FirstOf
<1>3. QED
  BY <1>2

\* A query for an imported wallet with an address finds a document with both.
LEMMA ImportedUserFound ==
    ASSUME Len(docs) \in Nat, NEW a
    PROVE  /\ FindImported(a) \in 0..Len(docs)
           /\ FindImported(a) # 0 => /\ HasAddress(docs[FindImported(a)], a) # 0
                                     /\ FirstImported(docs[FindImported(a)]) # 0
<1> DEFINE I == {i \in 1..Len(docs) : HasAddress(docs[i], a) # 0 /\ FirstImported(docs[i]) # 0}
<1>1. FindImported(a) = IF I # {} THEN Min(I) ELSE 0
  BY DEF FindImported, SelectInSeq
<1>2. /\ FindImported(a) \in 0..Len(docs)
      /\ FindImported(a) = 0 => I = {}
      /\ FindImported(a) # 0 => FindImported(a) \in I
  <2>1. I \in SUBSET (1..Len(docs))
    OBVIOUS
  <2> HIDE DEF I
  <2>2. QED
    BY <1>1, <2>1, FirstOf
<1>3. QED
  BY <1>2

\* The entry of a device is its own.
LEMMA DeviceFound ==
    ASSUME NEW doc, Len(doc.devices) \in Nat, NEW d
    PROVE  /\ DeviceOf(doc, d) \in 0..Len(doc.devices)
           /\ DeviceOf(doc, d) # 0 => doc.devices[DeviceOf(doc, d)].id = d
<1> DEFINE I == {i \in 1..Len(doc.devices) : doc.devices[i].id = d}
<1>1. DeviceOf(doc, d) = IF I # {} THEN Min(I) ELSE 0
  BY DEF DeviceOf, SelectInSeq
<1>2. /\ DeviceOf(doc, d) \in 0..Len(doc.devices)
      /\ DeviceOf(doc, d) = 0 => I = {}
      /\ DeviceOf(doc, d) # 0 => DeviceOf(doc, d) \in I
  <2>1. I \in SUBSET (1..Len(doc.devices))
    OBVIOUS
  <2> HIDE DEF I
  <2>2. QED
    BY <1>1, <2>1, FirstOf
<1>3. QED
  BY <1>2

\* The entry with a token has it, and a document that holds it has one.
LEMMA TokenFound ==
    ASSUME NEW doc, doc.devices \in Seq(Device), NEW jwt
    PROVE  /\ DeviceWith(doc, jwt) \in 0..Len(doc.devices)
           /\ DeviceWith(doc, jwt) # 0 => doc.devices[DeviceWith(doc, jwt)].jwt = jwt
           /\ Holds(doc, jwt) => DeviceWith(doc, jwt) # 0
<1> DEFINE I == {i \in 1..Len(doc.devices) : doc.devices[i].jwt = jwt}
<1>1. DeviceWith(doc, jwt) = IF I # {} THEN Min(I) ELSE 0
  BY DEF DeviceWith, SelectInSeq
<1>2. /\ DeviceWith(doc, jwt) \in 0..Len(doc.devices)
      /\ DeviceWith(doc, jwt) = 0 => I = {}
      /\ DeviceWith(doc, jwt) # 0 => DeviceWith(doc, jwt) \in I
  <2>1. Len(doc.devices) \in Nat /\ I \in SUBSET (1..Len(doc.devices))
    OBVIOUS
  <2> HIDE DEF I
  <2>2. QED
    BY <1>1, <2>1, FirstOf
<1>3. QED
  BY <1>2 DEF Holds

\* The loops return the wallet's first or last position, and 1 without one.
LEMMA FirstPositionOf ==
    ASSUME NEW ws, Len(ws) \in Nat, DOMAIN ws = 1..Len(ws), NEW k
    PROVE  /\ FirstPosition(ws, k) \in Positions
           /\ (\E i \in DOMAIN ws : ws[i].key = k) =>
                 FirstPosition(ws, k) \in DOMAIN ws /\ ws[FirstPosition(ws, k)].key = k
<1> DEFINE I == {i \in 1..Len(ws) : ws[i].key = k}
           m == IF I # {} THEN Min(I) ELSE 0
<1>1. FirstPosition(ws, k) = IF m = 0 THEN 1 ELSE m
  BY DEF FirstPosition, SelectInSeq
<1>2. m \in 0..Len(ws) /\ (m = 0 => I = {}) /\ (m # 0 => m \in I)
  BY FirstOf
<1> HIDE DEF m
<1>3. QED
  BY <1>1, <1>2 DEF Positions

\* The last position of a wallet is a position, and its own if it is listed.
LEMMA LastPositionOf ==
    ASSUME NEW ws, Len(ws) \in Nat, DOMAIN ws = 1..Len(ws), NEW k
    PROVE  /\ LastPosition(ws, k) \in Positions
           /\ (\E i \in DOMAIN ws : ws[i].key = k) =>
                 LastPosition(ws, k) \in DOMAIN ws /\ ws[LastPosition(ws, k)].key = k
<1> DEFINE I == {i \in 1..Len(ws) : ws[i].key = k}
           m == IF I # {} THEN Max(I) ELSE 0
<1>1. LastPosition(ws, k) = IF m = 0 THEN 1 ELSE m
  BY DEF LastPosition, SelectLastInSeq
<1>2. m \in 0..Len(ws) /\ (m = 0 => I = {}) /\ (m # 0 => m \in I)
  BY LastOf
<1> HIDE DEF m
<1>3. QED
  BY <1>1, <1>2 DEF Positions

\* The last wallet of an index is at a position, or there is none.
LEMMA LastOfIndexIs ==
    ASSUME NEW ws, Len(ws) \in Nat, NEW i
    PROVE  LastOfIndex(ws, i) \in 0..Len(ws)
<1> DEFINE I == {j \in 1..Len(ws) : ws[j].key.index = i}
<1>1. LastOfIndex(ws, i) = IF I # {} THEN Max(I) ELSE 0
  BY DEF LastOfIndex, SelectLastInSeq
<1>2. QED
  BY <1>1, LastOf

-----------------------------------------------------------------------------
(* The types of documents and requests.                                      *)

\* The documents are a list.
LEMMA DocsTyped ==
    ASSUME Typed
    PROVE  docs \in Seq(Doc) /\ Len(docs) \in Nat /\ DOMAIN docs = 1..Len(docs)
BY DEF Typed

\* What a document consists of.
LEMMA DocTyped ==
    ASSUME docs \in Seq(Doc), NEW u \in DOMAIN docs
    PROVE  /\ docs[u] \in Doc
           /\ docs[u].devices \in Seq(Device) /\ docs[u].wallets \in Seq(Entry)
           /\ Len(docs[u].wallets) \in Nat /\ Len(docs[u].devices) \in Nat
           /\ DOMAIN docs[u].wallets = 1..Len(docs[u].wallets)
           /\ DOMAIN docs[u].devices = 1..Len(docs[u].devices)
<1>1. docs[u] \in Doc
  OBVIOUS
<1>2. docs[u].devices \in Seq(Device) /\ docs[u].wallets \in Seq(Entry)
  BY <1>1 DEF Doc
<1>3. QED
  BY <1>1, <1>2

\* Any position of a list reads as an entry, also one past its end.
LEMMA WalletAtTyped ==
    ASSUME docs \in Seq(Doc), NEW u \in DOMAIN docs, NEW p \in Positions
    PROVE  WalletAt(u, p) \in Entry
<1>1. Torn \in TornWallet
  BY DEF Torn, TornWallet
<1>2. CASE p <= Len(docs[u].wallets)
  BY <1>2, DocTyped DEF WalletAt, Positions
<1>3. CASE ~(p <= Len(docs[u].wallets))
  BY <1>1, <1>3 DEF WalletAt, Entry
<1>4. QED
  BY <1>2, <1>3

\* An update writes one entry and leaves devices and other documents.
LEMMA UpdateTyped ==
    ASSUME docs \in Seq(Doc), NEW u \in DOMAIN docs, NEW p \in Positions, NEW w \in Entry,
           Update(u, p, w)
    PROVE  /\ docs' \in Seq(Doc) /\ Len(docs') = Len(docs)
           /\ docs'[u].devices = docs[u].devices
           /\ p \in DOMAIN docs[u].wallets => docs'[u].wallets = [docs[u].wallets EXCEPT ![p] = w]
<1> DEFINE n == Len(docs[u].wallets)
           m == IF p >= n THEN p ELSE n
           ws == [i \in 1..m |-> IF i = p THEN w ELSE WalletAt(u, i)]
<1>1. n \in Nat /\ p \in Nat /\ m \in Nat /\ docs[u].wallets \in Seq(Entry) /\ docs[u] \in Doc
  BY DocTyped DEF Positions
<1>2. Max({p, n}) = m
  BY <1>1, GreaterOf
<1>3. docs' = [docs EXCEPT ![u].wallets = ws]
  BY <1>2 DEF Update
<1>4. ws \in Seq(Entry)
  <2>1. \A i \in 1..m : WalletAt(u, i) \in Entry
    BY <1>1, WalletAtTyped DEF Positions
  <2>2. QED
    BY <1>1, <2>1
<1>5. p \in DOMAIN docs[u].wallets => ws = [docs[u].wallets EXCEPT ![p] = w]
  <2> SUFFICES ASSUME p \in DOMAIN docs[u].wallets PROVE ws = [docs[u].wallets EXCEPT ![p] = w]
    OBVIOUS
  <2>1. m = n /\ DOMAIN docs[u].wallets = 1..n
    BY <1>1
  <2>2. \A i \in 1..n : WalletAt(u, i) = docs[u].wallets[i]
    BY <1>1 DEF WalletAt
  <2>3. QED
    BY <1>1, <2>1, <2>2
<1> HIDE DEF ws
<1>6. [docs[u] EXCEPT !.wallets = ws] \in Doc
  BY <1>1, <1>4 DEF Doc
<1>7. docs' = [docs EXCEPT ![u] = [docs[u] EXCEPT !.wallets = ws]]
  BY <1>3
<1>8. docs' \in Seq(Doc) /\ Len(docs') = Len(docs) /\ docs'[u] = [docs[u] EXCEPT !.wallets = ws]
  BY <1>6, <1>7
<1>9. docs'[u].wallets = ws /\ docs'[u].devices = docs[u].devices
  BY <1>1, <1>8 DEF Doc
<1>10. QED
  BY <1>5, <1>8, <1>9

\* What a request carries at each of its calls.
LEMMA Kinds ==
    ASSUME NEW q \in Request
    PROVE  /\ q.op = "login" /\ q.at = "insert" => q \in Inserting
           /\ q.op = "login" /\ q.at = "refresh" => q \in Refreshing
           /\ q.op = "login" /\ q.at = "rewrite" => q \in Rewriting
           /\ q.op = "create" => q \in Creation
           /\ q.op = "mixed" => q \in Mixed
           /\ q.op = "discover" => q \in Discovery
           /\ q.op \in {"address", "send"} /\ q.at \in {"send", "read"} => q \in Adding
           /\ q.op \in {"address", "send"} /\ q.at = "push" => q \in AddingAt
           /\ q.op = "rename" /\ q.at = "read" => q \in Naming
           /\ q.op = "rename" /\ q.at = "set" => q \in NamingAt
           /\ q.op = "broken" => q \in Breaking
           /\ q.op = "delete" /\ q.at = "read" => q \in Deleting
           /\ q.op = "delete" /\ q.at \in {"weigh", "imported", "locate"} => q \in Weighing
           /\ q.op = "delete" /\ q.at = "mark" => q \in DeletingAt
           /\ q.op # "idle" /\ q.op # "login" => q.key \in Keys
           /\ q.op \in {"idle", "login", "create", "mixed", "discover", "address",
                        "send", "rename", "broken", "delete"}
BY DEF Request, Idle, Inserting, Refreshing, Rewriting, Creation, Mixed, Discovery, Adding,
       AddingAt, Naming, NamingAt, Breaking, Deleting, Weighing, DeletingAt

-----------------------------------------------------------------------------
(* Every step keeps the types.                                               *)

\* A request past the first login finds a document.
LEMMA HasAccount ==
    ASSUME Typed, NEW r \in Reqs, req[r].op \notin {"idle", "login"} \/ req[r].at # "insert"
    PROVE  req[r] # Idle => docs # <<>>
BY DEF Typed, NoAccount, Idle, Inserting

\* A step of a request of an account, other than a login.
LEMMA ServeTyped ==
    ASSUME Typed, NEW r \in Reqs, NEW q \in Request, docs # <<>>,
           req' = [req EXCEPT ![r] = q], docs' \in Seq(Doc), docs' # <<>>,
           requests' \in 0..MaxRequests, answered' \subseteq Told, sent' \subseteq Keys,
           cut' \subseteq Keys, hid' \subseteq Keys,
           UNCHANGED <<now, token, funds, reports, touch, revived, granted, overtook>>
    PROVE  Typed'
<1> USE DEF Typed
<1>1. req' \in [Reqs -> Request]
  OBVIOUS
<1>2. NoAccount'
  BY DEF NoAccount
<1>3. QED
  BY <1>1, <1>2

\* A request that begins leaves the types as they are.
LEMMA BeginTyped ==
    ASSUME Typed, NEW r \in Reqs, NEW d \in Devices, NEW op, NEW at, NEW k \in Keys,
           [op |-> op, at |-> at, key |-> k, jwt |-> token[d]] \in Request,
           Begin(r, d, op, at, k)
    PROVE  Typed'
<1>1. token[d] # 0 /\ requests' \in 0..MaxRequests
  BY WalletsAssumption DEF Begin, Authorized, Typed
<1>2. docs # <<>>
  BY <1>1 DEF Typed, NoAccount
<1>3. QED
  BY <1>1, <1>2, ServeTyped DEF Begin, Typed, payments, history

\* Each handler begins with a request of its kind.
LEMMA BeginKinds ==
    ASSUME Typed, NEW d \in Devices, Authorized(d), NEW k \in Keys
    PROVE  /\ [op |-> "create", at |-> "check", key |-> k, jwt |-> token[d]] \in Request
           /\ Imported(k) => [op |-> "mixed", at |-> "check", key |-> k, jwt |-> token[d]] \in Request
           /\ [op |-> "discover", at |-> "read", key |-> k, jwt |-> token[d]] \in Request
           /\ [op |-> "address", at |-> "read", key |-> k, jwt |-> token[d]] \in Request
           /\ [op |-> "send", at |-> "send", key |-> k, jwt |-> token[d]] \in Request
           /\ [op |-> "rename", at |-> "read", key |-> k, jwt |-> token[d]] \in Request
           /\ [op |-> "broken", at |-> "set", key |-> k, jwt |-> token[d]] \in Request
           /\ [op |-> "delete", at |-> "read", key |-> k, jwt |-> token[d]] \in Request
<1>1. token[d] \in Instants
  BY DEF Typed, Authorized, Instants
<1>2. QED
  BY <1>1 DEF Request, Creation, Mixed, Discovery, Adding, Naming, Breaking, Deleting

\* The arrival of any request but a login keeps the types.
LEMMA ArrivesTyped ==
    ASSUME Typed, NEW r \in Reqs, NEW d \in Devices,
           \/ AddWallet(r, d) \/ DiscoverWallets(r, d) \/ AddAddress(r, d)
           \/ SendRaw(r, d) \/ ChangeName(r, d) \/ ConvertToBroken(r, d) \/ DeleteRequest(r, d)
    PROVE  Typed'
<1>1. ASSUME NEW op, NEW at, NEW k \in Keys, Begin(r, d, op, at, k) PROVE Authorized(d)
  BY <1>1 DEF Begin
<1>2. CASE AddWallet(r, d)
  <2>1. PICK k \in Keys, exact \in BOOLEAN :
           /\ exact \/ Imported(k)
           /\ Begin(r, d, IF exact THEN "create" ELSE "mixed", "check", k)
    BY <1>2 DEF AddWallet
  <2>2. Authorized(d)
    BY <2>1 DEF Begin
  <2>3. CASE exact
    BY <2>1, <2>2, <2>3, BeginKinds, BeginTyped
  <2>4. CASE ~exact
    BY <2>1, <2>2, <2>4, BeginKinds, BeginTyped
  <2>5. QED
    BY <2>3, <2>4
<1>3. CASE DiscoverWallets(r, d)
  BY <1>1, <1>3, BeginKinds, BeginTyped DEF DiscoverWallets
<1>4. CASE AddAddress(r, d)
  BY <1>1, <1>4, BeginKinds, BeginTyped DEF AddAddress
<1>5. CASE SendRaw(r, d)
  BY <1>1, <1>5, BeginKinds, BeginTyped DEF SendRaw
<1>6. CASE ChangeName(r, d)
  BY <1>1, <1>6, BeginKinds, BeginTyped DEF ChangeName
<1>7. CASE ConvertToBroken(r, d)
  BY <1>1, <1>7, BeginKinds, BeginTyped DEF ConvertToBroken
<1>8. CASE DeleteRequest(r, d)
  BY <1>1, <1>8, BeginKinds, BeginTyped DEF DeleteRequest
<1>9. QED
  BY <1>2, <1>3, <1>4, <1>5, <1>6, <1>7, <1>8

\* A first login, a refresh or a new device.
LEMMA AuthenticateTyped ==
    ASSUME Typed, NEW r \in Reqs, NEW d \in Devices, Authenticate(r, d)
    PROVE  Typed' /\ \E q \in Inserting \cup Refreshing \cup Rewriting : req' = [req EXCEPT ![r] = q]
<1>1. now \in Instants /\ requests' \in 0..MaxRequests
  BY WalletsAssumption DEF Authenticate, Typed
<1>2. CASE docs = <<>>
  <2> DEFINE q == [op |-> "login", at |-> "insert", dev |-> d, jwt |-> now, old |-> 0, doc |-> <<>>]
  <2>1. q \in Inserting /\ q \in Request
    BY <1>1 DEF Inserting, Request
  <2>2. req' = [req EXCEPT ![r] = q]
    BY <1>2 DEF Authenticate, Login
  <2> HIDE DEF q
  <2>3. req' \in [Reqs -> Request] /\ NoAccount'
    BY <1>2, <2>1, <2>2 DEF Typed, NoAccount, Authenticate
  <2>4. QED
    BY <1>1, <2>1, <2>2, <2>3 DEF Typed, Authenticate, payments, history
<1>3. CASE docs # <<>>
  <2> DEFINE doc == docs[1]
             i == DeviceOf(doc, d)
  <2>1. doc \in Doc /\ doc.devices \in Seq(Device) /\ Len(doc.devices) \in Nat /\ FindByID = 1
    BY <1>3, DocTyped DEF Typed, FindByID
  <2>2. i \in 0..Len(doc.devices)
    BY <2>1, DeviceFound
  <2>3. PICK q \in Refreshing \cup Rewriting : req' = [req EXCEPT ![r] = q]
    <3>1. CASE i = 0
      <4> DEFINE q == [op |-> "login", at |-> "rewrite", dev |-> d, jwt |-> now, old |-> 0, doc |-> doc]
      <4>1. q \in Rewriting
        BY <1>1, <2>1 DEF Rewriting
      <4>2. req' = [req EXCEPT ![r] = q]
        BY <1>3, <2>1, <3>1 DEF Authenticate, Login
      <4>3. QED
        BY <4>1, <4>2
    <3>2. CASE i # 0
      <4> DEFINE q == [op |-> "login", at |-> "refresh", dev |-> d, jwt |-> now,
                       old |-> doc.devices[i].jwt, doc |-> <<>>]
      <4>1. doc.devices[i] \in Device
        BY <2>1, <2>2, <3>2
      <4>2. q \in Refreshing
        BY <1>1, <4>1 DEF Refreshing, Device
      <4>3. req' = [req EXCEPT ![r] = q]
        BY <1>3, <2>1, <3>2 DEF Authenticate, Login
      <4>4. QED
        BY <4>2, <4>3
    <3>3. QED
      BY <3>1, <3>2
  <2>4. q \in Request
    BY <2>3 DEF Request
  <2>5. Typed'
    BY <1>1, <1>3, <2>3, <2>4, ServeTyped DEF Authenticate, Typed, payments, history
  <2>6. QED
    BY <2>3, <2>5
<1>4. QED
  BY <1>2, <1>3

\* To go on changes the call of the request and nothing else of it.
LEMMA GoIs ==
    ASSUME Typed, NEW r \in Reqs, NEW at, Go(r, at)
    PROVE  req' = [req EXCEPT ![r] = [req[r] EXCEPT !.at = at]]
BY DEF Go, Typed

\* No request is a request.
LEMMA IdleTyped ==
    Idle \in Request
BY DEF Request

\* After a wallet a discovery reads for the next one, or is done.
LEMMA NextWalletIs ==
    ASSUME Typed, NEW r \in Reqs, Creating(r), NextWallet(r)
    PROVE  \E q \in {Idle} \cup Discovery : /\ req' = [req EXCEPT ![r] = q]
                                            /\ q = Idle \/ q.at = "read"
<1>1. CASE End(r)
  BY <1>1 DEF End
<1>2. CASE req[r].op = "discover" /\ ~End(r)
  <2>1. PICK k \in Keys : req' = [req EXCEPT ![r].key = k, ![r].at = "read"]
    BY <1>2 DEF NextWallet
  <2> DEFINE q == [[req[r] EXCEPT !.key = k] EXCEPT !.at = "read"]
  <2>2. req[r] \in Discovery
    BY <1>2, Kinds DEF Typed
  <2>3. q \in Discovery /\ q.at = "read"
    BY <2>2 DEF Discovery
  <2>4. req' = [req EXCEPT ![r] = q]
    BY <2>1 DEF Typed
  <2>5. QED
    BY <2>3, <2>4
<1>3. QED
  BY <1>1, <1>2 DEF NextWallet

\* The check before a creation: the request reads next, or ends.
LEMMA CheckAddWalletTyped ==
    ASSUME Typed, NEW r \in Reqs, CheckAddWallet(r)
    PROVE  /\ Typed'
           /\ \E q \in {Idle} \cup Creation \cup Mixed : /\ req' = [req EXCEPT ![r] = q]
                                                         /\ q = Idle \/ q.at = "read"
<1>1. req[r] \in Creation \cup Mixed /\ docs # <<>>
  <2>1. req[r] \in Request /\ req[r].at = "check" /\ Creating(r)
    BY DEF CheckAddWallet, Typed
  <2>2. req[r] \in Creation \cup Mixed
    BY <2>1, Kinds DEF Creating, Discovery
  <2>3. QED
    BY <2>2, HasAccount DEF Creation, Mixed, Idle
<1>2. PICK q \in {Idle} \cup Creation \cup Mixed : req' = [req EXCEPT ![r] = q] /\ (q = Idle \/ q.at = "read")
  <2>1. CASE End(r)
    BY <2>1 DEF End
  <2>2. CASE Go(r, "read")
    <3>1. [req[r] EXCEPT !.at = "read"] \in Creation \cup Mixed
      BY <1>1 DEF Creation, Mixed
    <3>2. [req[r] EXCEPT !.at = "read"].at = "read"
      BY <1>1 DEF Creation, Mixed
    <3>3. QED
      BY <2>2, <3>1, <3>2, GoIs
  <2>3. QED
    BY <2>1, <2>2 DEF CheckAddWallet, Refuse
<1>3. q \in Request /\ answered' = answered
  BY <1>2 DEF Request, CheckAddWallet, Refuse
<1>4. Typed'
  BY <1>1, <1>2, <1>3, ServeTyped DEF CheckAddWallet, Typed, payments, history
<1>5. QED
  BY <1>2, <1>4

\* The read of a creation: the request pushes next, reads again, or ends.
LEMMA CreateReadTyped ==
    ASSUME Typed, NEW r \in Reqs, CreateRead(r)
    PROVE  /\ Typed'
           /\ req[r] \in Creation \cup Mixed \cup Discovery /\ docs # <<>>
           /\ \E q \in {Idle} \cup Creation \cup Mixed \cup Discovery :
                /\ req' = [req EXCEPT ![r] = q]
                /\ \/ q = Idle \/ q.at = "read"
                   \/ q = [req[r] EXCEPT !.at = "push"] /\ Go(r, "push")
<1>1. req[r] \in Creation \cup Mixed \cup Discovery /\ docs # <<>>
  <2>1. req[r] \in Request /\ Creating(r)
    BY DEF CreateRead, Typed
  <2>2. req[r] \in Creation \cup Mixed \cup Discovery
    BY <2>1, Kinds DEF Creating
  <2>3. QED
    BY <2>2, HasAccount DEF Creation, Mixed, Discovery, Idle
<1>2. PICK q \in {Idle} \cup Creation \cup Mixed \cup Discovery :
         /\ req' = [req EXCEPT ![r] = q]
         /\ \/ q = Idle \/ q.at = "read"
            \/ q = [req[r] EXCEPT !.at = "push"] /\ Go(r, "push")
  <2>1. CASE End(r)
    BY <2>1 DEF End
  <2>2. CASE NextWallet(r)
    BY <2>2, NextWalletIs DEF CreateRead
  <2>3. CASE Go(r, "push")
    <3>1. [req[r] EXCEPT !.at = "push"] \in Creation \cup Mixed \cup Discovery
      BY <1>1 DEF Creation, Mixed, Discovery
    <3>2. QED
      BY <2>3, <3>1, GoIs
  <2>4. QED
    BY <2>1, <2>2, <2>3 DEF CreateRead
<1>3. q \in Request
  BY <1>2 DEF Request
<1>4. Typed'
  BY <1>1, <1>2, <1>3, ServeTyped DEF CreateRead, Typed, payments, history
<1>5. QED
  BY <1>1, <1>2, <1>4

\* A wallet that is made is one.
LEMMA NewWalletTyped ==
    ASSUME NEW k \in Keys, NEW s \in {"ok", "deleted"}
    PROVE  NewWallet(k, s) \in Wallet
BY DEF NewWallet, Wallet, Addresses

\* Either no user has the token, or a wallet is pushed.
LEMMA CreatePushTyped ==
    ASSUME Typed, NEW r \in Reqs, CreatePush(r)
    PROVE  /\ Typed'
           /\ req[r] \in Creation \cup Mixed \cup Discovery /\ docs # <<>>
           /\ \E q \in {Idle} \cup Discovery :
                /\ req' = [req EXCEPT ![r] = q]
                /\ q = Idle \/ q.at = "read"
           /\ \/ docs' = docs /\ answered' = answered
              \/ \E u \in DOMAIN docs, s \in {"ok", "deleted"} :
                   /\ docs' = [docs EXCEPT ![u].wallets = Append(@, NewWallet(req[r].key, s))]
                   /\ answered' = IF s = "ok" THEN answered \cup {<<"wallet", req[r].key>>} ELSE answered
<1>1. req[r] \in Creation \cup Mixed \cup Discovery /\ docs # <<>> /\ req[r].key \in Keys /\ Creating(r)
  <2>1. req[r] \in Request /\ Creating(r)
    BY DEF CreatePush, Typed
  <2>2. req[r] \in Creation \cup Mixed \cup Discovery
    BY <2>1, Kinds DEF Creating
  <2>3. QED
    BY <2>1, <2>2, HasAccount DEF Creation, Mixed, Discovery, Idle
<1>2. PICK q \in {Idle} \cup Discovery : req' = [req EXCEPT ![r] = q] /\ (q = Idle \/ q.at = "read")
  <2>1. CASE End(r)
    BY <2>1 DEF End
  <2>2. CASE NextWallet(r)
    BY <1>1, <2>2, NextWalletIs
  <2>3. QED
    BY <2>1, <2>2 DEF CreatePush, Refuse
<1>3. \/ docs' = docs /\ answered' = answered
      \/ \E u \in DOMAIN docs, s \in {"ok", "deleted"} :
           /\ docs' = [docs EXCEPT ![u].wallets = Append(@, NewWallet(req[r].key, s))]
           /\ answered' = IF s = "ok" THEN answered \cup {<<"wallet", req[r].key>>} ELSE answered
  <2>1. Statuses(r) \subseteq {"ok", "deleted"}
    BY DEF Statuses
  <2>2. FindUser(req[r].jwt) # 0 => FindUser(req[r].jwt) \in DOMAIN docs
    BY UserFound, DocsTyped
  <2>3. QED
    BY <2>1, <2>2 DEF CreatePush, Refuse
<1>4. docs' \in Seq(Doc) /\ docs' # <<>> /\ answered' \subseteq Told
  <2>1. CASE docs' = docs /\ answered' = answered
    BY <1>1, <2>1 DEF Typed
  <2>2. ASSUME NEW u \in DOMAIN docs, NEW s \in {"ok", "deleted"},
               docs' = [docs EXCEPT ![u].wallets = Append(@, NewWallet(req[r].key, s))],
               answered' = IF s = "ok" THEN answered \cup {<<"wallet", req[r].key>>} ELSE answered
        PROVE  docs' \in Seq(Doc) /\ docs' # <<>> /\ answered' \subseteq Told
    <3>1. Append(docs[u].wallets, NewWallet(req[r].key, s)) \in Seq(Entry)
      BY <1>1, DocTyped, NewWalletTyped DEF Typed, Entry
    <3>2. [docs[u] EXCEPT !.wallets = Append(@, NewWallet(req[r].key, s))] \in Doc
      BY <3>1, DocTyped DEF Doc, Typed
    <3>3. docs' = [docs EXCEPT ![u] = [docs[u] EXCEPT !.wallets = Append(@, NewWallet(req[r].key, s))]]
      BY <2>2
    <3>4. docs' \in Seq(Doc) /\ Len(docs') = Len(docs)
      BY <3>2, <3>3 DEF Typed
    <3>5. answered' \subseteq Told
      BY <1>1, <2>2 DEF Typed, Told
    <3>6. QED
      BY <1>1, <3>4, <3>5 DEF Typed
  <2>3. QED
    BY <1>3, <2>1, <2>2
<1>5. q \in Request
  BY <1>2 DEF Request
<1>6. Typed'
  BY <1>1, <1>2, <1>4, <1>5, ServeTyped DEF CreatePush, Typed, payments, history
<1>7. QED
  BY <1>1, <1>2, <1>3, <1>6

\* What an update writes is a wallet, or what one at a position past the end has.
LEMMA EntryTyped ==
    ASSUME NEW w \in Entry, NEW k \in Keys, NEW s \in {"ok", "deleted"}
    PROVE  /\ [w EXCEPT !.by = @ \cup {k}] \in Entry
           /\ [w EXCEPT !.status = s, !.by = @ \cup {k}] \in Entry
           /\ [w EXCEPT !.addrs = @ \cup {NextAddress(k)}, !.by = @ \cup {k}] \in Entry
<1>1. NextAddress(k) \in Addresses
  BY DEF NextAddress, Addresses
<1>2. CASE w \in Wallet
  BY <1>1, <1>2 DEF Entry, Wallet
<1>3. CASE w \in TornWallet
  BY <1>1, <1>3 DEF Entry, TornWallet
<1>4. QED
  BY <1>2, <1>3 DEF Entry

\* An update leaves documents, and at least one.
LEMMA UpdateKeeps ==
    ASSUME Typed, NEW u \in DOMAIN docs, NEW p \in Positions, NEW w \in Entry, Update(u, p, w)
    PROVE  docs' \in Seq(Doc) /\ docs' # <<>>
<1>1. docs' \in Seq(Doc) /\ Len(docs') = Len(docs)
  BY UpdateTyped DEF Typed
<1>2. Len(docs) # 0
  BY DEF Typed
<1>3. QED
  BY <1>1, <1>2

\* Sending a transaction leaves the address to be added, or ends.
LEMMA EventSendRawTxTyped ==
    ASSUME Typed, NEW r \in Reqs, EventSendRawTx(r)
    PROVE  /\ Typed' /\ req[r] \in Adding /\ docs # <<>>
           /\ \E q \in {Idle} \cup Adding : req' = [req EXCEPT ![r] = q]
<1>1. req[r] \in Adding /\ docs # <<>> /\ req[r].key \in Keys
  BY Kinds, HasAccount DEF EventSendRawTx, At, Typed, Adding, Idle
<1>2. PICK q \in {Idle} \cup Adding : req' = [req EXCEPT ![r] = q]
  <2>1. CASE End(r)
    BY <2>1 DEF End
  <2>2. CASE Go(r, "read")
    <3>1. [req[r] EXCEPT !.at = "read"] \in Adding
      BY <1>1 DEF Adding
    <3>2. QED
      BY <2>2, <3>1, GoIs
  <2>3. QED
    BY <2>1, <2>2 DEF EventSendRawTx
<1>3. q \in Request /\ sent' \subseteq Keys
  BY <1>1, <1>2 DEF Request, EventSendRawTx, Typed
<1>4. Typed'
  BY <1>1, <1>2, <1>3, ServeTyped DEF EventSendRawTx, Typed, payments, history
<1>5. QED
  BY <1>1, <1>2, <1>4

\* The read before an address is added finds the position, or ends.
LEMMA AddressReadTyped ==
    ASSUME Typed, NEW r \in Reqs, AddressRead(r)
    PROVE  /\ Typed' /\ req[r] \in Adding /\ docs # <<>>
           /\ \E q \in {Idle} \cup AddingAt : req' = [req EXCEPT ![r] = q]
<1>1. req[r] \in Adding /\ docs # <<>> /\ req[r].key \in Keys
  <2>1. req[r] \in Request /\ req[r].at = "read" /\ req[r].op \in {"address", "send"}
    BY DEF AddressRead, Typed
  <2>2. QED
    BY <2>1, Kinds, HasAccount DEF Adding, Idle
<1>2. PICK q \in {Idle} \cup AddingAt : req' = [req EXCEPT ![r] = q]
  <2>1. CASE End(r)
    BY <2>1 DEF End
  <2>2. CASE ~End(r)
    <3> DEFINE u == FindUser(req[r].jwt)
               p == LastPosition(docs[u].wallets, req[r].key)
               q == [op |-> req[r].op, at |-> "push", key |-> req[r].key, jwt |-> req[r].jwt, pos |-> p]
    <3>1. u # 0 /\ req' = [req EXCEPT ![r] = q]
      BY <2>2 DEF AddressRead, Cut, Typed
    <3>2. u \in DOMAIN docs
      BY <3>1, UserFound, DocsTyped
    <3>3. p \in Positions
      BY <3>2, DocTyped, LastPositionOf DEF Typed
    <3>4. q \in AddingAt
      BY <1>1, <3>3 DEF AddingAt, Adding
    <3>5. QED
      BY <3>1, <3>4
  <2>3. QED
    BY <2>1, <2>2
<1>3. q \in Request /\ cut' \subseteq Keys
  BY <1>1, <1>2 DEF Request, AddressRead, Cut, Typed
<1>4. Typed'
  BY <1>1, <1>2, <1>3, ServeTyped DEF AddressRead, Typed, payments, history
<1>5. QED
  BY <1>1, <1>2, <1>4

\* Adding the address ends the request.
LEMMA AddressPushTyped ==
    ASSUME Typed, NEW r \in Reqs, AddressPush(r)
    PROVE  /\ Typed' /\ req[r] \in AddingAt /\ docs # <<>>
           /\ req' = [req EXCEPT ![r] = Idle]
<1>1. req[r] \in AddingAt /\ docs # <<>> /\ req[r].key \in Keys /\ req[r].pos \in Positions
  <2>1. req[r] \in Request /\ req[r].at = "push" /\ req[r].op \in {"address", "send"}
    BY DEF AddressPush, Typed
  <2>2. QED
    BY <2>1, Kinds, HasAccount DEF AddingAt, Idle
<1>2. req' = [req EXCEPT ![r] = Idle]
  BY DEF AddressPush, Answer, Cut, End
<1>3. docs' \in Seq(Doc) /\ docs' # <<>> /\ answered' \subseteq Told /\ cut' \subseteq Keys
  <2> DEFINE u == FindHolder(req[r].jwt, req[r].key)
             w == [WalletAt(u, req[r].pos) EXCEPT
                     !.addrs = @ \cup {NextAddress(req[r].key)}, !.by = @ \cup {req[r].key}]
  <2>1. CASE u = 0
    BY <1>1, <2>1 DEF AddressPush, Typed, Cut
  <2>2. CASE u # 0
    <3>1. u \in DOMAIN docs
      BY <2>2, HolderFound, DocsTyped
    <3>2. w \in Entry
      BY <1>1, <3>1, WalletAtTyped, EntryTyped DEF Typed
    <3>3. Update(u, req[r].pos, w) /\ answered' = answered \cup {<<"address", req[r].key>>} /\ cut' = cut
      BY <2>2 DEF AddressPush, Answer
    <3>4. docs' \in Seq(Doc) /\ docs' # <<>>
      BY <1>1, <3>1, <3>2, <3>3, UpdateKeeps
    <3>5. QED
      BY <1>1, <3>3, <3>4 DEF Typed, Told
  <2>3. QED
    BY <2>1, <2>2
<1>4. Typed'
  BY <1>1, <1>2, <1>3, IdleTyped, ServeTyped DEF AddressPush, Typed, payments, history
<1>5. QED
  BY <1>1, <1>2, <1>4

\* The read before a name is set finds the position, or ends.
LEMMA NameReadTyped ==
    ASSUME Typed, NEW r \in Reqs, NameRead(r)
    PROVE  /\ Typed' /\ req[r] \in Naming /\ docs # <<>>
           /\ \E q \in {Idle} \cup NamingAt : req' = [req EXCEPT ![r] = q]
<1>1. req[r] \in Naming /\ docs # <<>> /\ req[r].key \in Keys
  BY Kinds, HasAccount DEF NameRead, At, Typed, Naming, Idle
<1>2. PICK q \in {Idle} \cup NamingAt : req' = [req EXCEPT ![r] = q]
  <2>1. CASE End(r)
    BY <2>1 DEF End
  <2>2. CASE ~End(r)
    <3> DEFINE u == FindUser(req[r].jwt)
               p == FirstPosition(docs[u].wallets, req[r].key)
               q == [op |-> "rename", at |-> "set", key |-> req[r].key, pos |-> p]
    <3>1. u # 0 /\ req' = [req EXCEPT ![r] = q]
      BY <2>2 DEF NameRead, Typed
    <3>2. u \in DOMAIN docs
      BY <3>1, UserFound, DocsTyped
    <3>3. p \in Positions
      BY <3>2, DocTyped, FirstPositionOf DEF Typed
    <3>4. q \in NamingAt
      BY <1>1, <3>3 DEF NamingAt
    <3>5. QED
      BY <3>1, <3>4
  <2>3. QED
    BY <2>1, <2>2
<1>3. q \in Request
  BY <1>2 DEF Request
<1>4. Typed'
  BY <1>1, <1>2, <1>3, ServeTyped DEF NameRead, Typed, payments, history
<1>5. QED
  BY <1>1, <1>2, <1>4

\* Setting the name ends the request.
LEMMA NameSetTyped ==
    ASSUME Typed, NEW r \in Reqs, NameSet(r)
    PROVE  /\ Typed' /\ req[r] \in NamingAt /\ docs # <<>>
           /\ req' = [req EXCEPT ![r] = Idle]
<1>1. req[r] \in NamingAt /\ docs # <<>> /\ req[r].key \in Keys /\ req[r].pos \in Positions
  BY Kinds, HasAccount DEF NameSet, At, Typed, NamingAt, Idle
<1>2. req' = [req EXCEPT ![r] = Idle]
  BY DEF NameSet, End
<1>3. docs' \in Seq(Doc) /\ docs' # <<>>
  <2> DEFINE u == FindByWallet(req[r].key, {"index", "network"})
             w == [WalletAt(u, req[r].pos) EXCEPT !.by = @ \cup {req[r].key}]
  <2>1. CASE u = 0
    BY <1>1, <2>1 DEF NameSet, Typed
  <2>2. CASE u # 0
    <3>1. u \in DOMAIN docs
      BY <2>2, WalletUserFound, DocsTyped
    <3>2. w \in Entry
      BY <1>1, <3>1, WalletAtTyped, EntryTyped DEF Typed
    <3>3. Update(u, req[r].pos, w)
      BY <2>2 DEF NameSet
    <3>4. QED
      BY <1>1, <3>1, <3>2, <3>3, UpdateKeeps
  <2>3. QED
    BY <2>1, <2>2
<1>4. Typed'
  BY <1>1, <1>2, <1>3, IdleTyped, ServeTyped DEF NameSet, Typed, payments, history
<1>5. QED
  BY <1>1, <1>2, <1>4

\* Marking a wallet as broken ends the request.
LEMMA BrokenSetTyped ==
    ASSUME Typed, NEW r \in Reqs, BrokenSet(r)
    PROVE  /\ Typed' /\ req[r] \in Breaking /\ docs # <<>>
           /\ req' = [req EXCEPT ![r] = Idle]
<1>1. req[r] \in Breaking /\ docs # <<>> /\ req[r].key \in Keys
  BY Kinds, HasAccount DEF BrokenSet, At, Typed, Breaking, Idle
<1>2. req' = [req EXCEPT ![r] = Idle]
  BY DEF BrokenSet, End
<1>3. docs' \in Seq(Doc) /\ docs' # <<>>
  <2> DEFINE u == FindByAddress(<<req[r].key, 0>>)
             i == HasAddress(docs[u], <<req[r].key, 0>>)
             w == [WalletAt(u, i) EXCEPT !.by = @ \cup {req[r].key}]
  <2>1. CASE u = 0
    BY <1>1, <2>1 DEF BrokenSet, Typed
  <2>2. CASE u # 0
    <3>1. u \in DOMAIN docs /\ i # 0
      BY <2>2, AddressUserFound, DocsTyped
    <3>2. i \in Positions
      BY <3>1, DocTyped, AddressFound, DocsTyped DEF Positions
    <3>3. w \in Entry
      BY <1>1, <3>1, <3>2, WalletAtTyped, EntryTyped DEF Typed
    <3>4. Update(u, i, w)
      BY <2>2 DEF BrokenSet
    <3>5. QED
      BY <3>1, <3>2, <3>3, <3>4, UpdateKeeps
  <2>3. QED
    BY <2>1, <2>2
<1>4. Typed'
  BY <1>1, <1>2, <1>3, IdleTyped, ServeTyped DEF BrokenSet, Typed, payments, history
<1>5. QED
  BY <1>1, <1>2, <1>4

\* What a deletion asks the balances of are addresses.
LEMMA WeighedTyped ==
    ASSUME NEW ws \in Seq(Entry), NEW k \in Keys
    PROVE  Weighed(ws, k) \subseteq Asked
<1>1. \A i \in DOMAIN ws : ws[i].addrs \subseteq Addresses /\ <<ws[i].key, 0>> \in Asked
  <2> SUFFICES ASSUME NEW i \in DOMAIN ws
               PROVE  ws[i].addrs \subseteq Addresses /\ <<ws[i].key, 0>> \in Asked
    OBVIOUS
  <2>1. ws[i] \in Entry
    OBVIOUS
  <2>2. QED
    BY <2>1 DEF Entry, Wallet, TornWallet, Asked, Addresses
<1> DEFINE n == IF Imported(k) THEN 0 ELSE k.index
<1>2. LastOfIndex(ws, n) \in 0..Len(ws)
  BY LastOfIndexIs
<1>3. CASE k.currency = "BTC"
  <2>1. Weighed(ws, k) = UNION {ws[i].addrs : i \in {j \in DOMAIN ws : ws[j].key.index = n}}
    BY <1>3 DEF Weighed
  <2>2. QED
    BY <1>1, <2>1 DEF Asked
<1>4. CASE k.currency # "BTC"
  <2>1. \/ Weighed(ws, k) = {}
        \/ LastOfIndex(ws, n) # 0 /\ Weighed(ws, k) = {<<ws[LastOfIndex(ws, n)].key, 0>>}
    BY <1>4 DEF Weighed
  <2>2. LastOfIndex(ws, n) # 0 => LastOfIndex(ws, n) \in DOMAIN ws
    BY <1>2
  <2>3. QED
    BY <1>1, <2>1, <2>2
<1>5. QED
  BY <1>3, <1>4

\* The read of a deletion notes what is to be weighed, and what it saw.
LEMMA DeleteReadTyped ==
    ASSUME Typed, NEW r \in Reqs, DeleteRead(r)
    PROVE  /\ Typed' /\ req[r] \in Deleting /\ docs # <<>>
           /\ \E q \in {Idle} \cup Weighing :
                /\ req' = [req EXCEPT ![r] = q]
                /\ q # Idle => /\ FindUser(req[r].jwt) \in DOMAIN docs
                               /\ q.at = "weigh" /\ q.key = req[r].key
                               /\ q.asked = Weighed(docs[FindUser(req[r].jwt)].wallets, q.key)
                               /\ q.seen = <<docs, funds>>
<1>1. req[r] \in Deleting /\ docs # <<>> /\ req[r].key \in Keys
  BY Kinds, HasAccount DEF DeleteRead, At, Typed, Deleting, Idle
<1>2. PICK q \in {Idle} \cup Weighing :
                /\ req' = [req EXCEPT ![r] = q]
                /\ q # Idle => /\ FindUser(req[r].jwt) \in DOMAIN docs
                               /\ q.at = "weigh" /\ q.key = req[r].key
                               /\ q.asked = Weighed(docs[FindUser(req[r].jwt)].wallets, q.key)
                               /\ q.seen = <<docs, funds>>
  <2>1. CASE End(r)
    BY <2>1 DEF End
  <2>2. CASE ~End(r)
    <3> DEFINE u == FindUser(req[r].jwt)
               a == Weighed(docs[u].wallets, req[r].key)
               q == [op |-> "delete", at |-> "weigh", key |-> req[r].key, asked |-> a,
                     seen |-> <<docs, funds>>]
    <3>1. u # 0 /\ req' = [req EXCEPT ![r] = q]
      BY <2>2 DEF DeleteRead, Typed
    <3>2. u \in DOMAIN docs
      BY <3>1, UserFound, DocsTyped
    <3>3. a \in SUBSET Asked /\ <<docs, funds>> \in Seen
      BY <1>1, <3>2, DocTyped, WeighedTyped DEF Typed, Seen
    <3>4. q \in Weighing
      BY <1>1, <3>3 DEF Weighing
    <3>5. q.at = "weigh" /\ q.key = req[r].key /\ q.asked = a /\ q.seen = <<docs, funds>>
      OBVIOUS
    <3> HIDE DEF q
    <3>6. QED
      BY <3>1, <3>2, <3>4, <3>5
  <2>3. QED
    BY <2>1, <2>2
<1>3. q \in Request
  BY <1>2 DEF Request
<1>4. Typed'
  BY <1>1, <1>2, <1>3, ServeTyped DEF DeleteRead, Typed, payments, history
<1>5. QED
  BY <1>1, <1>2, <1>4

\* A deletion goes on only when no address it asked about has a balance.
LEMMA WeighTyped ==
    ASSUME Typed, NEW r \in Reqs, Weigh(r)
    PROVE  /\ Typed' /\ req[r] \in Weighing /\ docs # <<>>
           /\ \E q \in {Idle} \cup Weighing :
                /\ req' = [req EXCEPT ![r] = q]
                /\ q # Idle =>
                     /\ q = [req[r] EXCEPT !.at = IF Imported(req[r].key) THEN "imported" ELSE "locate"]
                     /\ Looked(q.key) => \A a \in q.asked \cap funds : Chain(a[1]) # Chain(q.key)
<1>1. req[r] \in Weighing /\ docs # <<>> /\ req[r].key \in Keys
  BY Kinds, HasAccount DEF Weigh, At, Typed, Weighing, Idle
<1> DEFINE at == IF Imported(req[r].key) THEN "imported" ELSE "locate"
           q == [req[r] EXCEPT !.at = at]
<1>2. q \in Weighing /\ q.key = req[r].key /\ q.asked = req[r].asked
  BY <1>1 DEF Weighing
<1>3. \/ req' = [req EXCEPT ![r] = Idle]
      \/ /\ req' = [req EXCEPT ![r] = q]
         /\ Looked(q.key) => \A a \in q.asked \cap funds : Chain(a[1]) # Chain(q.key)
  <2>1. CASE End(r)
    BY <2>1 DEF End
  <2>2. CASE ~End(r)
    <3>1. Go(r, at)
      BY <2>2 DEF Weigh
    <3>2. req' = [req EXCEPT ![r] = q]
      BY <3>1, GoIs
    <3>3. Looked(req[r].key) => \A a \in req[r].asked \cap funds : Chain(a[1]) # Chain(req[r].key)
      BY <2>2 DEF Weigh
    <3>4. QED
      BY <1>2, <3>2, <3>3
  <2>3. QED
    BY <2>1, <2>2
<1>4. q \in Request /\ Idle \in Request
  BY <1>2 DEF Request
<1>5. Typed'
  BY <1>1, <1>3, <1>4, ServeTyped DEF Weigh, Typed, payments, history
<1>6. QED
  BY <1>1, <1>2, <1>3, <1>5

\* The second read of a deletion finds the position it will write.
LEMMA LocateTyped ==
    ASSUME Typed, NEW r \in Reqs, Locate(r)
    PROVE  /\ Typed' /\ req[r] \in Weighing /\ docs # <<>>
           /\ \E q \in DeletingAt :
                /\ req' = [req EXCEPT ![r] = q]
                /\ q.key = req[r].key /\ q.asked = req[r].asked /\ q.seen = req[r].seen
                /\ q.pos = FirstPosition(docs[1].wallets, req[r].key)
<1>1. req[r] \in Weighing /\ docs # <<>> /\ req[r].key \in Keys
  BY Kinds, HasAccount DEF Locate, At, Typed, Weighing, Idle
<1>2. FindByID = 1 /\ 1 \in DOMAIN docs
  BY <1>1 DEF FindByID, Typed
<1> DEFINE p == FirstPosition(docs[1].wallets, req[r].key)
           q == [op |-> "delete", at |-> "mark", key |-> req[r].key, asked |-> req[r].asked,
                 seen |-> req[r].seen, pos |-> p]
<1>3. p \in Positions
  BY <1>2, DocTyped, FirstPositionOf DEF Typed
<1>4. q \in DeletingAt
  BY <1>1, <1>3 DEF Weighing, DeletingAt
<1>5. req' = [req EXCEPT ![r] = q]
  BY <1>2 DEF Locate, Typed
<1>6. q \in Request
  BY <1>4 DEF Request
<1>7. Typed'
  BY <1>1, <1>5, <1>6, ServeTyped DEF Locate, Typed, payments, history
<1>8. QED
  BY <1>1, <1>4, <1>5, <1>7

\* Marking the wallet as deleted ends the request.
LEMMA MarkDeletedTyped ==
    ASSUME Typed, NEW r \in Reqs, MarkDeleted(r)
    PROVE  /\ Typed' /\ req[r] \in DeletingAt /\ docs # <<>>
           /\ req' = [req EXCEPT ![r] = Idle]
<1>1. req[r] \in DeletingAt /\ docs # <<>> /\ req[r].key \in Keys /\ req[r].pos \in Positions
  BY Kinds, HasAccount DEF MarkDeleted, At, Typed, DeletingAt, Idle
<1>2. req' = [req EXCEPT ![r] = Idle]
  BY DEF MarkDeleted, Answer, Refuse, End
<1>3. docs' \in Seq(Doc) /\ docs' # <<>> /\ answered' \subseteq Told /\ hid' \subseteq Keys
  <2> DEFINE u == FindByWallet(req[r].key, Triple)
             w == [WalletAt(u, req[r].pos) EXCEPT !.status = "deleted", !.by = @ \cup {req[r].key}]
  <2>1. CASE u = 0
    BY <1>1, <2>1 DEF MarkDeleted, Refuse, Typed
  <2>2. CASE u # 0
    <3>1. u \in DOMAIN docs
      BY <2>2, WalletUserFound, DocsTyped
    <3>2. w \in Entry
      BY <1>1, <3>1, WalletAtTyped, EntryTyped DEF Typed
    <3>3. /\ Update(u, req[r].pos, w) /\ answered' = answered \cup {<<"deleted", req[r].key>>}
          /\ hid' \subseteq hid \cup {req[r].key}
      BY <2>2 DEF MarkDeleted, Answer
    <3>4. docs' \in Seq(Doc) /\ docs' # <<>>
      BY <1>1, <3>1, <3>2, <3>3, UpdateKeeps
    <3>5. QED
      BY <1>1, <3>3, <3>4 DEF Typed, Told
  <2>3. QED
    BY <2>1, <2>2
<1>4. Typed'
  BY <1>1, <1>2, <1>3, IdleTyped, ServeTyped DEF MarkDeleted, Typed
<1>5. QED
  BY <1>1, <1>2, <1>4

\* So does marking the imported one.
LEMMA MarkImportedTyped ==
    ASSUME Typed, NEW r \in Reqs, MarkImported(r)
    PROVE  /\ Typed' /\ req[r] \in Weighing /\ docs # <<>>
           /\ req' = [req EXCEPT ![r] = Idle]
<1>1. req[r] \in Weighing /\ docs # <<>> /\ req[r].key \in Keys
  BY Kinds, HasAccount DEF MarkImported, At, Typed, Weighing, Idle
<1>2. req' = [req EXCEPT ![r] = Idle]
  BY DEF MarkImported, Answer, Refuse, End
<1>3. docs' \in Seq(Doc) /\ docs' # <<>> /\ answered' \subseteq Told
  <2> DEFINE u == FindImported(<<req[r].key, 0>>)
  <2>1. CASE u = 0
    BY <1>1, <2>1 DEF MarkImported, Refuse, Typed
  <2>2. CASE u # 0
    <3>1. /\ u \in DOMAIN docs
          /\ HasAddress(docs[u], <<req[r].key, 0>>) # 0 /\ FirstImported(docs[u]) # 0
      BY <2>2, ImportedUserFound, DocsTyped
    <3>2. PICK i \in {HasAddress(docs[u], <<req[r].key, 0>>), FirstImported(docs[u])} :
             Update(u, i, [WalletAt(u, i) EXCEPT !.status = "deleted", !.by = @ \cup {req[r].key}])
      BY <2>2 DEF MarkImported
    <3>3. i \in Positions
      BY <3>1, DocTyped, AddressFound, ImportedFound, DocsTyped DEF Positions
    <3>4. [WalletAt(u, i) EXCEPT !.status = "deleted", !.by = @ \cup {req[r].key}] \in Entry
      BY <1>1, <3>1, <3>3, WalletAtTyped, EntryTyped DEF Typed
    <3>5. docs' \in Seq(Doc) /\ docs' # <<>>
      BY <3>1, <3>2, <3>3, <3>4, UpdateKeeps
    <3>6. answered' = answered \cup {<<"deleted", req[r].key>>}
      BY <2>2 DEF MarkImported, Answer
    <3>7. QED
      BY <1>1, <3>5, <3>6 DEF Typed, Told
  <2>3. QED
    BY <2>1, <2>2
<1>4. Typed'
  BY <1>1, <1>2, <1>3, IdleTyped, ServeTyped DEF MarkImported, Typed, payments
<1>5. QED
  BY <1>1, <1>2, <1>4

\* A login answers with a token: who was granted it, and who holds it.
LEMMA LoginTyped ==
    ASSUME Typed, NEW r \in Reqs, req[r] \in Inserting \cup Refreshing \cup Rewriting,
           docs' \in Seq(Doc), docs' # <<>>, Grant(r), overtook' \in BOOLEAN,
           UNCHANGED <<now, requests, payments, sent, cut>>
    PROVE  Typed' /\ req' = [req EXCEPT ![r] = Idle]
<1>1. req[r].dev \in Devices /\ req[r].jwt \in Instants
  BY DEF Inserting, Refreshing, Rewriting
<1>2. req' = [req EXCEPT ![r] = Idle]
  BY DEF Grant, Answer, End
<1>3. req' \in [Reqs -> Request]
  BY <1>2, IdleTyped DEF Typed
<1>4. token' \in [Devices -> 0..MaxSeconds] /\ answered' \subseteq Told
      /\ granted' \subseteq Devices \X Instants
  BY <1>1 DEF Grant, Answer, Typed, Told, Instants
<1>5. NoAccount'
  BY DEF NoAccount
<1>6. QED
  BY <1>2, <1>3, <1>4, <1>5 DEF Typed, payments

\* The entry a login makes for its device is one.
LEMMA NewDeviceTyped ==
    ASSUME NEW r \in Reqs, req[r] \in Inserting \cup Refreshing \cup Rewriting
    PROVE  NewDevice(r) \in Device
BY DEF Inserting, Refreshing, Rewriting, NewDevice, Device

\* A first login adds a document with the device.
LEMMA LoginInsertTyped ==
    ASSUME Typed, NEW r \in Reqs, LoginInsert(r)
    PROVE  /\ Typed' /\ req[r] \in Inserting /\ req' = [req EXCEPT ![r] = Idle]
           /\ Len(docs') = Len(docs) + 1
           /\ docs = <<>> => docs'[1] = [devices |-> <<NewDevice(r)>>, wallets |-> <<>>]
<1>1. req[r] \in Inserting
  BY Kinds DEF LoginInsert, At, Typed
<1> DEFINE doc == [devices |-> <<NewDevice(r)>>, wallets |-> <<>>]
<1>2. doc \in Doc
  BY <1>1, NewDeviceTyped DEF Doc
<1>3. docs' = Append(docs, doc)
  BY DEF LoginInsert
<1> HIDE DEF doc
<1>4. docs' \in Seq(Doc) /\ Len(docs') = Len(docs) + 1 /\ docs' # <<>>
  BY <1>2, <1>3 DEF Typed
<1>5. docs = <<>> => docs'[1] = doc
  BY <1>2, <1>3 DEF Typed
<1>6. Typed' /\ req' = [req EXCEPT ![r] = Idle]
  BY <1>1, <1>4, LoginTyped DEF LoginInsert, Typed
<1>7. QED
  BY <1>1, <1>4, <1>5, <1>6 DEF doc

\* Either no document has the old token, or the first device with it gets the new one.
LEMMA LoginRefreshTyped ==
    ASSUME Typed, NEW r \in Reqs, LoginRefresh(r)
    PROVE  /\ Typed' /\ req[r] \in Refreshing /\ req' = [req EXCEPT ![r] = Idle] /\ docs # <<>>
           /\ \/ docs' = docs /\ UNCHANGED <<token, answered, granted>>
              \/ \E u \in DOMAIN docs : \E i \in DOMAIN docs[u].devices :
                   /\ docs[u].devices[i].jwt = req[r].old
                   /\ docs' = [docs EXCEPT ![u].devices[i].jwt = req[r].jwt]
                   /\ docs'[u].wallets = docs[u].wallets
                   /\ docs'[u].devices = [docs[u].devices EXCEPT ![i].jwt = req[r].jwt]
                   /\ Len(docs') = Len(docs) /\ Grant(r)
<1>1. req[r] \in Refreshing /\ docs # <<>>
  <2>1. req[r] \in Request /\ req[r].op = "login" /\ req[r].at = "refresh"
    BY DEF LoginRefresh, At, Typed
  <2>2. req[r] \in Refreshing
    BY <2>1, Kinds
  <2>3. QED
    BY <2>1, <2>2, HasAccount DEF Idle
<1> DEFINE u == FindUser(req[r].old)
           i == DeviceWith(docs[u], req[r].old)
<1>2. CASE u = 0
  <2>1. docs' = docs /\ UNCHANGED <<token, answered, granted>> /\ req' = [req EXCEPT ![r] = Idle]
    BY <1>2 DEF LoginRefresh, Refuse, End
  <2>2. Typed'
    BY <1>1, <2>1, IdleTyped, ServeTyped DEF LoginRefresh, Typed, payments
  <2>3. QED
    BY <1>1, <2>1, <2>2
<1>3. CASE u # 0
  <2>1. u \in DOMAIN docs /\ Holds(docs[u], req[r].old)
    BY <1>3, UserFound, DocsTyped
  <2>2. /\ docs[u] \in Doc /\ docs[u].devices \in Seq(Device)
        /\ DOMAIN docs[u].devices = 1..Len(docs[u].devices)
    BY <2>1, DocTyped DEF Typed
  <2>3. i \in DOMAIN docs[u].devices /\ docs[u].devices[i].jwt = req[r].old
    BY <2>1, <2>2, TokenFound
  <2>4. docs' = [docs EXCEPT ![u].devices[i].jwt = req[r].jwt] /\ Grant(r)
    BY <1>3 DEF LoginRefresh
  <2> HIDE DEF i, u
  <2> DEFINE ds == [docs[u].devices EXCEPT ![i].jwt = req[r].jwt]
             doc == [docs[u] EXCEPT !.devices = ds]
  <2>5. ds \in Seq(Device)
    <3>1. req[r].jwt \in Instants
      BY <1>1 DEF Refreshing
    <3>2. [docs[u].devices[i] EXCEPT !.jwt = req[r].jwt] \in Device
      <4>1. docs[u].devices[i] \in Device
        BY <2>2, <2>3
      <4>2. QED
        BY <3>1, <4>1 DEF Device
    <3>3. ds = [docs[u].devices EXCEPT ![i] = [docs[u].devices[i] EXCEPT !.jwt = req[r].jwt]]
      OBVIOUS
    <3>4. QED
      BY <2>2, <2>3, <3>2, <3>3
  <2> HIDE DEF ds
  <2>6. doc \in Doc /\ doc.wallets = docs[u].wallets /\ doc.devices = ds
    BY <2>2, <2>5 DEF Doc
  <2>7. docs' = [docs EXCEPT ![u] = doc]
    BY <2>4 DEF ds
  <2> HIDE DEF doc
  <2>8. docs' \in Seq(Doc) /\ Len(docs') = Len(docs) /\ docs' # <<>> /\ docs'[u] = doc
    BY <1>1, <2>1, <2>6, <2>7 DEF Typed
  <2>9. Typed' /\ req' = [req EXCEPT ![r] = Idle]
    BY <1>1, <2>4, <2>8, LoginTyped DEF LoginRefresh, Typed
  <2>10. QED
    BY <1>1, <2>1, <2>3, <2>4, <2>6, <2>8, <2>9 DEF ds
<1>4. QED
  BY <1>2, <1>3

\* A login of a new device writes back the document as it was read.
LEMMA LoginRewriteTyped ==
    ASSUME Typed, NEW r \in Reqs, LoginRewrite(r)
    PROVE  /\ Typed' /\ req[r] \in Rewriting /\ req' = [req EXCEPT ![r] = Idle] /\ docs # <<>>
           /\ Len(docs') = Len(docs)
           /\ docs'[1].wallets = req[r].doc.wallets
           /\ docs'[1].devices = Append(req[r].doc.devices, NewDevice(r))
<1>1. req[r] \in Rewriting /\ docs # <<>>
  <2>1. req[r] \in Request /\ req[r].op = "login" /\ req[r].at = "rewrite"
    BY DEF LoginRewrite, At, Typed
  <2>2. req[r] \in Rewriting
    BY <2>1, Kinds
  <2>3. req[r] # Idle
    BY <2>1 DEF Idle
  <2>4. QED
    BY <2>1, <2>2, <2>3, HasAccount
<1>2. FindByID = 1 /\ 1 \in DOMAIN docs
  BY <1>1 DEF FindByID, Typed
<1> DEFINE ds == Append(req[r].doc.devices, NewDevice(r))
           doc == [req[r].doc EXCEPT !.devices = ds]
<1>3. req[r].doc \in Doc
  BY <1>1 DEF Rewriting
<1>4. ds \in Seq(Device)
  BY <1>1, <1>3, NewDeviceTyped DEF Doc
<1>5. docs' = [docs EXCEPT ![1] = doc]
  BY <1>2 DEF LoginRewrite
<1> HIDE DEF ds
<1>6. doc \in Doc /\ doc.wallets = req[r].doc.wallets /\ doc.devices = ds
  BY <1>3, <1>4 DEF Doc
<1> HIDE DEF doc
<1>7. docs' \in Seq(Doc) /\ Len(docs') = Len(docs) /\ docs' # <<>> /\ docs'[1] = doc
  BY <1>1, <1>2, <1>5, <1>6 DEF Typed
<1>8. overtook' \in BOOLEAN
  BY DEF LoginRewrite, Typed
<1>9. Typed' /\ req' = [req EXCEPT ![r] = Idle]
  BY <1>1, <1>7, <1>8, LoginTyped DEF LoginRewrite
<1>10. QED
  BY <1>1, <1>6, <1>7, <1>9 DEF ds

\* A payment keeps the types.
LEMMA ReceiveTyped ==
    ASSUME Typed, NEW a \in Addresses, Receive(a)
    PROVE  Typed'
<1>1. funds' \subseteq Addresses /\ reports' \in Seq(Addresses)
  BY DEF Receive, Typed
<1>2. QED
  BY <1>1 DEF Receive, Typed, NoAccount, history

\* The lookup of a payment finds the wallet with its address, or drops it.
LEMMA TouchReadTyped ==
    ASSUME Typed, TouchRead
    PROVE  /\ Typed' /\ reports # <<>> /\ Head(reports) \in Addresses
           /\ \/ touch' = touch /\ FindByAddress(Head(reports)) = 0
              \/ LET u == FindByAddress(Head(reports)) IN
                   /\ u \in DOMAIN docs
                   /\ touch' = [op |-> "touch", addr |-> Head(reports),
                                pos |-> LastWith(docs[u].wallets, Head(reports))]
                   /\ LastWith(docs[u].wallets, Head(reports)) \in DOMAIN docs[u].wallets
                   /\ Head(reports) \in docs[u].wallets[LastWith(docs[u].wallets, Head(reports))].addrs
<1> DEFINE a == Head(reports)
           u == FindByAddress(a)
           p == LastWith(docs[u].wallets, a)
<1>1. reports # <<>> /\ a \in Addresses /\ reports' \in Seq(Addresses)
  BY DEF TouchRead, Typed
<1>2. CASE u = 0
  <2>1. touch' = touch
    BY <1>2 DEF TouchRead
  <2>2. QED
    BY <1>1, <1>2, <2>1 DEF TouchRead, Typed, NoAccount, history
<1>3. CASE u # 0
  <2>1. u \in DOMAIN docs /\ HasAddress(docs[u], a) # 0
    BY <1>3, AddressUserFound, DocsTyped
  <2>2. Len(docs[u].wallets) \in Nat /\ DOMAIN docs[u].wallets = 1..Len(docs[u].wallets)
    BY <2>1, DocTyped DEF Typed
  <2>3. p \in DOMAIN docs[u].wallets /\ a \in docs[u].wallets[p].addrs
    BY <2>1, <2>2, LastAddressFound, AddressFound
  <2>4. touch' = [op |-> "touch", addr |-> a, pos |-> p]
    BY <1>3 DEF TouchRead
  <2>5. p \in Positions
    BY <2>2, <2>3 DEF Positions
  <2> HIDE DEF a, u, p
  <2>6. touch' \in Touching
    BY <1>1, <2>4, <2>5 DEF Touching
  <2>7. Typed'
    BY <1>1, <2>6 DEF TouchRead, Typed, NoAccount, history
  <2>8. QED
    BY <1>1, <2>1, <2>3, <2>4, <2>7 DEF a, u, p
<1>4. QED
  BY <1>2, <1>3

\* The update of the wallet keeps the types.
LEMMA TouchSetTyped ==
    ASSUME Typed, TouchSet
    PROVE  Typed' /\ touch \in Touching
<1>1. touch \in Touching /\ touch.pos \in Positions /\ touch.addr[1] \in Keys
  BY DEF TouchSet, Typed, Touching, Addresses
<1> DEFINE u == FindByAddress(touch.addr)
           w == [WalletAt(u, touch.pos) EXCEPT !.status = "ok", !.by = @ \cup {touch.addr[1]}]
<1>2. CASE u = 0
  <2>1. docs' = docs /\ revived' = revived /\ touch' = Idle
    BY <1>2 DEF TouchSet
  <2>2. QED
    BY <1>1, <2>1 DEF TouchSet, Typed, NoAccount, history
<1>3. CASE u # 0
  <2>1. u \in DOMAIN docs
    BY <1>3, AddressUserFound, DocsTyped
  <2>2. w \in Entry
    BY <1>1, <2>1, WalletAtTyped, EntryTyped DEF Typed
  <2>3. Update(u, touch.pos, w) /\ revived' = revived \cup {touch.addr[1]} /\ touch' = Idle
    BY <1>3 DEF TouchSet
  <2>4. docs' \in Seq(Doc) /\ docs' # <<>>
    BY <1>1, <2>1, <2>2, <2>3, UpdateKeeps
  <2>5. NoAccount'
    BY <2>4 DEF NoAccount
  <2>6. QED
    BY <1>1, <2>3, <2>4, <2>5 DEF TouchSet, Typed, history
<1>4. QED
  BY <1>2, <1>3

\* So does the clock.
LEMMA TickTyped ==
    ASSUME Typed, Tick
    PROVE  Typed'
<1>1. now' \in Instants
  BY WalletsAssumption DEF Tick, Typed, Instants
<1>2. QED
  BY <1>1 DEF Tick, Typed, NoAccount, payments, history

\* Every step keeps the types.
LEMMA NextTyped ==
    ASSUME Typed, [Next]_vars
    PROVE  Typed'
<1>1. CASE UNCHANGED vars
  BY <1>1 DEF Typed, NoAccount, vars
<1>2. ASSUME NEW r \in Reqs, Goes(r) PROVE Typed'
  BY <1>2, LoginInsertTyped, LoginRefreshTyped, LoginRewriteTyped, CheckAddWalletTyped,
     CreateReadTyped, CreatePushTyped, EventSendRawTxTyped, AddressReadTyped, AddressPushTyped,
     NameReadTyped, NameSetTyped, BrokenSetTyped, DeleteReadTyped, WeighTyped, LocateTyped,
     MarkDeletedTyped, MarkImportedTyped DEF Goes
<1>3. ASSUME NEW r \in Reqs, NEW d \in Devices, Arrives(r, d) PROVE Typed'
  BY <1>3, AuthenticateTyped, ArrivesTyped DEF Arrives
<1>4. ASSUME NEW k \in Keys, NEW i \in {0, 1}, Receive(<<k, i>>) PROVE Typed'
  BY <1>4, ReceiveTyped DEF Addresses
<1>5. QED
  BY <1>1, <1>2, <1>3, <1>4, TouchReadTyped, TouchSetTyped, TickTyped DEF Next

\* They hold at the start.
LEMMA InitTyped ==
    ASSUME Init
    PROVE  Typed
<1>1. PICK ws \in Initial, d \in Devices :
         /\ docs = IF ws = <<>> THEN <<>>
                   ELSE <<[devices |-> <<[id |-> d, jwt |-> 1]>>,
                           wallets |-> [i \in DOMAIN ws |-> NewWallet(ws[i], "ok")]]>>
         /\ token = [e \in Devices |-> IF ws # <<>> /\ e = d THEN 1 ELSE 0]
         /\ granted = IF ws = <<>> THEN {} ELSE {<<d, 1>>}
         /\ answered = {<<"wallet", k>> : k \in ToSet(ws)}
  BY DEF Init
<1>2. ws \in Seq(Keys) /\ 1 \in Instants /\ MaxRequests \in Nat /\ MaxSeconds \in Nat
  BY WalletsAssumption DEF Instants
<1>3. docs \in Seq(Doc)
  <2>1. CASE ws = <<>>
    BY <1>1, <2>1
  <2>2. CASE ws # <<>>
    <3> DEFINE new == [i \in DOMAIN ws |-> NewWallet(ws[i], "ok")]
    <3>1. \A i \in DOMAIN ws : NewWallet(ws[i], "ok") \in Entry
      BY <1>2, NewWalletTyped DEF Entry
    <3>2. new \in Seq(Entry)
      BY <1>2, <3>1
    <3>3. <<[id |-> d, jwt |-> 1]>> \in Seq(Device)
      BY <1>2 DEF Device
    <3>4. [devices |-> <<[id |-> d, jwt |-> 1]>>, wallets |-> new] \in Doc
      BY <3>2, <3>3 DEF Doc
    <3>5. QED
      BY <1>1, <2>2, <3>4
  <2>3. QED
    BY <2>1, <2>2
<1>4. ToSet(ws) \subseteq Keys
  BY <1>2 DEF ToSet
<1>5. answered \subseteq Told /\ granted \subseteq Devices \X Instants /\ token \in [Devices -> 0..MaxSeconds]
  BY <1>1, <1>2, <1>4 DEF Told, Instants
<1>6. NoAccount
  <2> SUFFICES ASSUME docs = <<>>
               PROVE  (\A e \in Devices : token[e] = 0) /\ \A r \in Reqs : req[r] \in {Idle} \cup Inserting
    BY DEF NoAccount
  <2>1. ws = <<>>
    BY <1>1
  <2>2. QED
    BY <1>1, <2>1 DEF Init
<1>7. req \in [Reqs -> Request] /\ now \in Instants
  BY <1>2, IdleTyped DEF Init
<1>8. /\ requests \in 0..MaxRequests /\ funds \subseteq Addresses /\ reports \in Seq(Addresses)
      /\ touch = Idle /\ sent \subseteq Keys /\ cut \subseteq Keys /\ overtook \in BOOLEAN
      /\ hid \subseteq Keys /\ revived \subseteq Keys
  <2>1. /\ requests = 0 /\ funds = {} /\ reports = <<>> /\ touch = Idle
        /\ sent = {} /\ cut = {} /\ overtook = FALSE /\ hid = {} /\ revived = {}
    BY DEF Init
  <2>2. requests \in 0..MaxRequests
    BY <1>2, <2>1
  <2>3. reports \in Seq(Addresses)
    BY <2>1
  <2>4. QED
    BY <2>1, <2>2, <2>3
<1>9. QED
  BY <1>3, <1>5, <1>6, <1>7, <1>8 DEF Typed

\* The type invariant of the model is part of them.
LEMMA TypedTypeOK ==
    ASSUME Typed
    PROVE  TypeOK
<1>1. ASSUME NEW u \in DOMAIN docs, NEW i \in DOMAIN docs[u].devices
      PROVE  docs[u].devices[i] \in [id : Devices, jwt : 1..MaxSeconds]
  <2>1. docs[u].devices[i] \in Device
    BY <1>1, DocTyped DEF Typed
  <2>2. QED
    BY <2>1 DEF Device, Instants
<1>2. ASSUME NEW u \in DOMAIN docs, NEW i \in DOMAIN docs[u].wallets
      PROVE  docs[u].wallets[i] \in Wallet \/ docs[u].wallets[i].key = Torn.key
  <2>1. docs[u].wallets[i] \in Entry
    BY <1>2, DocTyped DEF Typed
  <2>2. QED
    BY <2>1 DEF Entry, TornWallet
<1>3. \A r \in Reqs : req[r].op \in {"idle", "login", "create", "mixed", "discover", "address",
                                     "send", "rename", "broken", "delete"}
  BY Kinds DEF Typed
<1>4. ToSet(reports) \subseteq Addresses /\ touch.op \in {"idle", "touch"}
  BY DEF Typed, ToSet, Touching, Idle
<1>5. QED
  BY <1>1, <1>2, <1>3, <1>4 DEF Typed, TypeOK, Instants

-----------------------------------------------------------------------------
(* A sound account: its one document, and how a step changes the list.       *)

\* The list of wallets and that of devices are what they are taken for.
LEMMA ListTyped ==
    ASSUME Typed
    PROVE  /\ List \in Seq(Entry) /\ Devs \in Seq(Device)
           /\ Len(List) \in Nat /\ DOMAIN List = 1..Len(List)
           /\ Len(Devs) \in Nat /\ DOMAIN Devs = 1..Len(Devs)
<1>1. CASE docs = <<>>
  BY <1>1 DEF List, Devs
<1>2. CASE docs # <<>>
  <2>1. 1 \in DOMAIN docs
    BY <1>2 DEF Typed
  <2>2. QED
    BY <1>2, <2>1, DocTyped DEF List, Devs, Typed
<1>3. QED
  BY <1>1, <1>2

\* While logins do not overtake each other there is one document.
LEMMA OneDoc ==
    ASSUME Typed, Sound, NEW u \in DOMAIN docs
    PROVE  u = 1 /\ docs # <<>> /\ List = docs[u].wallets /\ Devs = docs[u].devices
<1>1. u = 1 /\ docs # <<>>
  BY DEF Typed, Sound
<1>2. QED
  BY <1>1 DEF List, Devs

\* A step that adds no document leaves what was sound.
LEMMA SameDocs ==
    ASSUME Typed, [Next]_vars, DOMAIN docs' = DOMAIN docs, overtook' = overtook, Sound'
    PROVE  Sound
<1>1. docs' \in Seq(Doc) /\ docs \in Seq(Doc)
  BY NextTyped DEF Typed
<1>2. Len(docs') = Len(docs)
  BY <1>1
<1>3. QED
  BY <1>2 DEF Sound

\* What is sound was so before.
LEMMA SoundBefore ==
    ASSUME Typed, [Next]_vars, Sound'
    PROVE  Sound
<1>1. CASE UNCHANGED vars
  BY <1>1 DEF vars, Sound
<1>2. ASSUME NEW r \in Reqs, LoginInsert(r) PROVE Sound
  BY <1>2, LoginInsertTyped DEF Sound, Typed, LoginInsert
<1>3. ASSUME NEW r \in Reqs, LoginRefresh(r) PROVE Sound
  <2>1. Len(docs') = Len(docs)
    BY <1>3, LoginRefreshTyped
  <2>2. QED
    BY <1>3, <2>1 DEF Sound, LoginRefresh
<1>4. ASSUME NEW r \in Reqs, LoginRewrite(r) PROVE Sound
  <2>1. Len(docs') = Len(docs) /\ ~overtook
    BY <1>4, LoginRewriteTyped DEF LoginRewrite, Sound
  <2>2. QED
    BY <2>1 DEF Sound
<1>5. ASSUME NEW r \in Reqs,
             \/ CheckAddWallet(r) \/ CreateRead(r) \/ EventSendRawTx(r) \/ AddressRead(r)
             \/ NameRead(r) \/ DeleteRead(r) \/ Weigh(r) \/ Locate(r)
      PROVE  UNCHANGED docs /\ UNCHANGED overtook
  <2>1. CASE CheckAddWallet(r) \/ CreateRead(r) \/ EventSendRawTx(r)
    BY <2>1 DEF CheckAddWallet, CreateRead, EventSendRawTx, history
  <2>2. CASE AddressRead(r) \/ NameRead(r)
    BY <2>2 DEF AddressRead, NameRead, history
  <2>3. CASE DeleteRead(r) \/ Weigh(r) \/ Locate(r)
    BY <2>3 DEF DeleteRead, Weigh, Locate, history
  <2>4. QED
    BY <1>5, <2>1, <2>2, <2>3
<1>6. ASSUME NEW r \in Reqs,
             \/ CreatePush(r) \/ AddressPush(r) \/ NameSet(r) \/ BrokenSet(r)
             \/ MarkDeleted(r) \/ MarkImported(r)
      PROVE  DOMAIN docs' = DOMAIN docs /\ overtook' = overtook
  BY <1>6 DEF CreatePush, AddressPush, NameSet, BrokenSet, MarkDeleted, MarkImported, Update, history
<1>7. ASSUME NEW r \in Reqs, NEW d \in Devices, Arrives(r, d)
      PROVE  UNCHANGED docs /\ UNCHANGED overtook
  BY <1>7 DEF Arrives, Authenticate, AddWallet, DiscoverWallets, AddAddress, SendRaw, ChangeName,
              ConvertToBroken, DeleteRequest, Begin, history
<1>8. ASSUME NEW a, Receive(a) PROVE UNCHANGED docs /\ UNCHANGED overtook
  BY <1>8 DEF Receive, history
<1>9. CASE TouchRead \/ Tick
  BY <1>9, SameDocs DEF TouchRead, Tick, history
<1>10. CASE TouchSet
  <2>1. DOMAIN docs' = DOMAIN docs /\ overtook' = overtook
    BY <1>10 DEF TouchSet, Update, history
  <2>2. QED
    BY <2>1, SameDocs
<1>11. QED
  BY <1>1, <1>2, <1>3, <1>4, <1>5, <1>6, <1>7, <1>8, <1>9, <1>10, SameDocs DEF Next, Goes

\* The list grows: positions and keys stay, addresses are only added.
Grows ==
    /\ Len(List') >= Len(List)
    /\ \A i \in DOMAIN List : /\ i \in DOMAIN List'
                              /\ List'[i].key = List[i].key
                              /\ List[i].addrs \subseteq List'[i].addrs
SameStatus == \A i \in DOMAIN List : List'[i].status = List[i].status

\* The wallet at a position is changed on behalf of wallet k.
Writes(p, k) ==
    /\ p \in DOMAIN List /\ DOMAIN List' = DOMAIN List /\ Len(List') = Len(List)
    /\ \A i \in DOMAIN List : i # p => List'[i] = List[i]
    /\ List'[p] \in Wallet
    /\ List'[p].key = List[p].key /\ List'[p].by = List[p].by \cup {k}
    /\ List[p].key = k \/ (Imported(k) /\ Imported(List[p].key) /\ Several)
Sets(p, status, addrs) == List'[p].status = status /\ List'[p].addrs = addrs

\* An update through a selector that fits is a write of that key.
LEMMA ListUpdated ==
    ASSUME Typed, Sound, NEW u \in DOMAIN docs, NEW p \in DOMAIN List, NEW w \in Wallet,
           NEW k \in Keys, Update(u, p, w), List[p] \in Wallet,
           w.key = List[p].key, w.by = List[p].by \cup {k},
           List[p].key = k \/ (Imported(k) /\ Imported(List[p].key) /\ Several)
    PROVE  Writes(p, k) /\ Sets(p, w.status, w.addrs) /\ Devs' = Devs
<1>1. u = 1 /\ docs # <<>> /\ List = docs[u].wallets /\ Devs = docs[u].devices
  BY OneDoc
<1>2. p \in Positions /\ w \in Entry /\ List \in Seq(Entry) /\ DOMAIN List = 1..Len(List)
  BY ListTyped DEF Entry, Positions
<1>3. docs' \in Seq(Doc) /\ docs' # <<>>
  BY <1>2, UpdateKeeps
<1>4. docs'[u].devices = docs[u].devices /\ docs'[u].wallets = [docs[u].wallets EXCEPT ![p] = w]
  BY <1>1, <1>2, UpdateTyped DEF Typed
<1>5. List' = [List EXCEPT ![p] = w] /\ Devs' = Devs
  BY <1>1, <1>3, <1>4 DEF List, Devs
<1>6. QED
  BY <1>2, <1>5 DEF Writes, Sets

\* A write that removes no address lets the list grow.
LEMMA WritesGrows ==
    ASSUME Typed, OwnKept, NEW p, NEW k, Writes(p, k), List[p].addrs \subseteq List'[p].addrs
    PROVE  Grows
BY ListTyped DEF Writes, Grows

\* A list that grows keeps having several imported wallets.
LEMMA GrowsSeveral ==
    ASSUME Typed, Grows, Several
    PROVE  Several'
BY DEF Grows, Several

\* A write of a key to its own wallet leaves changes in their own.
LEMMA WritesOwn ==
    ASSUME Typed, OwnKept, NEW p, NEW k, Writes(p, k), List[p].addrs \subseteq List'[p].addrs,
           \A a \in List'[p].addrs : a[1] = List[p].key
    PROVE  OwnKept'
<1>1. Grows
  BY WritesGrows
<1>2. Several => Several'
  BY <1>1, GrowsSeveral
<1> SUFFICES ASSUME NEW i \in DOMAIN List' PROVE Own(List[i])'
  BY DEF OwnKept
<1>3. i \in DOMAIN List /\ Own(List[i])
  BY DEF Writes, OwnKept
<1>4. CASE i # p
  BY <1>2, <1>3, <1>4 DEF Writes, Own
<1>5. CASE i = p
  BY <1>2, <1>3, <1>5 DEF Writes, Own
<1>6. QED
  BY <1>4, <1>5

\* What each update does to the list of a sound account.
SameLists == List' = List /\ Devs' = Devs

\* With the documents the lists stay.
LEMMA SameDocsLists ==
    ASSUME docs' = docs
    PROVE  SameLists
BY DEF SameLists, List, Devs

\* The wallet at a position of the list is the one read there.
LEMMA AtPosition ==
    ASSUME Typed, Sound, Placed, NEW u \in DOMAIN docs, NEW p \in DOMAIN List
    PROVE  WalletAt(u, p) = List[p] /\ List[p] \in Wallet
<1>1. List = docs[u].wallets
  BY OneDoc
<1>2. p <= Len(List)
  BY ListTyped
<1>3. QED
  BY <1>1, <1>2 DEF WalletAt, Placed, OwnKept, Own

\* A name is set at the position of its wallet, or nowhere.
LEMMA NameSetList ==
    ASSUME Typed, Sound, Placed, NEW r \in Reqs, NameSet(r)
    PROVE  \/ SameLists
           \/ /\ Devs' = Devs /\ Writes(req[r].pos, req[r].key) /\ PointsTo(req[r].pos, req[r].key)
              /\ Sets(req[r].pos, List[req[r].pos].status, List[req[r].pos].addrs)
<1> DEFINE k == req[r].key
           p == req[r].pos
           u == FindByWallet(k, {"index", "network"})
           w == [WalletAt(u, p) EXCEPT !.by = @ \cup {k}]
<1>1. req[r] \in NamingAt /\ k \in Keys
  BY NameSetTyped, Kinds DEF NamingAt
<1>2. PointsTo(p, k)
  BY <1>1 DEF Placed, Aimed
<1>3. CASE u = 0
  BY <1>3, SameDocsLists DEF NameSet
<1>4. CASE u # 0
  <2>1. u \in DOMAIN docs /\ p \in DOMAIN List
    BY <1>2, <1>4, WalletUserFound, DocsTyped DEF PointsTo
  <2>2. WalletAt(u, p) = List[p] /\ List[p] \in Wallet
    BY <2>1, AtPosition
  <2>3. Update(u, p, w)
    BY <1>4 DEF NameSet
  <2>4. /\ w \in Wallet /\ w.key = List[p].key /\ w.by = List[p].by \cup {k}
        /\ w.status = List[p].status /\ w.addrs = List[p].addrs
    BY <1>1, <2>2 DEF Wallet
  <2>5. Writes(p, k) /\ Sets(p, w.status, w.addrs) /\ Devs' = Devs
    BY <1>1, <1>2, <2>1, <2>2, <2>3, <2>4, ListUpdated DEF PointsTo
  <2>6. QED
    BY <1>2, <2>4, <2>5
<1>5. QED
  BY <1>3, <1>4

\* An address is added at the position of its wallet, or nowhere.
LEMMA AddressPushList ==
    ASSUME Typed, Sound, Placed, NEW r \in Reqs, AddressPush(r)
    PROVE  \/ SameLists /\ answered' = answered /\ cut' = IF req[r].op = "send" THEN cut \cup {req[r].key} ELSE cut
           \/ /\ Devs' = Devs /\ Writes(req[r].pos, req[r].key) /\ PointsTo(req[r].pos, req[r].key)
              /\ Sets(req[r].pos, List[req[r].pos].status,
                      List[req[r].pos].addrs \cup {NextAddress(req[r].key)})
              /\ answered' = answered \cup {<<"address", req[r].key>>} /\ cut' = cut
<1> DEFINE k == req[r].key
           p == req[r].pos
           u == FindHolder(req[r].jwt, k)
           w == [WalletAt(u, p) EXCEPT !.addrs = @ \cup {NextAddress(k)}, !.by = @ \cup {k}]
<1>1. req[r] \in AddingAt /\ k \in Keys
  BY AddressPushTyped, Kinds DEF AddingAt
<1>2. PointsTo(p, k)
  BY <1>1 DEF Placed, Aimed
<1>3. CASE u = 0
  BY <1>3, SameDocsLists DEF AddressPush, Cut
<1>4. CASE u # 0
  <2>1. u \in DOMAIN docs /\ p \in DOMAIN List
    BY <1>2, <1>4, HolderFound, DocsTyped DEF PointsTo
  <2>2. WalletAt(u, p) = List[p] /\ List[p] \in Wallet
    BY <2>1, AtPosition
  <2>3. Update(u, p, w) /\ answered' = answered \cup {<<"address", k>>} /\ cut' = cut
    BY <1>4 DEF AddressPush, Answer
  <2>4. NextAddress(k) \in Addresses
    BY <1>1 DEF NextAddress, Addresses
  <2>5. /\ w \in Wallet /\ w.key = List[p].key /\ w.by = List[p].by \cup {k}
        /\ w.status = List[p].status /\ w.addrs = List[p].addrs \cup {NextAddress(k)}
    BY <1>1, <2>2, <2>4 DEF Wallet
  <2>6. Writes(p, k) /\ Sets(p, w.status, w.addrs) /\ Devs' = Devs
    BY <1>1, <1>2, <2>1, <2>2, <2>3, <2>5, ListUpdated DEF PointsTo
  <2>7. QED
    BY <1>2, <2>3, <2>5, <2>6
<1>5. QED
  BY <1>3, <1>4

\* A wallet is deleted at its position, or nowhere.
LEMMA MarkDeletedList ==
    ASSUME Typed, Sound, Placed, NEW r \in Reqs, MarkDeleted(r)
    PROVE  \/ SameLists /\ answered' = answered /\ hid' = hid
           \/ /\ Devs' = Devs /\ Writes(req[r].pos, req[r].key) /\ PointsTo(req[r].pos, req[r].key)
              /\ Sets(req[r].pos, "deleted", List[req[r].pos].addrs)
              /\ answered' = answered \cup {<<"deleted", req[r].key>>}
              /\ hid' = IF Unweighed(r) THEN hid \cup {req[r].key} ELSE hid
<1> DEFINE k == req[r].key
           p == req[r].pos
           u == FindByWallet(k, Triple)
           w == [WalletAt(u, p) EXCEPT !.status = "deleted", !.by = @ \cup {k}]
<1>1. req[r] \in DeletingAt /\ k \in Keys
  BY MarkDeletedTyped, Kinds DEF DeletingAt
<1>2. PointsTo(p, k)
  BY <1>1 DEF Placed, Aimed
<1>3. CASE u = 0
  BY <1>3, SameDocsLists DEF MarkDeleted, Refuse
<1>4. CASE u # 0
  <2>1. u \in DOMAIN docs /\ p \in DOMAIN List
    BY <1>2, <1>4, WalletUserFound, DocsTyped DEF PointsTo
  <2>2. WalletAt(u, p) = List[p] /\ List[p] \in Wallet
    BY <2>1, AtPosition
  <2>3. /\ Update(u, p, w) /\ answered' = answered \cup {<<"deleted", k>>}
        /\ hid' = IF Unweighed(r) THEN hid \cup {k} ELSE hid
    BY <1>4 DEF MarkDeleted, Answer
  <2>4. /\ w \in Wallet /\ w.key = List[p].key /\ w.by = List[p].by \cup {k}
        /\ w.status = "deleted" /\ w.addrs = List[p].addrs
    BY <1>1, <2>2 DEF Wallet
  <2>5. Writes(p, k) /\ Sets(p, w.status, w.addrs) /\ Devs' = Devs
    BY <1>1, <1>2, <2>1, <2>2, <2>3, <2>4, ListUpdated DEF PointsTo
  <2>6. QED
    BY <1>2, <2>3, <2>4, <2>5
<1>5. QED
  BY <1>3, <1>4

\* A wallet is marked as broken where its key is, or nowhere.
LEMMA BrokenSetList ==
    ASSUME Typed, Sound, Placed, NEW r \in Reqs, BrokenSet(r)
    PROVE  \/ SameLists
           \/ /\ Devs' = Devs
              /\ \E p \in DOMAIN List : /\ Writes(p, req[r].key) /\ PointsTo(p, req[r].key)
                                        /\ Sets(p, List[p].status, List[p].addrs)
<1> DEFINE k == req[r].key
           u == FindByAddress(<<k, 0>>)
           p == HasAddress(docs[u], <<k, 0>>)
           w == [WalletAt(u, p) EXCEPT !.by = @ \cup {k}]
<1>1. k \in Keys
  BY BrokenSetTyped, Kinds DEF Breaking
<1>2. CASE u = 0
  BY <1>2, SameDocsLists DEF BrokenSet
<1>3. CASE u # 0
  <2>1. u \in DOMAIN docs /\ p # 0
    BY <1>3, AddressUserFound, DocsTyped
  <2>2. List = docs[u].wallets /\ Len(List) \in Nat /\ DOMAIN List = 1..Len(List)
    BY <2>1, OneDoc, ListTyped
  <2>3. p \in DOMAIN List /\ <<k, 0>> \in List[p].addrs
    BY <2>1, <2>2, AddressFound
  <2>4. List[p].key = k
    BY <2>3 DEF Placed, OwnKept, Own
  <2>5. WalletAt(u, p) = List[p] /\ List[p] \in Wallet
    BY <2>1, <2>3, AtPosition
  <2>6. Update(u, p, w)
    BY <1>3 DEF BrokenSet
  <2>7. /\ w \in Wallet /\ w.key = List[p].key /\ w.by = List[p].by \cup {k}
        /\ w.status = List[p].status /\ w.addrs = List[p].addrs
    BY <1>1, <2>5 DEF Wallet
  <2>8. Writes(p, k) /\ Sets(p, w.status, w.addrs) /\ Devs' = Devs
    BY <1>1, <2>1, <2>3, <2>4, <2>5, <2>6, <2>7, ListUpdated
  <2>9. QED
    BY <2>3, <2>4, <2>7, <2>8 DEF PointsTo
<1>4. QED
  BY <1>2, <1>3

\* wallets.$ is the wallet with the address, or another imported one: then there
\* are several.
LEMMA MarkImportedList ==
    ASSUME Typed, Sound, Placed, NEW r \in Reqs, MarkImported(r)
    PROVE  \/ SameLists /\ answered' = answered
           \/ /\ Devs' = Devs /\ Imported(req[r].key)
              /\ answered' = answered \cup {<<"deleted", req[r].key>>}
              /\ \E p \in DOMAIN List : /\ Writes(p, req[r].key) /\ Imported(List[p].key)
                                        /\ PointsTo(p, req[r].key) \/ Several
                                        /\ Sets(p, "deleted", List[p].addrs)
<1> DEFINE k == req[r].key
           u == FindImported(<<k, 0>>)
           h == HasAddress(docs[u], <<k, 0>>)
           f == FirstImported(docs[u])
<1>1. k \in Keys /\ Imported(k)
  <2>1. req[r] \in Weighing /\ req[r].op = "delete" /\ req[r].at = "imported"
    BY MarkImportedTyped DEF MarkImported, At
  <2>2. QED
    BY <2>1, Kinds DEF Placed, Aimed, Weighing
<1>2. CASE u = 0
  BY <1>2, SameDocsLists DEF MarkImported, Refuse
<1>3. CASE u # 0
  <2>1. u \in DOMAIN docs /\ h # 0 /\ f # 0
    BY <1>3, ImportedUserFound, DocsTyped
  <2>2. List = docs[u].wallets /\ Len(List) \in Nat /\ DOMAIN List = 1..Len(List)
    BY <2>1, OneDoc, ListTyped
  <2>3. h \in DOMAIN List /\ <<k, 0>> \in List[h].addrs
    BY <2>1, <2>2, AddressFound
  <2>4. List[h].key = k
    BY <2>3 DEF Placed, OwnKept, Own
  <2>5. f \in DOMAIN List /\ Imported(List[f].key)
    BY <2>1, <2>2, ImportedFound
  <2>6. PICK p \in {h, f} :
           Update(u, p, [WalletAt(u, p) EXCEPT !.status = "deleted", !.by = @ \cup {k}])
    BY <1>3 DEF MarkImported
  <2>7. p \in DOMAIN List /\ Imported(List[p].key) /\ (List[p].key = k \/ Several)
    BY <1>1, <2>3, <2>4, <2>5, <2>6 DEF Several
  <2> DEFINE w == [WalletAt(u, p) EXCEPT !.status = "deleted", !.by = @ \cup {k}]
  <2>8. WalletAt(u, p) = List[p] /\ List[p] \in Wallet
    BY <2>1, <2>7, AtPosition
  <2>9. /\ w \in Wallet /\ w.key = List[p].key /\ w.by = List[p].by \cup {k}
        /\ w.status = "deleted" /\ w.addrs = List[p].addrs
    BY <1>1, <2>8 DEF Wallet
  <2>10. Writes(p, k) /\ Sets(p, w.status, w.addrs) /\ Devs' = Devs
    BY <1>1, <2>1, <2>6, <2>7, <2>8, <2>9, ListUpdated
  <2>11. answered' = answered \cup {<<"deleted", k>>}
    BY <1>3 DEF MarkImported, Answer
  <2>12. QED
    BY <1>1, <2>7, <2>9, <2>10, <2>11 DEF PointsTo
<1>4. QED
  BY <1>2, <1>3

\* A report shows the wallet that has its address.
LEMMA TouchSetList ==
    ASSUME Typed, Sound, Placed, TouchSet
    PROVE  /\ Devs' = Devs /\ Writes(touch.pos, touch.addr[1]) /\ PointsTo(touch.pos, touch.addr[1])
           /\ touch.addr \in List[touch.pos].addrs
           /\ Sets(touch.pos, "ok", List[touch.pos].addrs)
           /\ revived' = revived \cup {touch.addr[1]}
<1> DEFINE k == touch.addr[1]
           p == touch.pos
           u == FindByAddress(touch.addr)
           w == [WalletAt(u, p) EXCEPT !.status = "ok", !.by = @ \cup {k}]
<1>1. touch \in Touching /\ k \in Keys
  BY TouchSetTyped DEF Touching, Addresses
<1>2. p \in DOMAIN List /\ touch.addr \in List[p].addrs /\ List[p].key = k
  BY DEF TouchSet, Placed, Paid, OwnKept, Own
<1>3. docs # <<>>
  BY <1>2 DEF List
<1>4. u # 0
  <2>1. 1 \in DOMAIN docs /\ List = docs[1].wallets /\ 1 \in 1..Len(docs) /\ Len(docs) \in Nat
    BY <1>3 DEF Typed, List
  <2>2. Len(List) \in Nat /\ DOMAIN List = 1..Len(List)
    BY ListTyped
  <2>3. HasAddress(docs[1], touch.addr) # 0
    BY <1>2, <2>1, <2>2, AddressFound
  <2>4. QED
    BY <2>1, <2>3, AddressUserFound
<1>5. u \in DOMAIN docs
  BY <1>4, AddressUserFound, DocsTyped
<1>6. WalletAt(u, p) = List[p] /\ List[p] \in Wallet
  BY <1>2, <1>5, AtPosition
<1>7. Update(u, p, w) /\ revived' = revived \cup {k}
  BY <1>4 DEF TouchSet
<1>8. /\ w \in Wallet /\ w.key = List[p].key /\ w.by = List[p].by \cup {k}
      /\ w.status = "ok" /\ w.addrs = List[p].addrs
  BY <1>1, <1>6 DEF Wallet
<1>9. Writes(p, k) /\ Sets(p, w.status, w.addrs) /\ Devs' = Devs
  BY <1>1, <1>2, <1>5, <1>6, <1>7, <1>8, ListUpdated
<1>10. QED
  BY <1>2, <1>7, <1>8, <1>9 DEF PointsTo

\* A creation appends its wallet, or nothing.
LEMMA CreatePushList ==
    ASSUME Typed, Sound, NEW r \in Reqs, CreatePush(r)
    PROVE  \/ SameLists /\ answered' = answered
           \/ /\ Devs' = Devs
              /\ \E s \in {"ok", "deleted"} :
                   /\ List' = Append(List, NewWallet(req[r].key, s))
                   /\ answered' = IF s = "ok" THEN answered \cup {<<"wallet", req[r].key>>} ELSE answered
<1>1. CASE docs' = docs /\ answered' = answered
  BY <1>1, SameDocsLists
<1>2. ASSUME NEW u \in DOMAIN docs, NEW s \in {"ok", "deleted"},
             docs' = [docs EXCEPT ![u].wallets = Append(@, NewWallet(req[r].key, s))]
      PROVE  Devs' = Devs /\ List' = Append(List, NewWallet(req[r].key, s))
  <2>1. u = 1 /\ docs # <<>> /\ List = docs[u].wallets /\ Devs = docs[u].devices
    BY OneDoc
  <2>2. docs' # <<>> /\ docs[u] \in Doc
    BY <1>2, DocTyped, CreatePushTyped DEF Typed
  <2>3. docs'[1].devices = docs[1].devices
        /\ docs'[1].wallets = Append(docs[1].wallets, NewWallet(req[r].key, s))
    BY <1>2, <2>1, <2>2 DEF Doc
  <2>4. QED
    BY <2>1, <2>2, <2>3 DEF List, Devs
<1>3. QED
  BY <1>1, <1>2, CreatePushTyped

\* A first login starts both lists.
LEMMA LoginInsertList ==
    ASSUME Typed, Sound', NEW r \in Reqs, LoginInsert(r)
    PROVE  List = <<>> /\ List' = <<>> /\ Devs = <<>> /\ Devs' = <<NewDevice(r)>>
<1>1. docs = <<>>
  <2>1. Len(docs') = Len(docs) + 1
    BY LoginInsertTyped
  <2>2. Len(docs') <= 1
    BY DEF Sound
  <2>3. QED
    BY <2>1, <2>2 DEF Typed
<1>2. docs' # <<>> /\ docs'[1] = [devices |-> <<NewDevice(r)>>, wallets |-> <<>>]
  BY <1>1, LoginInsertTyped DEF Typed
<1>3. QED
  BY <1>1, <1>2 DEF List, Devs

\* A login refreshes the token of the entry with the old one, or none.
LEMMA LoginRefreshList ==
    ASSUME Typed, Sound, NEW r \in Reqs, LoginRefresh(r)
    PROVE  \/ SameLists /\ UNCHANGED <<token, answered, granted>>
           \/ /\ List' = List /\ Grant(r)
              /\ \E i \in DOMAIN Devs : /\ Devs[i].jwt = req[r].old
                                        /\ Devs' = [Devs EXCEPT ![i].jwt = req[r].jwt]
<1>1. CASE docs' = docs /\ UNCHANGED <<token, answered, granted>>
  BY <1>1, SameDocsLists
<1>2. ASSUME NEW u \in DOMAIN docs, NEW i \in DOMAIN docs[u].devices,
             docs[u].devices[i].jwt = req[r].old,
             docs'[u].wallets = docs[u].wallets,
             docs'[u].devices = [docs[u].devices EXCEPT ![i].jwt = req[r].jwt],
             Len(docs') = Len(docs), Grant(r)
      PROVE  /\ List' = List /\ Grant(r)
             /\ \E j \in DOMAIN Devs : /\ Devs[j].jwt = req[r].old
                                       /\ Devs' = [Devs EXCEPT ![j].jwt = req[r].jwt]
  <2>1. u = 1 /\ docs # <<>> /\ List = docs[u].wallets /\ Devs = docs[u].devices
    BY OneDoc
  <2>2. docs' # <<>>
    BY <1>2 DEF Typed
  <2>3. List' = docs'[1].wallets /\ Devs' = docs'[1].devices
    BY <2>2 DEF List, Devs
  <2>4. QED
    BY <1>2, <2>1, <2>3
<1>3. QED
  BY <1>1, <1>2, LoginRefreshTyped

\* A login of a new device appends it and leaves the wallets.
LEMMA LoginRewriteList ==
    ASSUME Typed, Sound', NEW r \in Reqs, LoginRewrite(r)
    PROVE  List' = List /\ Devs' = Append(Devs, NewDevice(r))
<1>1. /\ docs # <<>> /\ Len(docs') = Len(docs)
      /\ docs'[1].wallets = req[r].doc.wallets
      /\ docs'[1].devices = Append(req[r].doc.devices, NewDevice(r))
  BY LoginRewriteTyped
<1>2. docs' # <<>>
  BY <1>1, LoginRewriteTyped DEF Typed
<1>3. docs[1] = req[r].doc
  BY <1>1 DEF LoginRewrite, Sound, FindByID
<1>4. QED
  BY <1>1, <1>2, <1>3 DEF List, Devs

-----------------------------------------------------------------------------
(* The list of a sound account only grows, and its wallets stay their own.   *)

\* A list that stays grows, too.
LEMMA SameGrows ==
    ASSUME Typed, OwnKept, List' = List
    PROVE  Grows /\ SameStatus /\ OwnKept'
<1>1. Grows /\ SameStatus
  BY ListTyped DEF Grows, SameStatus
<1>2. Several' <=> Several
  BY DEF Several
<1>3. \A i \in DOMAIN List' : Own(List[i])'
  BY <1>2 DEF OwnKept, Own
<1>4. QED
  BY <1>1, <1>3 DEF OwnKept

\* A list that gets a wallet grows.
LEMMA AppendGrows ==
    ASSUME Typed, OwnKept, NEW k \in Keys, NEW s \in {"ok", "deleted"},
           List' = Append(List, NewWallet(k, s))
    PROVE  Grows /\ SameStatus /\ OwnKept'
<1> DEFINE n == Len(List)
<1>1. /\ n \in Nat /\ DOMAIN List = 1..n /\ Len(List') = n + 1 /\ DOMAIN List' = 1..(n + 1)
      /\ \A i \in 1..n : List'[i] = List[i]
      /\ List'[n + 1] = NewWallet(k, s)
  BY ListTyped
<1>2. Grows /\ SameStatus
  BY <1>1 DEF Grows, SameStatus
<1>3. Several => Several'
  BY <1>2, GrowsSeveral
<1>4. ASSUME NEW i \in DOMAIN List' PROVE Own(List[i])'
  <2>1. CASE i \in 1..n
    <3>1. List'[i] = List[i] /\ Own(List[i])
      BY <1>1, <2>1 DEF OwnKept
    <3>2. QED
      BY <1>3, <3>1 DEF Own
  <2>2. CASE i = n + 1
    <3>1. List'[i] = NewWallet(k, s) /\ NewWallet(k, s) \in Wallet
      BY <1>1, <2>2, NewWalletTyped
    <3>2. QED
      BY <3>1 DEF Own, NewWallet
  <2>3. QED
    BY <1>1, <2>1, <2>2
<1>5. OwnKept'
  BY <1>4 DEF OwnKept
<1>6. QED
  BY <1>2, <1>5

\* The steps that leave the documents alone.
Reads(r) ==
    \/ CheckAddWallet(r) \/ CreateRead(r) \/ EventSendRawTx(r) \/ AddressRead(r)
    \/ NameRead(r) \/ DeleteRead(r) \/ Weigh(r) \/ Locate(r)

\* Reads and arrivals leave the documents.
LEMMA ReadsSame ==
    ASSUME NEW r \in Reqs, Reads(r) \/ \E d \in Devices : Arrives(r, d)
    PROVE  docs' = docs
BY DEF Reads, CheckAddWallet, CreateRead, EventSendRawTx, AddressRead, NameRead, DeleteRead, Weigh,
       Locate, Arrives, Authenticate, AddWallet, DiscoverWallets, AddAddress, SendRaw, ChangeName,
       ConvertToBroken, DeleteRequest, Begin

\* So do the clock, payments and their lookup.
LEMMA OthersSame ==
    ASSUME UNCHANGED vars \/ TouchRead \/ Tick \/ \E a \in Addresses : Receive(a)
    PROVE  docs' = docs
BY DEF vars, TouchRead, Tick, Receive

\* A write that adds an address of its own wallet only keeps what was.
LEMMA WritesKeep ==
    ASSUME Typed, Placed, NEW p, NEW k, Writes(p, k), List[p].addrs \subseteq List'[p].addrs,
           \A a \in List'[p].addrs : a \in List[p].addrs \/ a[1] = List[p].key
    PROVE  Grows /\ OwnKept'
<1>1. \A a \in List'[p].addrs : a[1] = List[p].key
  BY DEF Placed, OwnKept, Own, Writes
<1>2. QED
  BY <1>1, WritesGrows, WritesOwn DEF Placed

\* Every step lets the list grow and leaves changes in their own.
LEMMA NextGrows ==
    ASSUME Typed, Placed, [Next]_vars, Sound'
    PROVE  Grows /\ OwnKept'
<1>1. Sound /\ OwnKept
  BY SoundBefore DEF Placed
<1>2. List' = List => Grows /\ OwnKept'
  BY <1>1, SameGrows
<1>3. SameLists => Grows /\ OwnKept'
  BY <1>2 DEF SameLists
<1>4. CASE docs' = docs
  BY <1>3, <1>4, SameDocsLists
<1>5. ASSUME NEW r \in Reqs, LoginInsert(r) \/ LoginRefresh(r) \/ LoginRewrite(r) PROVE Grows /\ OwnKept'
  BY <1>1, <1>2, <1>3, <1>5, LoginInsertList, LoginRefreshList, LoginRewriteList
<1>6. ASSUME NEW r \in Reqs, CreatePush(r) PROVE Grows /\ OwnKept'
  <2>1. req[r].key \in Keys
    BY <1>6, CreatePushTyped DEF Creation, Mixed, Discovery
  <2>2. QED
    BY <1>1, <1>3, <1>6, <2>1, CreatePushList, AppendGrows
<1>7. ASSUME NEW r \in Reqs, AddressPush(r) PROVE Grows /\ OwnKept'
  <2>1. CASE SameLists
    BY <1>3, <2>1
  <2>2. CASE ~SameLists
    <3>1. /\ Writes(req[r].pos, req[r].key) /\ PointsTo(req[r].pos, req[r].key)
          /\ Sets(req[r].pos, List[req[r].pos].status,
                  List[req[r].pos].addrs \cup {NextAddress(req[r].key)})
      BY <1>1, <1>7, <2>2, AddressPushList
    <3>2. NextAddress(req[r].key)[1] = List[req[r].pos].key
      BY <3>1 DEF PointsTo, NextAddress
    <3>3. QED
      BY <3>1, <3>2, WritesKeep DEF Sets
  <2>3. QED
    BY <2>1, <2>2
<1>8. ASSUME NEW r \in Reqs, NameSet(r) PROVE Grows /\ OwnKept'
  BY <1>1, <1>3, <1>8, NameSetList, WritesKeep DEF Sets
<1>9. ASSUME NEW r \in Reqs, BrokenSet(r) PROVE Grows /\ OwnKept'
  BY <1>1, <1>3, <1>9, BrokenSetList, WritesKeep DEF Sets
<1>10. ASSUME NEW r \in Reqs, MarkDeleted(r) PROVE Grows /\ OwnKept'
  BY <1>1, <1>3, <1>10, MarkDeletedList, WritesKeep DEF Sets
<1>11. ASSUME NEW r \in Reqs, MarkImported(r) PROVE Grows /\ OwnKept'
  BY <1>1, <1>3, <1>11, MarkImportedList, WritesKeep DEF Sets
<1>12. CASE TouchSet
  BY <1>1, <1>12, TouchSetList, WritesKeep DEF Sets
<1>13. ASSUME NEW k \in Keys, NEW i \in {0, 1}, Receive(<<k, i>>) PROVE docs' = docs
  BY <1>13, OthersSame DEF Addresses
<1>14. QED
  BY <1>4, <1>5, <1>6, <1>7, <1>8, <1>9, <1>10, <1>11, <1>12, <1>13, ReadsSame, OthersSame
     DEF Next, Goes, Reads

-----------------------------------------------------------------------------
(* Positions, and what the app was told of wallets.                          *)

\* What a request that arrives may be.
LEMMA ArrivesKinds ==
    ASSUME NEW r \in Reqs, NEW d \in Devices, Arrives(r, d)
    PROVE  \/ Authenticate(r, d)
           \/ \E op \in {"create", "mixed", "discover"}, at \in {"check", "read"}, k \in Keys :
                Begin(r, d, op, at, k)
           \/ \E op \in {"address", "send", "rename", "broken", "delete"},
                 at \in {"read", "send", "set"}, k \in Keys :
                /\ Known(k) /\ Begin(r, d, op, at, k)
                /\ op = "send" => at = "send"
                /\ op \in {"rename", "delete"} => at = "read"
                /\ op = "address" => at = "read"
BY DEF Arrives, AddWallet, DiscoverWallets, AddAddress, SendRaw, ChangeName, ConvertToBroken, DeleteRequest

\* A request that begins, with the wallet it is about.
LEMMA BeginIs ==
    ASSUME Typed, NEW r \in Reqs, NEW d \in Devices, NEW op, NEW at, NEW k, Begin(r, d, op, at, k)
    PROVE  req' = [req EXCEPT ![r] = [op |-> op, at |-> at, key |-> k, jwt |-> token[d]]]
           /\ req'[r] = [op |-> op, at |-> at, key |-> k, jwt |-> token[d]]
           /\ answered' = answered
BY DEF Begin, Typed, history

\* One request moves: to a new value.
Moves(r) == \E q : req' = [req EXCEPT ![r] = q]

\* A call of a request moves it along.
LEMMA GoesMoves ==
    ASSUME Typed, NEW r \in Reqs, Goes(r)
    PROVE  Moves(r)
<1>1. CASE LoginInsert(r) \/ LoginRefresh(r) \/ LoginRewrite(r)
  BY <1>1, LoginInsertTyped, LoginRefreshTyped, LoginRewriteTyped DEF Moves
<1>2. CASE CheckAddWallet(r) \/ CreateRead(r) \/ CreatePush(r)
  BY <1>2, CheckAddWalletTyped, CreateReadTyped, CreatePushTyped DEF Moves
<1>3. CASE EventSendRawTx(r) \/ AddressRead(r) \/ AddressPush(r)
  BY <1>3, EventSendRawTxTyped, AddressReadTyped, AddressPushTyped DEF Moves
<1>4. CASE NameRead(r) \/ NameSet(r) \/ BrokenSet(r)
  BY <1>4, NameReadTyped, NameSetTyped, BrokenSetTyped DEF Moves
<1>5. CASE DeleteRead(r) \/ Weigh(r) \/ Locate(r)
  BY <1>5, DeleteReadTyped, WeighTyped, LocateTyped DEF Moves
<1>6. CASE MarkDeleted(r) \/ MarkImported(r)
  BY <1>6, MarkDeletedTyped, MarkImportedTyped DEF Moves
<1>7. QED
  BY <1>1, <1>2, <1>3, <1>4, <1>5, <1>6 DEF Goes

\* So does its arrival.
LEMMA ArrivesMoves ==
    ASSUME Typed, NEW r \in Reqs, NEW d \in Devices, Arrives(r, d)
    PROVE  Moves(r)
<1>1. CASE Authenticate(r, d)
  BY <1>1, AuthenticateTyped DEF Moves
<1>2. ASSUME NEW op, NEW at, NEW k, Begin(r, d, op, at, k) PROVE Moves(r)
  <2> DEFINE q == [op |-> op, at |-> at, key |-> k, jwt |-> token[d]]
  <2>1. req' = [req EXCEPT ![r] = q]
    BY <1>2 DEF Begin
  <2> HIDE DEF q
  <2>2. QED
    BY <2>1 DEF Moves
<1>3. QED
  BY <1>1, <1>2, ArrivesKinds

\* No other request moves with it.
LEMMA OneRequest ==
    ASSUME Typed, NEW r \in Reqs, Goes(r) \/ \E d \in Devices : Arrives(r, d)
    PROVE  \A s \in Reqs \ {r} : req'[s] = req[s]
<1>1. PICK q : req' = [req EXCEPT ![r] = q]
  BY GoesMoves, ArrivesMoves DEF Moves
<1>2. QED
  BY <1>1 DEF Typed

\* Payments and the clock move none.
LEMMA NoRequest ==
    ASSUME UNCHANGED vars \/ TouchRead \/ TouchSet \/ Tick \/ \E a \in Addresses : Receive(a)
    PROVE  req' = req /\ answered' = answered /\ token' = token /\ granted' = granted
           /\ sent' = sent /\ cut' = cut
BY DEF vars, TouchRead, TouchSet, Tick, Receive, history

\* What a step tells the app.
LEMMA Answers ==
    ASSUME Typed, [Next]_vars
    PROVE  \/ answered' = answered
           \/ \E r \in Reqs : CreatePush(r)
           \/ \E r \in Reqs : AddressPush(r) /\ answered' = answered \cup {<<"address", req[r].key>>}
           \/ \E r \in Reqs : /\ MarkDeleted(r) \/ MarkImported(r)
                              /\ answered' = answered \cup {<<"deleted", req[r].key>>}
           \/ \E r \in Reqs : /\ LoginInsert(r) \/ LoginRefresh(r) \/ LoginRewrite(r)
                              /\ Grant(r) /\ answered' = answered \cup {<<"token", req[r].dev>>}
<1>1. ASSUME NEW r \in Reqs, Reads(r) PROVE answered' = answered
  BY <1>1 DEF Reads, CheckAddWallet, Refuse, CreateRead, EventSendRawTx, AddressRead, NameRead, DeleteRead,
     Weigh, Locate, history
<1>2. ASSUME NEW r \in Reqs, NEW d \in Devices, Arrives(r, d) PROVE answered' = answered
  BY <1>2, ArrivesKinds, BeginIs DEF Authenticate, history
<1>3. ASSUME NEW r \in Reqs, NameSet(r) \/ BrokenSet(r) PROVE answered' = answered
  BY <1>3 DEF NameSet, BrokenSet, history
<1>4. ASSUME NEW r \in Reqs, AddressPush(r)
      PROVE  answered' = answered \/ answered' = answered \cup {<<"address", req[r].key>>}
  BY <1>4 DEF AddressPush, Answer
<1>5. ASSUME NEW r \in Reqs, MarkDeleted(r) \/ MarkImported(r)
      PROVE  answered' = answered \/ answered' = answered \cup {<<"deleted", req[r].key>>}
  BY <1>5 DEF MarkDeleted, MarkImported, Answer, Refuse
<1>6. ASSUME NEW r \in Reqs, LoginInsert(r) \/ LoginRefresh(r) \/ LoginRewrite(r)
      PROVE  answered' = answered \/ (Grant(r) /\ answered' = answered \cup {<<"token", req[r].dev>>})
  BY <1>6 DEF LoginInsert, LoginRefresh, LoginRewrite, Grant, Answer, Refuse
<1>7. ASSUME NEW k \in Keys, NEW i \in {0, 1}, Receive(<<k, i>>) PROVE answered' = answered
  BY <1>7, NoRequest DEF Addresses
<1>8. CASE UNCHANGED vars \/ TouchRead \/ TouchSet \/ Tick
  BY <1>8, NoRequest
<1>9. CASE \E r \in Reqs : Goes(r)
  <2>1. PICK r \in Reqs : Goes(r)
    BY <1>9
  <2>2. \/ Reads(r) \/ CreatePush(r) \/ NameSet(r) \/ BrokenSet(r) \/ AddressPush(r)
        \/ MarkDeleted(r) \/ MarkImported(r) \/ LoginInsert(r) \/ LoginRefresh(r) \/ LoginRewrite(r)
    BY <2>1 DEF Goes, Reads
  <2>3. QED
    BY <2>2, <1>1, <1>3, <1>4, <1>5, <1>6
<1>10. QED
  BY <1>2, <1>7, <1>8, <1>9 DEF Next

\* In a list that grows a wallet stays listed, and at its position.
LEMMA GrowsListed ==
    ASSUME Grows
    PROVE  /\ \A k : Listed(k) => Listed(k)'
           /\ \A p, k : PointsTo(p, k) => PointsTo(p, k)'
BY DEF Grows, Listed, PointsTo

\* A request that does not move stays aimed at its wallet.
LEMMA AimedKept ==
    ASSUME Grows, NEW r \in Reqs, Aimed(r), req'[r] = req[r]
    PROVE  Aimed(r)'
BY GrowsListed DEF Aimed, Listed, PointsTo, Grows

\* The request that moves is about its wallet.
LEMMA IdleAimed ==
    ASSUME Typed, NEW r \in Reqs, req' = [req EXCEPT ![r] = Idle]
    PROVE  Aimed(r)'
<1>1. req'[r] = Idle
  BY DEF Typed
<1>2. QED
  BY <1>1 DEF Aimed, Idle, AddingAt, NamingAt, DeletingAt

\* A login aims at no wallet.
LEMMA LoginAimed ==
    ASSUME Typed, NEW r \in Reqs, NEW q \in Inserting \cup Refreshing \cup Rewriting,
           req' = [req EXCEPT ![r] = q]
    PROVE  Aimed(r)'
<1>1. req'[r] = q /\ q.op = "login"
  BY DEF Typed, Inserting, Refreshing, Rewriting
<1>2. QED
  BY <1>1 DEF Aimed, AddingAt, NamingAt, DeletingAt

\* Nor does a creation.
LEMMA CreatingAimed ==
    ASSUME Typed, NEW r \in Reqs, NEW q \in {Idle} \cup Creation \cup Mixed \cup Discovery,
           req' = [req EXCEPT ![r] = q]
    PROVE  Aimed(r)'
<1>1. req'[r] = q /\ q.op \in {"idle", "create", "mixed", "discover"}
  BY DEF Typed, Idle, Creation, Mixed, Discovery
<1>2. QED
  BY <1>1 DEF Aimed, AddingAt, NamingAt, DeletingAt

\* A request aims at a listed wallet when it arrives.
LEMMA ArrivesAimed ==
    ASSUME Typed, Placed, Grows, NEW r \in Reqs, NEW d \in Devices, Arrives(r, d)
    PROVE  Aimed(r)'
<1>1. CASE Authenticate(r, d)
  BY <1>1, AuthenticateTyped, LoginAimed
<1>2. ASSUME NEW op \in {"create", "mixed", "discover"}, NEW at, NEW k \in Keys, Begin(r, d, op, at, k)
      PROVE  Aimed(r)'
  <2>1. req'[r] = [op |-> op, at |-> at, key |-> k, jwt |-> token[d]]
    BY <1>2, BeginIs
  <2>2. QED
    BY <2>1 DEF Aimed, AddingAt, NamingAt, DeletingAt
<1>3. ASSUME NEW op \in {"address", "send", "rename", "broken", "delete"},
             NEW at \in {"read", "send", "set"}, NEW k \in Keys,
             Known(k), Begin(r, d, op, at, k)
      PROVE  Aimed(r)'
  <2>1. req'[r] = [op |-> op, at |-> at, key |-> k, jwt |-> token[d]]
    BY <1>3, BeginIs
  <2>2. Listed(k)
    BY <1>3 DEF Known, Placed, ToldWallets
  <2>3. Listed(k)'
    BY <2>2, GrowsListed
  <2>4. req'[r] \notin AddingAt \cup NamingAt \cup DeletingAt
    <3>1. \A q \in AddingAt : DOMAIN q = {"op", "at", "key", "jwt", "pos"}
      BY DEF AddingAt
    <3>2. \A q \in NamingAt : DOMAIN q = {"op", "at", "key", "pos"}
      BY DEF NamingAt
    <3>3. \A q \in DeletingAt : q.at = "mark"
      BY DEF DeletingAt
    <3>4. DOMAIN req'[r] = {"op", "at", "key", "jwt"} /\ req'[r].at = at
      BY <2>1
    <3>5. QED
      BY <3>1, <3>2, <3>3, <3>4
  <2>5. req'[r].key = k /\ req'[r].at = at
    BY <2>1
  <2>6. QED
    BY <2>3, <2>4, <2>5 DEF Aimed
<1>4. QED
  BY <1>1, <1>2, <1>3, ArrivesKinds

\* A request for a listed wallet, with no position yet, is aimed.
LEMMA AimedFor ==
    ASSUME Grows, NEW r \in Reqs, NEW k, Listed(k), req'[r].key = k,
           req'[r] \notin AddingAt \cup NamingAt \cup DeletingAt,
           req'[r].at = "imported" => Imported(k)
    PROVE  Aimed(r)'
<1>1. Listed(k)'
  BY GrowsListed
<1>2. QED
  BY <1>1 DEF Aimed

\* So is one with a position of that wallet.
LEMMA AimedAt ==
    ASSUME Grows, NEW r \in Reqs, NEW k, NEW p, Listed(k), PointsTo(p, k),
           req'[r].key = k, req'[r].pos = p, req'[r].at # "imported"
    PROVE  Aimed(r)'
<1>1. Listed(k)' /\ PointsTo(p, k)'
  BY GrowsListed
<1>2. QED
  BY <1>1 DEF Aimed

\* A call of a request leaves it aimed.
LEMMA GoesAimed ==
    ASSUME Typed, Placed, Sound, Grows, NEW r \in Reqs, Goes(r)
    PROVE  Aimed(r)'
<1>1. CASE LoginInsert(r) \/ LoginRefresh(r) \/ LoginRewrite(r)
  BY <1>1, LoginInsertTyped, LoginRefreshTyped, LoginRewriteTyped, IdleAimed
<1>2. CASE CheckAddWallet(r)
  BY <1>2, CheckAddWalletTyped, CreatingAimed
<1>3. CASE CreateRead(r) \/ CreatePush(r)
  BY <1>3, CreateReadTyped, CreatePushTyped, CreatingAimed
<1>4. CASE AddressPush(r) \/ NameSet(r) \/ BrokenSet(r) \/ MarkDeleted(r) \/ MarkImported(r)
  BY <1>4, AddressPushTyped, NameSetTyped, BrokenSetTyped, MarkDeletedTyped, MarkImportedTyped, IdleAimed
<1>5. CASE EventSendRawTx(r)
  <2>1. CASE End(r)
    BY <2>1, IdleAimed DEF End
  <2>2. CASE ~End(r)
    <3>1. Go(r, "read") /\ req[r] \in Adding
      BY <1>5, <2>2, EventSendRawTxTyped DEF EventSendRawTx
    <3>2. req'[r] = [req[r] EXCEPT !.at = "read"]
      BY <3>1, GoIs DEF Typed
    <3>3. req'[r].key = req[r].key /\ req'[r].at = "read" /\ req'[r].op = req[r].op
          /\ req[r].op \in {"address", "send"}
      BY <3>1, <3>2 DEF Adding
    <3>4. Listed(req[r].key)
      BY <3>3 DEF Placed, Aimed
    <3>5. req'[r] \notin AddingAt \cup NamingAt \cup DeletingAt
      BY <3>3 DEF AddingAt, NamingAt, DeletingAt
    <3>6. QED
      BY <3>3, <3>4, <3>5, AimedFor
  <2>3. QED
    BY <2>1, <2>2
<1>6. CASE AddressRead(r)
  <2>1. CASE End(r)
    BY <2>1, IdleAimed DEF End
  <2>2. CASE ~End(r)
    <3> DEFINE u == FindUser(req[r].jwt)
               k == req[r].key
               p == LastPosition(docs[u].wallets, k)
    <3>1. /\ req' = [req EXCEPT ![r] = [op |-> req[r].op, at |-> "push", key |-> k, jwt |-> req[r].jwt,
                                       pos |-> p]]
          /\ u # 0 /\ req[r] \in Adding
      BY <1>6, <2>2, AddressReadTyped DEF AddressRead, Cut, Typed
    <3>2. u \in DOMAIN docs /\ List = docs[u].wallets
      BY <3>1, UserFound, DocsTyped, OneDoc
    <3>3. Listed(k)
      BY <3>1 DEF Placed, Aimed, Adding
    <3>4. PointsTo(p, k)
      BY <3>2, <3>3, ListTyped, LastPositionOf DEF PointsTo, Listed
    <3>5. req'[r].pos = p /\ req'[r].key = k /\ req'[r].at = "push"
      BY <3>1 DEF Typed
    <3>6. QED
      BY <3>3, <3>4, <3>5, AimedAt
  <2>3. QED
    BY <2>1, <2>2
<1>7. CASE NameRead(r)
  <2>1. CASE End(r)
    BY <2>1, IdleAimed DEF End
  <2>2. CASE ~End(r)
    <3> DEFINE u == FindUser(req[r].jwt)
               k == req[r].key
               p == FirstPosition(docs[u].wallets, k)
    <3>1. /\ req' = [req EXCEPT ![r] = [op |-> "rename", at |-> "set", key |-> k, pos |-> p]]
          /\ u # 0 /\ req[r] \in Naming
      BY <1>7, <2>2, NameReadTyped DEF NameRead, Typed
    <3>2. u \in DOMAIN docs /\ List = docs[u].wallets
      BY <3>1, UserFound, DocsTyped, OneDoc
    <3>3. Listed(k)
      BY <3>1 DEF Placed, Aimed, Naming
    <3>4. PointsTo(p, k)
      BY <3>2, <3>3, ListTyped, FirstPositionOf DEF PointsTo, Listed
    <3>5. req'[r].pos = p /\ req'[r].key = k /\ req'[r].at = "set"
      BY <3>1 DEF Typed
    <3>6. QED
      BY <3>3, <3>4, <3>5, AimedAt
  <2>3. QED
    BY <2>1, <2>2
<1>8. CASE DeleteRead(r) \/ Weigh(r)
  <2>1. req[r].op = "delete" /\ req[r].key \in Keys
    BY <1>8, DeleteReadTyped, WeighTyped, Kinds DEF Deleting, Weighing
  <2>2. PICK q \in {Idle} \cup Weighing :
           /\ req' = [req EXCEPT ![r] = q]
           /\ q # Idle => q.key = req[r].key /\ (q.at = "imported" => Imported(q.key))
    <3>1. CASE DeleteRead(r)
      BY <3>1, DeleteReadTyped
    <3>2. CASE Weigh(r)
      <4>1. PICK q \in {Idle} \cup Weighing :
              /\ req' = [req EXCEPT ![r] = q]
              /\ q # Idle => q = [req[r] EXCEPT !.at = IF Imported(req[r].key) THEN "imported" ELSE "locate"]
        BY <3>2, WeighTyped
      <4>2. req[r] \in Weighing
        BY <3>2, WeighTyped
      <4>3. q # Idle => /\ q.key = req[r].key
                        /\ q.at = IF Imported(req[r].key) THEN "imported" ELSE "locate"
        BY <4>1, <4>2 DEF Weighing
      <4>4. QED
        BY <4>1, <4>3
    <3>3. QED
      BY <1>8, <3>1, <3>2
  <2>3. CASE q = Idle
    BY <2>2, <2>3, IdleAimed
  <2>4. CASE q # Idle
    <3>1. req'[r] = q /\ q.key = req[r].key /\ (q.at = "imported" => Imported(q.key)) /\ q \in Weighing
      BY <2>2, <2>4 DEF Typed
    <3>2. Listed(req[r].key)
      BY <2>1 DEF Placed, Aimed
    <3>3. q \notin AddingAt \cup NamingAt \cup DeletingAt
      BY <3>1 DEF Weighing, AddingAt, NamingAt, DeletingAt
    <3>4. QED
      BY <3>1, <3>2, <3>3, AimedFor
  <2>5. QED
    BY <2>3, <2>4
<1>9. CASE Locate(r)
  <2> DEFINE k == req[r].key
             p == FirstPosition(docs[1].wallets, k)
  <2>1. req[r] \in Weighing /\ docs # <<>>
    BY <1>9, LocateTyped
  <2>2. PICK q \in DeletingAt : req' = [req EXCEPT ![r] = q] /\ q.key = k /\ q.pos = p
    BY <1>9, LocateTyped
  <2>3. Listed(k) /\ List = docs[1].wallets
    BY <2>1 DEF Placed, Aimed, Weighing, List
  <2>4. PointsTo(p, k)
    BY <2>3, ListTyped, FirstPositionOf DEF PointsTo, Listed
  <2>5. req'[r] = q /\ q.at = "mark"
    BY <2>2 DEF Typed, DeletingAt
  <2>6. QED
    BY <2>2, <2>3, <2>4, <2>5, AimedAt
<1>10. QED
  BY <1>1, <1>2, <1>3, <1>4, <1>5, <1>6, <1>7, <1>8, <1>9 DEF Goes

\* Requests leave payments and what is owed to them.
LEMMA PaymentsKept ==
    ASSUME NEW r \in Reqs, Goes(r) \/ \E d \in Devices : Arrives(r, d)
    PROVE  /\ touch' = touch /\ reports' = reports /\ funds' = funds /\ revived' = revived
           /\ MarkDeleted(r) \/ hid' = hid
<1>1. ASSUME NEW d \in Devices, Arrives(r, d) PROVE UNCHANGED payments
  <2>1. CASE Authenticate(r, d)
    BY <2>1 DEF Authenticate
  <2>2. ASSUME NEW op, NEW at, NEW k, Begin(r, d, op, at, k) PROVE UNCHANGED payments
    BY <2>2 DEF Begin
  <2>3. QED
    BY <1>1, <2>1, <2>2, ArrivesKinds
<1>2. CASE Reads(r)
  BY <1>2 DEF Reads, CheckAddWallet, CreateRead, EventSendRawTx, AddressRead, NameRead, DeleteRead,
              Weigh, Locate, payments
<1>3. CASE LoginInsert(r) \/ LoginRefresh(r) \/ LoginRewrite(r)
  BY <1>3 DEF LoginInsert, LoginRefresh, LoginRewrite, payments
<1>4. CASE CreatePush(r) \/ AddressPush(r) \/ NameSet(r) \/ BrokenSet(r) \/ MarkImported(r)
  BY <1>4 DEF CreatePush, AddressPush, NameSet, BrokenSet, MarkImported, payments
<1>5. CASE MarkDeleted(r)
  BY <1>5 DEF MarkDeleted
<1>6. QED
  BY <1>1, <1>2, <1>3, <1>4, <1>5 DEF Goes, Reads, payments

\* A wallet an answer told of stays listed.
LEMMA ToldWalletsNext ==
    ASSUME Typed, Placed, [Next]_vars, Sound, Grows
    PROVE  ToldWallets'
<1> SUFFICES ASSUME NEW k \in Keys, <<"wallet", k>> \in answered' PROVE Listed(k)'
  BY DEF ToldWallets
<1>1. CASE <<"wallet", k>> \in answered
  BY <1>1, GrowsListed DEF Placed, ToldWallets
<1>2. CASE <<"wallet", k>> \notin answered
  <2>1. PICK r \in Reqs : CreatePush(r)
    BY <1>2, Answers
  <2>2. PICK s \in {"ok", "deleted"} :
          /\ List' = Append(List, NewWallet(req[r].key, s))
          /\ answered' = IF s = "ok" THEN answered \cup {<<"wallet", req[r].key>>} ELSE answered
    BY <1>2, <2>1, CreatePushList
  <2>3. req[r].key = k
    BY <1>2, <2>2
  <2>4. Len(List) + 1 \in DOMAIN List' /\ List'[Len(List) + 1] = NewWallet(k, s)
    BY <2>2, <2>3, ListTyped
  <2>5. QED
    BY <2>4 DEF Listed, NewWallet
<1>3. QED
  BY <1>1, <1>2

\* A payment that is looked up stays aimed while the list grows.
LEMMA PaidKept ==
    ASSUME Paid, Grows, touch' = touch
    PROVE  Paid'
BY DEF Paid, Grows

\* Every step leaves it aimed.
LEMMA PaidNext ==
    ASSUME Typed, Placed, [Next]_vars, Sound, Grows
    PROVE  Paid'
<1>1. CASE touch' = touch
  BY <1>1, PaidKept DEF Placed
<1>2. CASE TouchSet
  BY <1>2 DEF TouchSet, Paid
<1>3. CASE TouchRead
  <2>1. CASE touch' = touch
    BY <1>1, <2>1
  <2>2. CASE touch' # touch
    <3> DEFINE a == Head(reports)
               u == FindByAddress(a)
               p == LastWith(docs[u].wallets, a)
    <3>1. /\ u \in DOMAIN docs /\ touch' = [op |-> "touch", addr |-> a, pos |-> p]
          /\ p \in DOMAIN docs[u].wallets /\ a \in docs[u].wallets[p].addrs
      BY <1>3, <2>2, TouchReadTyped
    <3>2. List = docs[u].wallets
      BY <3>1, OneDoc
    <3>3. SameLists
      BY <1>3, OthersSame, SameDocsLists
    <3>4. p \in DOMAIN List' /\ a \in List'[p].addrs
      BY <3>1, <3>2, <3>3 DEF SameLists
    <3>5. touch'.pos = p /\ touch'.addr = a
      BY <3>1
    <3> HIDE DEF a, p
    <3>6. QED
      BY <3>4, <3>5 DEF Paid
  <2>3. QED
    BY <2>1, <2>2
<1>4. ASSUME NEW k \in Keys, NEW i \in {0, 1}, Receive(<<k, i>>) PROVE touch' = touch
  BY <1>4 DEF Receive
<1>5. CASE UNCHANGED vars \/ Tick
  BY <1>1, <1>5 DEF vars, Tick, payments
<1>6. QED
  BY <1>1, <1>2, <1>3, <1>4, <1>5, PaymentsKept DEF Next

\* Every step leaves requests and payments at their places.
LEMMA PlacedNext ==
    ASSUME Typed, Placed, [Next]_vars, Sound'
    PROVE  Placed'
<1>1. Sound /\ Grows /\ OwnKept'
  BY SoundBefore, NextGrows
<1>2. ToldWallets' /\ Paid'
  BY <1>1, ToldWalletsNext, PaidNext
<1>3. ASSUME NEW s \in Reqs PROVE Aimed(s)'
  <2>1. CASE req'[s] = req[s]
    BY <1>1, <2>1, AimedKept DEF Placed
  <2>2. ASSUME NEW r \in Reqs, Goes(r) \/ \E d \in Devices : Arrives(r, d) PROVE Aimed(s)'
    <3>1. CASE s = r
      BY <1>1, <2>2, <3>1, GoesAimed, ArrivesAimed
    <3>2. CASE s # r
      BY <2>1, <2>2, <3>2, OneRequest
    <3>3. QED
      BY <3>1, <3>2
  <2>3. ASSUME NEW k \in Keys, NEW i \in {0, 1}, Receive(<<k, i>>) PROVE Aimed(s)'
    BY <2>1, <2>3, NoRequest DEF Addresses
  <2>4. CASE UNCHANGED vars \/ TouchRead \/ TouchSet \/ Tick
    BY <2>1, <2>4, NoRequest
  <2>5. QED
    BY <2>2, <2>3, <2>4 DEF Next
<1>4. QED
  BY <1>1, <1>2, <1>3 DEF Placed

-----------------------------------------------------------------------------
(* The tokens of the devices.                                                *)

Logins(r) == LoginInsert(r) \/ LoginRefresh(r) \/ LoginRewrite(r)

\* What a request may be after a call.
LEMMA GoesKinds ==
    ASSUME Typed, NEW r \in Reqs, Goes(r)
    PROVE  req'[r] \in {Idle} \cup Creation \cup Mixed \cup Discovery \cup Adding \cup AddingAt
                         \cup NamingAt \cup Weighing \cup DeletingAt
<1>1. \A q : req' = [req EXCEPT ![r] = q] => req'[r] = q
  BY DEF Typed
<1>2. CASE Logins(r)
  BY <1>1, <1>2, LoginInsertTyped, LoginRefreshTyped, LoginRewriteTyped DEF Logins
<1>3. CASE CheckAddWallet(r)
  BY <1>1, <1>3, CheckAddWalletTyped
<1>4. CASE CreateRead(r) \/ CreatePush(r)
  BY <1>1, <1>4, CreateReadTyped, CreatePushTyped
<1>5. CASE EventSendRawTx(r) \/ AddressRead(r) \/ AddressPush(r)
  BY <1>1, <1>5, EventSendRawTxTyped, AddressReadTyped, AddressPushTyped
<1>6. CASE NameRead(r) \/ NameSet(r) \/ BrokenSet(r)
  BY <1>1, <1>6, NameReadTyped, NameSetTyped, BrokenSetTyped
<1>7. CASE DeleteRead(r) \/ Weigh(r)
  <2>1. CASE DeleteRead(r)
    BY <1>1, <2>1, DeleteReadTyped
  <2>2. CASE Weigh(r)
    BY <1>1, <2>2, WeighTyped
  <2>3. QED
    BY <1>7, <2>1, <2>2
<1>8. CASE Locate(r) \/ MarkDeleted(r) \/ MarkImported(r)
  <2>1. CASE Locate(r)
    BY <1>1, <2>1, LocateTyped
  <2>2. CASE MarkDeleted(r) \/ MarkImported(r)
    BY <1>1, <2>2, MarkDeletedTyped, MarkImportedTyped
  <2>3. QED
    BY <1>8, <2>1, <2>2
<1>9. QED
  BY <1>2, <1>3, <1>4, <1>5, <1>6, <1>7, <1>8 DEF Goes, Logins

\* A refresh under way was so before, or begins with a login.
LEMMA RefreshBegins ==
    ASSUME Typed, [Next]_vars, NEW s \in Reqs, req'[s] \in Refreshing
    PROVE  req'[s] = req[s] \/ \E d \in Devices : Authenticate(s, d)
<1>1. ASSUME NEW r \in Reqs, Goes(r) PROVE req'[s] = req[s]
  <2>1. CASE s = r
    <3>1. req'[s].op = "login"
      BY DEF Refreshing
    <3>2. QED
      BY <1>1, <2>1, <3>1, GoesKinds DEF Idle, Creation, Mixed, Discovery, Adding, AddingAt,
            NamingAt, Weighing, DeletingAt
  <2>2. QED
    BY <1>1, <2>1, OneRequest
<1>2. ASSUME NEW r \in Reqs, NEW d \in Devices, Arrives(r, d)
      PROVE  req'[s] = req[s] \/ Authenticate(s, d)
  <2>1. CASE s = r /\ ~Authenticate(r, d)
    <3>1. PICK op, at, k : Begin(r, d, op, at, k) /\ op # "login"
      BY <1>2, <2>1, ArrivesKinds
    <3>2. req'[r] = [op |-> op, at |-> at, key |-> k, jwt |-> token[d]]
      BY <3>1, BeginIs
    <3>3. req'[s].op = op
      BY <2>1, <3>2
    <3>4. QED
      BY <3>1, <3>3 DEF Refreshing
  <2>2. QED
    BY <1>2, <2>1, OneRequest
<1>3. ASSUME NEW k \in Keys, NEW i \in {0, 1}, Receive(<<k, i>>) PROVE req'[s] = req[s]
  BY <1>3, NoRequest DEF Addresses
<1>4. QED
  BY <1>1, <1>2, <1>3, NoRequest DEF Next

\* Only a login gives a token or changes the devices.
LEMMA DevsKept ==
    ASSUME Typed, Placed, Sound, [Next]_vars
    PROVE  \/ \E r \in Reqs : Logins(r)
           \/ /\ Devs' = Devs /\ granted' = granted /\ token' = token
              /\ \A d : <<"token", d>> \in answered' => <<"token", d>> \in answered
<1> DEFINE Kept == /\ Devs' = Devs /\ granted' = granted /\ token' = token
                   /\ \A d : <<"token", d>> \in answered' => <<"token", d>> \in answered
<1>1. ASSUME NEW r \in Reqs, Reads(r) PROVE Kept
  <2>1. SameLists
    BY <1>1, ReadsSame, SameDocsLists
  <2>2. granted' = granted /\ token' = token /\ answered' = answered
    BY <1>1 DEF Reads, CheckAddWallet, Refuse, CreateRead, EventSendRawTx, AddressRead, NameRead,
                DeleteRead, Weigh, Locate, history
  <2>3. QED
    BY <2>1, <2>2 DEF SameLists
<1>2. ASSUME NEW r \in Reqs, NEW d \in Devices, Arrives(r, d) PROVE Kept
  <2>1. SameLists
    BY <1>2, ReadsSame, SameDocsLists
  <2>2. granted' = granted /\ token' = token /\ answered' = answered
    BY <1>2, ArrivesKinds DEF Authenticate, Begin, history
  <2>3. QED
    BY <2>1, <2>2 DEF SameLists
<1>3. ASSUME NEW r \in Reqs, CreatePush(r) PROVE Kept
  <2>1. granted' = granted /\ token' = token
    BY <1>3 DEF CreatePush
  <2>2. QED
    BY <1>3, <2>1, CreatePushList DEF SameLists
<1>4. ASSUME NEW r \in Reqs, AddressPush(r) PROVE Kept
  <2>1. granted' = granted /\ token' = token
    BY <1>4 DEF AddressPush
  <2>2. \/ SameLists /\ answered' = answered
        \/ Devs' = Devs /\ answered' = answered \cup {<<"address", req[r].key>>}
    BY <1>4, AddressPushList
  <2>3. QED
    BY <2>1, <2>2 DEF SameLists
<1>5. ASSUME NEW r \in Reqs, NameSet(r) PROVE Kept
  <2>1. granted' = granted /\ token' = token /\ answered' = answered
    BY <1>5 DEF NameSet, history
  <2>2. QED
    BY <1>5, <2>1, NameSetList DEF SameLists
<1>6. ASSUME NEW r \in Reqs, BrokenSet(r) PROVE Kept
  <2>1. granted' = granted /\ token' = token /\ answered' = answered
    BY <1>6 DEF BrokenSet, history
  <2>2. QED
    BY <1>6, <2>1, BrokenSetList DEF SameLists
<1>7. ASSUME NEW r \in Reqs, MarkDeleted(r) PROVE Kept
  <2>1. granted' = granted /\ token' = token
    BY <1>7 DEF MarkDeleted
  <2>2. QED
    BY <1>7, <2>1, MarkDeletedList DEF SameLists
<1>8. ASSUME NEW r \in Reqs, MarkImported(r) PROVE Kept
  <2>1. granted' = granted /\ token' = token
    BY <1>8 DEF MarkImported
  <2>2. QED
    BY <1>8, <2>1, MarkImportedList DEF SameLists
<1>9. ASSUME UNCHANGED vars \/ TouchRead \/ Tick \/ \E a \in Addresses : Receive(a) PROVE Kept
  BY <1>9, OthersSame, SameDocsLists, NoRequest DEF SameLists
<1>10. CASE TouchSet
  BY <1>10, TouchSetList, NoRequest
<1>11. ASSUME NEW k \in Keys, NEW i \in {0, 1}, Receive(<<k, i>>) PROVE Kept
  BY <1>9, <1>11 DEF Addresses
<1>12. QED
  BY <1>1, <1>2, <1>3, <1>4, <1>5, <1>6, <1>7, <1>8, <1>9, <1>10, <1>11 DEF Next, Goes, Reads, Logins

\* A token that is granted is the one its device has.
LEMMA GrantIs ==
    ASSUME Typed, NEW r \in Reqs, req[r].dev \in Devices, Grant(r)
    PROVE  /\ granted' = granted \cup {<<req[r].dev, req[r].jwt>>}
           /\ token'[req[r].dev] = req[r].jwt
           /\ \A d \in Devices : d # req[r].dev => token'[d] = token[d]
           /\ answered' = answered \cup {<<"token", req[r].dev>>}
BY DEF Grant, Answer, Typed

\* The device a refresh is for is the one in the account with its token.
LEMMA RefreshFor ==
    ASSUME Typed, Sound, NEW s \in Reqs, NEW d \in Devices, Authenticate(s, d), req'[s] \in Refreshing
    PROVE  \E i \in DOMAIN Devs : Devs[i].id = req'[s].dev /\ Devs[i].jwt = req'[s].old
<1> DEFINE i == DeviceOf(docs[1], d)
<1>1. docs # <<>> /\ i # 0 /\ Login(s, d, "refresh", docs[1].devices[i].jwt, <<>>)
  <2>1. req'[s].at = "refresh"
    BY DEF Refreshing
  <2>2. ASSUME NEW old, NEW doc, NEW at, Login(s, d, at, old, doc) PROVE req'[s].at = at
    BY <2>2 DEF Login, Typed
  <2>3. QED
    BY <2>1, <2>2 DEF Authenticate, FindByID
<1>2. req'[s].dev = d /\ req'[s].old = docs[1].devices[i].jwt
  BY <1>1 DEF Login, Typed
<1>3. 1 \in DOMAIN docs
  BY <1>1 DEF Typed
<1>4. Devs = docs[1].devices /\ DOMAIN Devs = 1..Len(Devs) /\ Len(Devs) \in Nat
  BY <1>3, OneDoc, ListTyped
<1>5. i \in DOMAIN Devs /\ Devs[i].id = d
  BY <1>1, <1>4, DeviceFound
<1>6. QED
  BY <1>2, <1>4, <1>5

\* Tokens granted are not taken back.
LEMMA GrantedGrows ==
    ASSUME Typed, Placed, Sound, [Next]_vars
    PROVE  granted \subseteq granted'
<1>1. ASSUME NEW r \in Reqs, Logins(r) PROVE granted \subseteq granted'
  BY <1>1 DEF Logins, LoginInsert, LoginRefresh, LoginRewrite, Grant
<1>2. QED
  BY <1>1, DevsKept

\* One device has its token replaced, and with it the token it was given.
LEMMA TokenReplaced ==
    ASSUME Typed, Granted, ~SharedToken, NEW r \in Reqs, req[r] \in Refreshing, Grant(r),
           NEW i \in DOMAIN Devs, Devs[i].jwt = req[r].old,
           Devs' = [Devs EXCEPT ![i].jwt = req[r].jwt]
    PROVE  /\ \A j \in DOMAIN Devs' : <<Devs'[j].id, Devs'[j].jwt>> \in granted'
           /\ \A d \in Devices : <<"token", d>> \in answered' =>
                /\ <<d, token'[d]>> \in granted'
                /\ \E j \in DOMAIN Devs' : Devs'[j].jwt = token'[d]
<1> DEFINE e == req[r].dev
           new == req[r].jwt
<1>1. e \in Devices /\ <<e, req[r].old>> \in granted /\ <<Devs[i].id, req[r].old>> \in granted
  BY DEF Granted, Refreshing
<1>2. Devs[i].id = e
  BY <1>1 DEF SharedToken
<1>3. /\ granted' = granted \cup {<<e, new>>} /\ token'[e] = new
      /\ \A d \in Devices : d # e => token'[d] = token[d]
      /\ answered' = answered \cup {<<"token", e>>}
  BY <1>1, GrantIs
<1>4. Devs \in Seq(Device)
  BY ListTyped
<1>5. /\ DOMAIN Devs' = DOMAIN Devs /\ Devs'[i].id = e /\ Devs'[i].jwt = new
      /\ \A j \in DOMAIN Devs : j # i => Devs'[j] = Devs[j]
  <2>1. /\ DOMAIN Devs' = DOMAIN Devs /\ Devs'[i] = [Devs[i] EXCEPT !.jwt = new]
        /\ \A j \in DOMAIN Devs : j # i => Devs'[j] = Devs[j]
    BY <1>4
  <2>2. Devs[i] \in Device
    BY <1>4
  <2>3. Devs'[i].id = Devs[i].id /\ Devs'[i].jwt = new
    BY <2>1, <2>2 DEF Device
  <2>4. QED
    BY <1>2, <2>1, <2>3
<1>6. ASSUME NEW j \in DOMAIN Devs' PROVE <<Devs'[j].id, Devs'[j].jwt>> \in granted'
  <2>1. CASE j = i
    BY <1>3, <1>5, <2>1
  <2>2. CASE j # i
    BY <1>3, <1>5, <2>2 DEF Granted
  <2>3. QED
    BY <2>1, <2>2
<1>7. ASSUME NEW d \in Devices, <<"token", d>> \in answered'
      PROVE  <<d, token'[d]>> \in granted' /\ \E j \in DOMAIN Devs' : Devs'[j].jwt = token'[d]
  <2>1. CASE d = e
    BY <1>3, <1>5, <2>1
  <2>2. CASE d # e
    <3>1. <<"token", d>> \in answered /\ token'[d] = token[d]
      BY <1>3, <1>7, <2>2
    <3>2. <<d, token[d]>> \in granted
      BY <3>1 DEF Granted
    <3>3. PICK j \in DOMAIN Devs : Devs[j].jwt = token[d]
      BY <3>1 DEF Granted
    <3>4. j # i
      BY <1>1, <2>2, <3>2, <3>3 DEF SharedToken
    <3>5. QED
      BY <1>3, <1>5, <3>1, <3>2, <3>3, <3>4
  <2>3. QED
    BY <2>1, <2>2
<1>8. QED
  BY <1>6, <1>7

\* One device is added, with the token it is given.
LEMMA DeviceAdded ==
    ASSUME Typed, Granted, NEW r \in Reqs, req[r].dev \in Devices, Grant(r),
           Devs' = Append(Devs, NewDevice(r))
    PROVE  /\ \A j \in DOMAIN Devs' : <<Devs'[j].id, Devs'[j].jwt>> \in granted'
           /\ \A d \in Devices : <<"token", d>> \in answered' =>
                /\ <<d, token'[d]>> \in granted'
                /\ \E j \in DOMAIN Devs' : Devs'[j].jwt = token'[d]
<1> DEFINE e == req[r].dev
           n == Len(Devs)
<1>1. /\ granted' = granted \cup {<<e, req[r].jwt>>} /\ token'[e] = req[r].jwt
      /\ \A d \in Devices : d # e => token'[d] = token[d]
      /\ answered' = answered \cup {<<"token", e>>}
  BY GrantIs
<1>2. n \in Nat /\ DOMAIN Devs = 1..n /\ Devs \in Seq(Device)
  BY ListTyped
<1>3. /\ DOMAIN Devs' = 1..(n + 1) /\ \A j \in 1..n : Devs'[j] = Devs[j]
      /\ Devs'[n + 1].id = e /\ Devs'[n + 1].jwt = req[r].jwt
  BY <1>2 DEF NewDevice
<1>4. ASSUME NEW j \in DOMAIN Devs' PROVE <<Devs'[j].id, Devs'[j].jwt>> \in granted'
  <2>1. CASE j = n + 1
    BY <1>1, <1>3, <2>1
  <2>2. CASE j \in 1..n
    BY <1>1, <1>2, <1>3, <2>2 DEF Granted
  <2>3. QED
    BY <1>2, <1>3, <2>1, <2>2
<1>5. ASSUME NEW d \in Devices, <<"token", d>> \in answered'
      PROVE  <<d, token'[d]>> \in granted' /\ \E j \in DOMAIN Devs' : Devs'[j].jwt = token'[d]
  <2>1. CASE d = e
    <3>1. n + 1 \in DOMAIN Devs'
      BY <1>2, <1>3
    <3>2. QED
      BY <1>1, <1>3, <2>1, <3>1
  <2>2. CASE d # e
    <3>1. <<"token", d>> \in answered /\ token'[d] = token[d]
      BY <1>1, <1>5, <2>2
    <3>2. <<d, token[d]>> \in granted
      BY <3>1 DEF Granted
    <3>3. PICK j \in DOMAIN Devs : Devs[j].jwt = token[d]
      BY <3>1 DEF Granted
    <3>4. j \in DOMAIN Devs' /\ Devs'[j].jwt = token'[d]
      BY <1>2, <1>3, <3>1, <3>3
    <3>5. QED
      BY <1>1, <3>1, <3>2, <3>4
  <2>3. QED
    BY <2>1, <2>2
<1>6. QED
  BY <1>4, <1>5

\* Each granted token of a device stays in its entry, if none are shared.
LEMMA GrantedNext ==
    ASSUME Typed, Placed, [Next]_vars, Sound', Granted, ~SharedToken'
    PROVE  Granted'
<1>1. Sound
  BY SoundBefore
<1>2. granted \subseteq granted'
  BY <1>1, GrantedGrows
<1>3. ~SharedToken
  BY <1>2 DEF SharedToken
<1>4. ASSUME NEW s \in Reqs, req'[s] \in Refreshing
      PROVE  <<req'[s].dev, req'[s].old>> \in granted'
  <2>1. CASE req'[s] = req[s]
    BY <1>2, <1>4, <2>1 DEF Granted
  <2>2. CASE \E d \in Devices : Authenticate(s, d)
    BY <1>1, <1>2, <1>4, <2>2, RefreshFor DEF Granted
  <2>3. QED
    BY <1>4, <2>1, <2>2, RefreshBegins
<1> DEFINE A == /\ \A j \in DOMAIN Devs' : <<Devs'[j].id, Devs'[j].jwt>> \in granted'
                /\ \A d \in Devices : <<"token", d>> \in answered' =>
                     /\ <<d, token'[d]>> \in granted'
                     /\ \E j \in DOMAIN Devs' : Devs'[j].jwt = token'[d]
<1>5. ASSUME Devs' = Devs, granted' = granted, token' = token,
             \A d : <<"token", d>> \in answered' => <<"token", d>> \in answered
      PROVE  A
  BY <1>5 DEF Granted
<1>6. ASSUME NEW r \in Reqs, LoginInsert(r) PROVE A
  <2>1. Devs = <<>> /\ Devs' = <<NewDevice(r)>>
    BY <1>6, LoginInsertList
  <2>2. Grant(r) /\ req[r].dev \in Devices
    BY <1>6, LoginInsertTyped DEF LoginInsert, Inserting
  <2>3. Devs' = Append(Devs, NewDevice(r))
    BY <2>1
  <2>4. QED
    BY <2>2, <2>3, DeviceAdded
<1>7. ASSUME NEW r \in Reqs, LoginRefresh(r) PROVE A
  <2>1. CASE SameLists /\ UNCHANGED <<token, answered, granted>>
    BY <1>5, <2>1 DEF SameLists
  <2>2. CASE Grant(r) /\ \E i \in DOMAIN Devs : /\ Devs[i].jwt = req[r].old
                                                 /\ Devs' = [Devs EXCEPT ![i].jwt = req[r].jwt]
    BY <1>3, <1>7, <2>2, LoginRefreshTyped, TokenReplaced
  <2>3. QED
    BY <1>1, <1>7, <2>1, <2>2, LoginRefreshList
<1>8. ASSUME NEW r \in Reqs, LoginRewrite(r) PROVE A
  <2>1. Grant(r) /\ req[r].dev \in Devices
    BY <1>8, LoginRewriteTyped DEF LoginRewrite, Rewriting
  <2>2. QED
    BY <1>8, <2>1, LoginRewriteList, DeviceAdded
<1>9. A
  BY <1>1, <1>5, <1>6, <1>7, <1>8, DevsKept DEF Logins
<1>10. QED
  BY <1>4, <1>9 DEF Granted

-----------------------------------------------------------------------------
(* How a step changes the list, and the copies of a wallet.                  *)

\* How a step may change the list of wallets.
LEMMA ListSteps ==
    ASSUME Typed, Placed, Sound, Sound', [Next]_vars
    PROVE  \/ List' = List
           \/ \E r \in Reqs : CreatePush(r)
           \/ \E p, k : /\ Writes(p, k) /\ List[p].addrs \subseteq List'[p].addrs
                        /\ \/ List'[p].status = List[p].status
                           \/ \E r \in Reqs : MarkDeleted(r) \/ MarkImported(r)
                           \/ TouchSet /\ p = touch.pos /\ List'[p].status = "ok"
<1> DEFINE Kept == List' = List
           Written == \E p, k : /\ Writes(p, k) /\ List[p].addrs \subseteq List'[p].addrs
                                /\ \/ List'[p].status = List[p].status
                                   \/ \E r \in Reqs : MarkDeleted(r) \/ MarkImported(r)
                                   \/ TouchSet /\ p = touch.pos /\ List'[p].status = "ok"
<1>1. docs' = docs => Kept
  BY SameDocsLists DEF SameLists
<1>2. ASSUME NEW r \in Reqs, Logins(r) PROVE Kept
  BY <1>2, LoginInsertList, LoginRefreshList, LoginRewriteList DEF Logins, SameLists
<1>3. ASSUME NEW p, NEW k, Writes(p, k), NEW A, Sets(p, List[p].status, List[p].addrs \cup A)
      PROVE  Written
  BY <1>3 DEF Sets
<1>4. ASSUME NEW r \in Reqs, AddressPush(r) PROVE Kept \/ Written
  <2>1. SameLists => Kept
    BY DEF SameLists
  <2>2. QED
    BY <1>3, <1>4, <2>1, AddressPushList
<1>5. ASSUME NEW r \in Reqs, NameSet(r) PROVE Kept \/ Written
  BY <1>5, NameSetList DEF SameLists, Sets
<1>6. ASSUME NEW r \in Reqs, BrokenSet(r) PROVE Kept \/ Written
  BY <1>6, BrokenSetList DEF SameLists, Sets
<1>7. ASSUME NEW r \in Reqs, MarkDeleted(r) PROVE Kept \/ Written
  BY <1>7, MarkDeletedList DEF SameLists, Sets
<1>8. ASSUME NEW r \in Reqs, MarkImported(r) PROVE Kept \/ Written
  BY <1>8, MarkImportedList DEF SameLists, Sets
<1>9. ASSUME TouchSet PROVE Written
  BY <1>9, TouchSetList DEF Sets
<1>10. ASSUME NEW k \in Keys, NEW i \in {0, 1}, Receive(<<k, i>>) PROVE docs' = docs
  BY <1>10, OthersSame DEF Addresses
<1> HIDE DEF Kept, Written
<1>11. Kept \/ Written \/ \E r \in Reqs : CreatePush(r)
  BY <1>1, <1>2, <1>4, <1>5, <1>6, <1>7, <1>8, <1>9, <1>10, ReadsSame, OthersSame
     DEF Next, Goes, Reads, Logins
<1>12. QED
  BY <1>11 DEF Kept, Written

\* A creation about to push was so before, or has just read.
LEMMA PushingBegins ==
    ASSUME Typed, [Next]_vars, NEW k, NEW s \in Reqs, s \in Pushing(k)'
    PROVE  \/ s \in Pushing(k) /\ req'[s] = req[s]
           \/ CreateRead(s) /\ req[s].key = k
<1>1. Creating(s)' /\ req'[s].at = "push" /\ req'[s].key = k
  BY DEF Pushing
<1>2. req'[s].op \in {"create", "mixed", "discover"}
  BY <1>1 DEF Creating
<1>3. CASE req'[s] = req[s]
  BY <1>1, <1>2, <1>3 DEF Pushing, Creating
<1>4. ASSUME NEW r \in Reqs, Goes(r), r = s PROVE CreateRead(s) /\ req[s].key = k
  <2>1. \A q : req' = [req EXCEPT ![r] = q] => req'[s] = q
    BY <1>4 DEF Typed
  <2>2. ~CheckAddWallet(r) /\ ~CreatePush(r)
    <3>1. req'[s] # Idle /\ req'[s].at # "read"
      BY <1>1, <1>2 DEF Idle
    <3>2. QED
      BY <2>1, <3>1, CheckAddWalletTyped, CreatePushTyped
  <2>3. CreateRead(r)
    <3>1. req'[s] \notin {Idle} \cup Adding \cup AddingAt \cup NamingAt \cup Weighing \cup DeletingAt
      BY <1>2 DEF Idle, Adding, AddingAt, NamingAt, Weighing, DeletingAt
    <3>2. ~Logins(r)
      BY <2>1, <3>1, LoginInsertTyped, LoginRefreshTyped, LoginRewriteTyped DEF Logins
    <3>3. ~(EventSendRawTx(r) \/ AddressRead(r) \/ AddressPush(r))
      BY <2>1, <3>1, EventSendRawTxTyped, AddressReadTyped, AddressPushTyped
    <3>4. ~(NameRead(r) \/ NameSet(r) \/ BrokenSet(r) \/ DeleteRead(r) \/ Weigh(r))
      BY <2>1, <3>1, NameReadTyped, NameSetTyped, BrokenSetTyped, DeleteReadTyped, WeighTyped
    <3>5. ~(Locate(r) \/ MarkDeleted(r) \/ MarkImported(r))
      BY <2>1, <3>1, LocateTyped, MarkDeletedTyped, MarkImportedTyped
    <3>6. QED
      BY <1>4, <2>2, <3>2, <3>3, <3>4, <3>5 DEF Goes, Logins
  <2>4. req'[s] = [req[r] EXCEPT !.at = "push"] /\ req[r] \in Creation \cup Mixed \cup Discovery
    <3>1. req'[s] # Idle /\ req'[s].at # "read"
      BY <1>1, <1>2 DEF Idle
    <3>2. QED
      BY <2>1, <2>3, <3>1, CreateReadTyped
  <2>5. req'[s].key = req[r].key
    BY <2>4 DEF Creation, Mixed, Discovery
  <2>6. QED
    BY <1>1, <1>4, <2>3, <2>5
<1>5. ASSUME NEW r \in Reqs, NEW d \in Devices, Arrives(r, d), r = s PROVE FALSE
  <2>1. CASE Authenticate(r, d)
    <3>1. PICK q \in Inserting \cup Refreshing \cup Rewriting : req' = [req EXCEPT ![r] = q]
      BY <2>1, AuthenticateTyped
    <3>2. req'[s] = q
      BY <1>5, <3>1 DEF Typed
    <3>3. QED
      BY <1>2, <3>2 DEF Inserting, Refreshing, Rewriting
  <2>2. CASE ~Authenticate(r, d)
    <3>1. PICK op, at, y : Begin(r, d, op, at, y) /\ at # "push"
      BY <1>5, <2>2, ArrivesKinds
    <3>2. req'[r] = [op |-> op, at |-> at, key |-> y, jwt |-> token[d]]
      BY <3>1, BeginIs
    <3>3. QED
      BY <1>1, <1>5, <3>1, <3>2
  <2>3. QED
    BY <2>1, <2>2
<1>6. ASSUME NEW r \in Reqs, Goes(r) \/ \E d \in Devices : Arrives(r, d), r # s PROVE req'[s] = req[s]
  BY <1>6, OneRequest
<1>7. ASSUME NEW a \in Keys, NEW i \in {0, 1}, Receive(<<a, i>>) PROVE req'[s] = req[s]
  BY <1>7, NoRequest DEF Addresses
<1>8. QED
  BY <1>3, <1>4, <1>5, <1>6, <1>7, NoRequest DEF Next

\* The copies of a wallet can be counted.
LEMMA MatchesFinite ==
    ASSUME Typed, NEW k
    PROVE  Matches(List, k) \in SUBSET (1..Len(List)) /\ IsFiniteSet(Matches(List, k))
<1>1. Matches(List, k) \in SUBSET (1..Len(List)) /\ Len(List) \in Nat
  BY ListTyped DEF Matches
<1>2. IsFiniteSet(1..Len(List))
  BY <1>1, FS_Interval
<1>3. QED
  BY <1>1, <1>2, FS_Subset

\* So can the creations about to push one.
LEMMA PushingFinite ==
    ASSUME NEW S \in SUBSET Reqs
    PROVE  IsFiniteSet(S) /\ Cardinality(S) \in Nat /\ Cardinality(S) <= Cardinality(Reqs)
             /\ Cardinality(Reqs) \in Nat
BY WalletsAssumption, FS_Subset, FS_CardinalityType

\* No other step takes a copy for a wallet.
LEMMA CopiesKept ==
    ASSUME Typed, Copies, NEW k \in Keys, ~Imported(k),
           Matches(List', k) = Matches(List, k), Pushing(k)' \subseteq Pushing(k)
    PROVE  Cardinality(Matches(List', k)) + Cardinality(Pushing(k)') <= Cardinality(Reqs)
<1>1. Cardinality(Matches(List, k)) + Cardinality(Pushing(k)) <= Cardinality(Reqs)
  BY DEF Copies
<1>2. Pushing(k) \in SUBSET Reqs
  BY DEF Pushing
<1>3. Cardinality(Pushing(k)') <= Cardinality(Pushing(k)) /\ Cardinality(Pushing(k)') \in Nat
  BY <1>2, PushingFinite, FS_Subset, FS_CardinalityType
<1>4. Cardinality(Matches(List, k)) \in Nat
  BY MatchesFinite, FS_CardinalityType
<1>5. QED
  BY <1>1, <1>2, <1>3, <1>4, PushingFinite

\* A creation that pushes turns into a copy.
LEMMA CopyMade ==
    ASSUME Typed, Copies, NEW k \in Keys, ~Imported(k), NEW r \in Pushing(k), r \notin Pushing(k)',
           Pushing(k)' \subseteq Pushing(k),
           Matches(List', k) = Matches(List, k) \cup {Len(List) + 1}
    PROVE  Cardinality(Matches(List', k)) + Cardinality(Pushing(k)') <= Cardinality(Reqs)
<1>1. Cardinality(Matches(List, k)) + Cardinality(Pushing(k)) <= Cardinality(Reqs)
  BY DEF Copies
<1>2. Pushing(k) \in SUBSET Reqs /\ IsFiniteSet(Pushing(k))
  BY PushingFinite DEF Pushing
<1>3. /\ Cardinality(Pushing(k) \ {r}) = Cardinality(Pushing(k)) - 1
      /\ IsFiniteSet(Pushing(k) \ {r}) /\ Pushing(k)' \subseteq Pushing(k) \ {r}
  BY <1>2, FS_RemoveElement
<1>4. Cardinality(Pushing(k)') <= Cardinality(Pushing(k)) - 1
  BY <1>3, FS_Subset
<1>5. Len(List) + 1 \notin Matches(List, k) /\ IsFiniteSet(Matches(List, k))
  BY MatchesFinite, ListTyped
<1>6. Cardinality(Matches(List', k)) = Cardinality(Matches(List, k)) + 1
  BY <1>5, FS_AddElement
<1>7. Cardinality(Pushing(k)') \in Nat /\ Cardinality(Pushing(k)) \in Nat
  BY <1>2, PushingFinite, FS_Subset, FS_CardinalityType
<1>8. Cardinality(Matches(List, k)) \in Nat /\ Cardinality(Reqs) \in Nat
  BY <1>5, PushingFinite, FS_CardinalityType
<1>9. QED
  BY <1>1, <1>4, <1>6, <1>7, <1>8

\* Every step keeps copies and creations under the bound.
LEMMA CopiesNext ==
    ASSUME Typed, Placed, Copies, [Next]_vars, Sound'
    PROVE  Copies'
<1>1. Sound
  BY SoundBefore
<1> SUFFICES ASSUME NEW k \in Keys, ~Imported(k)
             PROVE  Cardinality(Matches(List', k)) + Cardinality(Pushing(k)') <= Cardinality(Reqs)
  BY DEF Copies, Matches
<1>2. Pushing(k)' \in SUBSET Reqs
  BY DEF Pushing
<1>3. CASE \E s \in Pushing(k)' : ~(s \in Pushing(k) /\ req'[s] = req[s])
  <2>1. PICK s \in Reqs : s \in Pushing(k)' /\ CreateRead(s) /\ req[s].key = k
    BY <1>3, PushingBegins DEF Pushing
  <2>2. SameLists
    BY <2>1, ReadsSame, SameDocsLists DEF Reads
  <2> DEFINE u == FindUser(req[s].jwt)
  <2>3. u # 0 /\ ~(req[s].op # "mixed" /\ Matches(docs[u].wallets, k) # {})
    <3>1. req'[s].at = "push" /\ req'[s].op \in {"create", "mixed", "discover"}
      BY <2>1 DEF Pushing, Creating
    <3>2. req'[s] # Idle /\ req'[s].at # "read"
      BY <3>1 DEF Idle
    <3>3. ~End(s)
      BY <3>2 DEF End, Typed
    <3>4. ~NextWallet(s)
      <4>1. Creating(s)
        BY <2>1 DEF CreateRead
      <4>2. \A q : req' = [req EXCEPT ![s] = q] => req'[s] = q
        BY DEF Typed
      <4>3. QED
        BY <3>2, <4>1, <4>2, NextWalletIs
    <3>5. QED
      BY <2>1, <3>3, <3>4 DEF CreateRead
  <2>4. req[s].op # "mixed"
    <3>1. req[s].op = "mixed" => req[s] \in Mixed
      BY Kinds DEF Typed
    <3>2. QED
      BY <2>1, <3>1 DEF Mixed
  <2>5. List = docs[u].wallets
    BY <1>1, <2>3, UserFound, DocsTyped, OneDoc
  <2>6. Matches(List', k) = {}
    BY <2>2, <2>3, <2>4, <2>5 DEF SameLists
  <2>7. Cardinality(Matches(List', k)) = 0
    BY <2>6, FS_EmptySet
  <2>8. QED
    BY <1>2, <2>7, PushingFinite
<1>4. CASE \A s \in Pushing(k)' : s \in Pushing(k) /\ req'[s] = req[s]
  <2>1. Pushing(k)' \subseteq Pushing(k)
    BY <1>4
  <2>2. List' = List => Matches(List', k) = Matches(List, k)
    OBVIOUS
  <2>3. ASSUME NEW r \in Reqs, CreatePush(r)
        PROVE  Cardinality(Matches(List', k)) + Cardinality(Pushing(k)') <= Cardinality(Reqs)
    <3>1. CASE SameLists
      BY <2>1, <2>2, <3>1, CopiesKept DEF SameLists
    <3>2. CASE ~SameLists
      <4>1. PICK t \in {"ok", "deleted"} : List' = Append(List, NewWallet(req[r].key, t))
        BY <1>1, <2>3, <3>2, CreatePushList
      <4>2. /\ Len(List) \in Nat /\ DOMAIN List = 1..Len(List) /\ DOMAIN List' = 1..(Len(List) + 1)
            /\ \A i \in 1..Len(List) : List'[i] = List[i]
            /\ List'[Len(List) + 1].key = req[r].key
        BY <4>1, ListTyped DEF NewWallet
      <4>3. CASE req[r].key = k
        <5>1. r \in Pushing(k)
          BY <2>3, <4>3 DEF CreatePush, Pushing
        <5>2. req'[r] # req[r]
          <6>1. PICK q \in {Idle} \cup Discovery : req' = [req EXCEPT ![r] = q] /\ (q = Idle \/ q.at = "read")
            BY <2>3, CreatePushTyped
          <6>2. req'[r] = q /\ req[r].at = "push" /\ req[r].op # "idle"
            BY <2>3, <6>1 DEF Typed, CreatePush, Creating
          <6>3. QED
            BY <6>1, <6>2 DEF Idle
        <5>3. r \notin Pushing(k)'
          BY <1>4, <5>2
        <5>4. Matches(List', k) = Matches(List, k) \cup {Len(List) + 1}
          BY <4>2, <4>3 DEF Matches
        <5>5. QED
          BY <2>1, <5>1, <5>3, <5>4, CopyMade
      <4>4. CASE req[r].key # k
        <5>1. Matches(List', k) = Matches(List, k)
          BY <4>2, <4>4 DEF Matches
        <5>2. QED
          BY <2>1, <5>1, CopiesKept
      <4>5. QED
        BY <4>3, <4>4
    <3>3. QED
      BY <3>1, <3>2
  <2>4. ASSUME NEW p, NEW x, Writes(p, x) PROVE Matches(List', k) = Matches(List, k)
    BY <2>4 DEF Writes, Matches
  <2>5. QED
    BY <1>1, <2>1, <2>2, <2>3, <2>4, CopiesKept, ListSteps
<1>5. QED
  BY <1>3, <1>4

-----------------------------------------------------------------------------
(* Addresses, deletions and the change of payments.                          *)

\* An address in a list that grows stays there.
LEMMA AddressStays ==
    ASSUME Grows, NEW k, AddressKept(k)
    PROVE  AddressKept(k)'
<1>1. PICK i \in DOMAIN List : List[i].key = k /\ NextAddress(k) \in List[i].addrs
  BY DEF AddressKept
<1>2. i \in DOMAIN List' /\ List'[i].key = k /\ NextAddress(k) \in List'[i].addrs
  BY <1>1 DEF Grows
<1>3. QED
  BY <1>2 DEF AddressKept, NextAddress

\* Adding an address keeps it, or is cut off.
LEMMA AddressPushed ==
    ASSUME Typed, Sound, Placed, NEW r \in Reqs, AddressPush(r), NEW k, k = req[r].key
    PROVE  \/ AddressKept(k)'
           \/ answered' = answered /\ cut' = IF req[r].op = "send" THEN cut \cup {k} ELSE cut
<1> DEFINE p == req[r].pos
<1>1. CASE answered' = answered /\ cut' = IF req[r].op = "send" THEN cut \cup {k} ELSE cut
  BY <1>1
<1>2. CASE /\ Writes(p, k) /\ PointsTo(p, k)
           /\ Sets(p, List[p].status, List[p].addrs \cup {NextAddress(k)})
  <2>1. p \in DOMAIN List' /\ List'[p].key = k /\ NextAddress(k) \in List'[p].addrs
    BY <1>2 DEF Writes, PointsTo, Sets
  <2>2. QED
    BY <2>1 DEF AddressKept, NextAddress
<1>3. QED
  BY <1>1, <1>2, AddressPushList

\* An address an answer told of stays.
LEMMA ToldAddressesNext ==
    ASSUME Typed, Placed, ToldAddresses, [Next]_vars, Sound'
    PROVE  ToldAddresses'
<1>1. Sound /\ Grows
  BY SoundBefore, NextGrows
<1> SUFFICES ASSUME NEW k \in Keys, <<"address", k>> \in answered' PROVE AddressKept(k)'
  BY DEF ToldAddresses
<1>2. CASE <<"address", k>> \in answered
  BY <1>1, <1>2, AddressStays DEF ToldAddresses
<1>3. CASE <<"address", k>> \notin answered
  <2>1. ASSUME NEW r \in Reqs, CreatePush(r) PROVE FALSE
    BY <1>1, <1>3, <2>1, CreatePushList
  <2>2. PICK r \in Reqs : AddressPush(r) /\ answered' = answered \cup {<<"address", req[r].key>>}
    BY <1>3, <2>1, Answers
  <2>3. k = req[r].key /\ answered' # answered
    BY <1>3, <2>2
  <2>4. QED
    BY <1>1, <2>2, <2>3, AddressPushed
<1>4. QED
  BY <1>2, <1>3

\* Only a report shows a deleted wallet again.
LEMMA DeletedStays ==
    ASSUME Typed, Placed, Sound, Sound', Grows, [Next]_vars, NEW k, Deleted(k)
    PROVE  Deleted(k)' \/ k \in revived'
<1>1. PICK i \in DOMAIN List : List[i].key = k /\ List[i].status = "deleted"
  BY DEF Deleted
<1>2. i \in DOMAIN List' /\ List'[i].key = k
  BY <1>1 DEF Grows
<1>3. List'[i].status = "deleted" => Deleted(k)'
  BY <1>2 DEF Deleted
<1>4. List' = List => Deleted(k)'
  BY <1>1, <1>3
<1>5. ASSUME NEW r \in Reqs, CreatePush(r) PROVE List'[i].status = "deleted"
  <2>1. CASE SameLists
    BY <1>1, <2>1 DEF SameLists
  <2>2. CASE \E s : List' = Append(List, NewWallet(req[r].key, s))
    BY <1>1, <2>2, ListTyped
  <2>3. QED
    BY <1>5, <2>1, <2>2, CreatePushList
<1>6. ASSUME NEW r \in Reqs, MarkDeleted(r) PROVE List'[i].status = "deleted"
  BY <1>1, <1>6, MarkDeletedList DEF SameLists, Writes, Sets
<1>7. ASSUME NEW r \in Reqs, MarkImported(r) PROVE List'[i].status = "deleted"
  BY <1>1, <1>7, MarkImportedList DEF SameLists, Writes, Sets
<1>8. CASE TouchSet
  BY <1>1, <1>3, <1>8, TouchSetList DEF Writes, PointsTo
<1>9. ASSUME NEW p, NEW x, Writes(p, x), List'[p].status = List[p].status
      PROVE  List'[i].status = "deleted"
  BY <1>1, <1>9 DEF Writes
<1>10. QED
  BY <1>3, <1>4, <1>5, <1>6, <1>7, <1>8, <1>9, ListSteps

\* A wallet that was shown again counts as that ever after.
LEMMA RevivedGrows ==
    ASSUME [Next]_vars
    PROVE  revived \subseteq revived'
<1>1. ASSUME NEW k \in Keys, NEW i \in {0, 1}, Receive(<<k, i>>) PROVE revived' = revived
  BY <1>1 DEF Receive
<1>2. CASE TouchRead \/ TouchSet
  BY <1>2 DEF TouchRead, TouchSet
<1>3. CASE UNCHANGED vars \/ Tick
  BY <1>3 DEF vars, Tick, payments
<1>4. QED
  BY <1>1, <1>2, <1>3, PaymentsKept DEF Next

\* A wallet an answer told to be deleted stays so, unless shown again.
LEMMA ToldDeletionsNext ==
    ASSUME Typed, Placed, ToldDeletions, [Next]_vars, Sound'
    PROVE  ToldDeletions'
<1>1. Sound /\ Grows /\ revived \subseteq revived'
  BY SoundBefore, NextGrows, RevivedGrows
<1>2. Several => Several'
  BY <1>1, GrowsSeveral
<1> SUFFICES ASSUME NEW k \in Keys, <<"deleted", k>> \in answered'
             PROVE  Deleted(k)' \/ k \in revived' \/ (Imported(k) /\ Several')
  BY DEF ToldDeletions, Imported
<1>3. CASE <<"deleted", k>> \in answered
  BY <1>1, <1>2, <1>3, DeletedStays DEF ToldDeletions
<1>4. CASE <<"deleted", k>> \notin answered
  <2>1. ASSUME NEW r \in Reqs, CreatePush(r) PROVE FALSE
    BY <1>1, <1>4, <2>1, CreatePushList
  <2>2. PICK r \in Reqs : /\ MarkDeleted(r) \/ MarkImported(r)
                          /\ answered' = answered \cup {<<"deleted", req[r].key>>}
    BY <1>4, <2>1, Answers
  <2>3. k = req[r].key /\ answered' # answered
    BY <1>4, <2>2
  <2>4. ASSUME NEW p, Writes(p, k), PointsTo(p, k), List'[p].status = "deleted" PROVE Deleted(k)'
    <3>1. p \in DOMAIN List' /\ List'[p].key = k
      BY <2>4 DEF Writes, PointsTo
    <3>2. QED
      BY <2>4, <3>1 DEF Deleted
  <2>5. CASE MarkDeleted(r)
    BY <1>1, <2>3, <2>4, <2>5, MarkDeletedList DEF Sets
  <2>6. CASE MarkImported(r)
    BY <1>1, <1>2, <2>3, <2>4, <2>6, MarkImportedList DEF Sets
  <2>7. QED
    BY <2>2, <2>5, <2>6
<1>5. QED
  BY <1>3, <1>4

\* A payment is sent by one step, and its request then adds the address or ends.
LEMMA SentBy ==
    ASSUME [Next]_vars
    PROVE  \/ sent' = sent /\ cut \subseteq cut'
           \/ \E r \in Reqs : EventSendRawTx(r)
<1>1. ASSUME NEW r \in Reqs, NEW d \in Devices, Arrives(r, d) PROVE sent' = sent /\ cut' = cut
  BY <1>1, ArrivesKinds DEF Authenticate, Begin, history
<1>2. ASSUME NEW r \in Reqs, Logins(r) PROVE sent' = sent /\ cut' = cut
  BY <1>2 DEF Logins, LoginInsert, LoginRefresh, LoginRewrite
<1>3. ASSUME NEW r \in Reqs, CheckAddWallet(r) \/ CreateRead(r) \/ CreatePush(r)
      PROVE  sent' = sent /\ cut' = cut
  BY <1>3 DEF CheckAddWallet, CreateRead, CreatePush, history
<1>4. ASSUME NEW r \in Reqs, AddressRead(r) \/ AddressPush(r) PROVE sent' = sent /\ cut \subseteq cut'
  BY <1>4 DEF AddressRead, AddressPush, Cut
<1>5. ASSUME NEW r \in Reqs, NameRead(r) \/ NameSet(r) \/ BrokenSet(r) \/ DeleteRead(r) \/ Weigh(r) \/ Locate(r)
      PROVE  sent' = sent /\ cut' = cut
  BY <1>5 DEF NameRead, NameSet, BrokenSet, DeleteRead, Weigh, Locate, history
<1>6. ASSUME NEW r \in Reqs, MarkDeleted(r) \/ MarkImported(r) PROVE sent' = sent /\ cut' = cut
  BY <1>6 DEF MarkDeleted, MarkImported
<1>7. ASSUME NEW a \in Keys, NEW i \in {0, 1}, Receive(<<a, i>>) PROVE sent' = sent /\ cut' = cut
  BY <1>7, NoRequest DEF Addresses
<1>8. QED
  BY <1>1, <1>2, <1>3, <1>4, <1>5, <1>6, <1>7, NoRequest DEF Next, Goes, Logins

\* What a request that has sent its transaction may do next.
LEMMA SendGoes ==
    ASSUME Typed, NEW r \in Reqs, Goes(r), req[r].op = "send", req[r].at # "send"
    PROVE  AddressRead(r) \/ AddressPush(r)
BY DEF Goes, LoginInsert, LoginRefresh, LoginRewrite, CheckAddWallet, CreateRead, CreatePush, Creating,
       EventSendRawTx, NameRead, NameSet, BrokenSet, DeleteRead, Weigh, Locate, MarkDeleted,
       MarkImported, At

\* The address owed to it is still to be added, there already, or cut off.
LEMMA AddressReadOwed ==
    ASSUME Typed, Sound, NEW r \in Reqs, AddressRead(r), req[r].op = "send", NEW k, req[r].key = k
    PROVE  Owed(k)' \/ AddressKept(k) \/ k \in cut'
<1> DEFINE u == FindUser(req[r].jwt)
           p == LastPosition(docs[u].wallets, k)
<1>1. CASE u # 0 /\ \E i \in Matches(docs[u].wallets, k) : NextAddress(k) \in docs[u].wallets[i].addrs
  <2>1. List = docs[u].wallets
    BY <1>1, UserFound, DocsTyped, OneDoc
  <2>2. QED
    BY <1>1, <2>1 DEF AddressKept, Matches
<1>2. CASE Cut(r)
  BY <1>2 DEF Cut
<1>3. CASE req' = [req EXCEPT ![r] = [op |-> req[r].op, at |-> "push", key |-> k, jwt |-> req[r].jwt, pos |-> p]]
  <2>1. req'[r].op = "send" /\ req'[r].at = "push" /\ req'[r].key = k
    BY <1>3 DEF Typed
  <2>2. QED
    BY <2>1 DEF Owed
<1>4. QED
  BY <1>1, <1>2, <1>3 DEF AddressRead, Typed

\* An address that is owed stays so until it is there, or cut off.
LEMMA OwedNext ==
    ASSUME Typed, Placed, Sound, [Next]_vars, NEW k, Owed(k)
    PROVE  Owed(k)' \/ AddressKept(k) \/ AddressKept(k)' \/ k \in cut'
<1>1. PICK s \in Reqs : req[s].op = "send" /\ req[s].at # "send" /\ req[s].key = k
  BY DEF Owed
<1>2. CASE req'[s] = req[s]
  BY <1>1, <1>2 DEF Owed
<1>3. CASE Goes(s)
  <2>1. CASE AddressRead(s)
    BY <1>1, <2>1, AddressReadOwed
  <2>2. CASE AddressPush(s)
    <3>1. CASE AddressKept(k)'
      BY <3>1
    <3>2. CASE cut' = cut \cup {k}
      BY <3>2
    <3>3. QED
      BY <1>1, <2>2, <3>1, <3>2, AddressPushed
  <2>3. QED
    BY <1>1, <1>3, <2>1, <2>2, SendGoes
<1>4. ASSUME NEW d \in Devices, Arrives(s, d) PROVE FALSE
  <2>1. req[s] = Idle
    BY <1>4, ArrivesKinds DEF Authenticate, Begin
  <2>2. QED
    BY <1>1, <2>1 DEF Idle
<1>5. ASSUME NEW r \in Reqs, Goes(r) \/ \E d \in Devices : Arrives(r, d), r # s PROVE req'[s] = req[s]
  BY <1>5, OneRequest
<1>6. ASSUME NEW a \in Keys, NEW i \in {0, 1}, Receive(<<a, i>>) PROVE req'[s] = req[s]
  BY <1>6, NoRequest DEF Addresses
<1>7. QED
  BY <1>2, <1>3, <1>4, <1>5, <1>6, NoRequest DEF Next

\* Every step keeps what became of the changes.
LEMMA ChangeNext ==
    ASSUME Typed, Placed, Change, [Next]_vars, Sound'
    PROVE  Change'
<1>1. Sound /\ Grows
  BY SoundBefore, NextGrows
<1>2. cut \subseteq cut'
  BY SentBy DEF EventSendRawTx
<1> SUFFICES ASSUME NEW k, k \in sent' PROVE AddressKept(k)' \/ Owed(k)' \/ k \in cut'
  BY DEF Change, AddressKept, Owed, NextAddress
<1>3. CASE k \in sent
  BY <1>1, <1>2, <1>3, OwedNext, AddressStays DEF Change
<1>4. CASE k \notin sent
  <2>1. PICK r \in Reqs : EventSendRawTx(r)
    BY <1>4, SentBy
  <2>2. Go(r, "read") /\ k = req[r].key
    BY <1>4, <2>1 DEF EventSendRawTx
  <2>3. req'[r] = [req[r] EXCEPT !.at = "read"] /\ req[r] \in Adding
    BY <2>1, <2>2, GoIs, EventSendRawTxTyped DEF Typed
  <2>4. req'[r].op = "send" /\ req'[r].at = "read" /\ req'[r].key = k
    BY <2>1, <2>2, <2>3 DEF Adding, EventSendRawTx, At
  <2>5. QED
    BY <2>4 DEF Owed
<1>5. QED
  BY <1>3, <1>4

-----------------------------------------------------------------------------
(* The balances.                                                             *)

Held(a) == \E i \in DOMAIN List : a \in List[i].addrs

\* An address held by the list stays so while it grows.
LEMMA HeldStays ==
    ASSUME Grows, NEW a, Held(a)
    PROVE  Held(a)'
BY DEF Held, Grows

\* The address lookup finds those the list holds, and no others.
LEMMA HeldFound ==
    ASSUME Typed, Sound, NEW a
    PROVE  Held(a) <=> \E u \in DOMAIN docs : HasAddress(docs[u], a) # 0
<1>1. ASSUME Held(a) PROVE \E u \in DOMAIN docs : HasAddress(docs[u], a) # 0
  <2>1. PICK i \in DOMAIN List : a \in List[i].addrs
    BY <1>1 DEF Held
  <2>2. docs # <<>> /\ 1 \in DOMAIN docs /\ List = docs[1].wallets
    BY <2>1 DEF List, Typed
  <2>3. Len(List) \in Nat /\ DOMAIN List = 1..Len(List)
    BY ListTyped
  <2>4. HasAddress(docs[1], a) # 0
    BY <2>1, <2>2, <2>3, AddressFound
  <2>5. QED
    BY <2>2, <2>4
<1>2. ASSUME NEW u \in DOMAIN docs, HasAddress(docs[u], a) # 0 PROVE Held(a)
  <2>1. List = docs[u].wallets /\ Len(List) \in Nat /\ DOMAIN List = 1..Len(List)
    BY OneDoc, ListTyped
  <2>2. HasAddress(docs[u], a) \in DOMAIN List /\ a \in List[HasAddress(docs[u], a)].addrs
    BY <1>2, <2>1, AddressFound
  <2>3. QED
    BY <2>2 DEF Held
<1>3. QED
  BY <1>1, <1>2

\* What is in a queue of reports when one is added or taken.
LEMMA InReports ==
    ASSUME NEW s \in Seq(Addresses), NEW a \in Addresses
    PROVE  /\ ToSet(Append(s, a)) = ToSet(s) \cup {a}
           /\ s # <<>> => /\ Head(s) \in ToSet(s)
                          /\ ToSet(Tail(s)) \subseteq ToSet(s)
                          /\ ToSet(s) \subseteq ToSet(Tail(s)) \cup {Head(s)}
<1>1. ToSet(Append(s, a)) = ToSet(s) \cup {a}
  <2>1. /\ DOMAIN s = 1..Len(s) /\ Len(s) \in Nat /\ DOMAIN Append(s, a) = 1..(Len(s) + 1)
        /\ \A i \in 1..Len(s) : Append(s, a)[i] = s[i]
        /\ Append(s, a)[Len(s) + 1] = a
    OBVIOUS
  <2> DEFINE t == Append(s, a)
  <2> HIDE DEF t
  <2>2. QED
    BY <2>1 DEF ToSet, t
<1>2. ASSUME s # <<>>
      PROVE  /\ Head(s) \in ToSet(s) /\ ToSet(Tail(s)) \subseteq ToSet(s)
             /\ ToSet(s) \subseteq ToSet(Tail(s)) \cup {Head(s)}
  <2>1. /\ DOMAIN s = 1..Len(s) /\ Len(s) \in Nat /\ Len(s) >= 1 /\ Head(s) = s[1]
        /\ DOMAIN Tail(s) = 1..(Len(s) - 1)
        /\ \A i \in 1..(Len(s) - 1) : Tail(s)[i] = s[i + 1]
    BY <1>2
  <2> DEFINE t == Tail(s)
             h == Head(s)
  <2>2. DOMAIN t = 1..(Len(s) - 1) /\ \A i \in 1..(Len(s) - 1) : t[i] = s[i + 1]
    BY <2>1
  <2>3. \A i \in DOMAIN s : i = 1 \/ (i - 1 \in DOMAIN t /\ t[i - 1] = s[i])
    BY <2>1, <2>2
  <2>4. \A i \in DOMAIN t : i + 1 \in DOMAIN s /\ t[i] = s[i + 1]
    BY <2>1, <2>2
  <2>5. h = s[1] /\ 1 \in DOMAIN s
    BY <2>1
  <2> HIDE DEF t, h
  <2>6. h \in ToSet(s) /\ ToSet(t) \subseteq ToSet(s) /\ ToSet(s) \subseteq ToSet(t) \cup {h}
    BY <2>3, <2>4, <2>5 DEF ToSet
  <2>7. QED
    BY <2>6 DEF t, h
<1>3. QED
  BY <1>1, <1>2

\* A payment is a balance and a report of a held address.
LEMMA ReceiveIs ==
    ASSUME Typed, Sound, NEW a \in Addresses, Receive(a)
    PROVE  /\ funds' = funds \cup {a} /\ ToSet(reports') = ToSet(reports) \cup {a}
           /\ touch' = touch /\ hid' = hid /\ Held(a) /\ SameLists
<1>1. ToSet(reports') = ToSet(reports) \cup {a}
  BY InReports DEF Receive, Typed
<1>2. Held(a)
  BY HeldFound DEF Receive
<1>3. QED
  BY <1>1, <1>2, SameDocsLists DEF Receive

\* What steps do to the balances and their reports.
LEMMA PaymentSteps ==
    ASSUME Typed, Sound, [Next]_vars
    PROVE  \/ funds' = funds /\ reports' = reports /\ touch' = touch
           \/ TouchSet /\ funds' = funds /\ reports' = reports
           \/ TouchRead /\ funds' = funds
           \/ \E a \in Addresses : Receive(a)
<1>1. CASE UNCHANGED vars \/ Tick
  BY <1>1 DEF vars, Tick, payments
<1>2. CASE TouchSet \/ TouchRead
  BY <1>2 DEF TouchSet, TouchRead
<1>3. ASSUME NEW k \in Keys, NEW i \in {0, 1}, Receive(<<k, i>>) PROVE \E a \in Addresses : Receive(a)
  BY <1>3 DEF Addresses
<1>4. QED
  BY <1>1, <1>2, <1>3, PaymentsKept DEF Next

\* Reports are of addresses with a balance.
LEMMA ReportsNext ==
    ASSUME Typed, Sound, ToSet(reports) \subseteq funds, [Next]_vars
    PROVE  ToSet(reports') \subseteq funds' /\ funds \subseteq funds'
<1>1. CASE TouchRead
  <2>1. reports # <<>> /\ reports' = Tail(reports) /\ reports \in Seq(Addresses) /\ Head(reports) \in Addresses
    BY <1>1, TouchReadTyped DEF TouchRead, Typed
  <2>2. ToSet(Tail(reports)) \subseteq ToSet(reports)
    BY <2>1, InReports
  <2>3. QED
    BY <1>1, <2>1, <2>2 DEF TouchRead
<1>2. QED
  BY <1>1, PaymentSteps, ReceiveIs

\* A report shows the wallet it is about.
LEMMA ReportedNext ==
    ASSUME Typed, Placed, Sound, Sound', [Next]_vars, NEW a \in Addresses, Held(a), Reported(a)
    PROVE  Reported(a)' \/ Shown(a)'
<1>1. CASE touch' = touch /\ ToSet(reports) \subseteq ToSet(reports')
  BY <1>1 DEF Reported
<1>2. CASE TouchSet /\ reports' = reports
  <2>1. CASE a \in ToSet(reports)
    BY <1>2, <2>1 DEF Reported
  <2>2. CASE touch # Idle /\ touch.addr = a
    <3>1. /\ Writes(touch.pos, touch.addr[1]) /\ touch.addr \in List[touch.pos].addrs
          /\ Sets(touch.pos, "ok", List[touch.pos].addrs)
      BY <1>2, TouchSetList
    <3>2. touch.pos \in DOMAIN List' /\ a \in List'[touch.pos].addrs /\ List'[touch.pos].status = "ok"
      BY <2>2, <3>1 DEF Writes, Sets
    <3>3. QED
      BY <3>2 DEF Shown
  <2>3. QED
    BY <2>1, <2>2 DEF Reported
<1>3. CASE TouchRead
  <2>1. /\ reports # <<>> /\ reports' = Tail(reports) /\ reports \in Seq(Addresses)
        /\ Head(reports) \in Addresses /\ touch = Idle
    BY <1>3, TouchReadTyped DEF TouchRead, Typed
  <2>2. a \in ToSet(reports)
    BY <2>1 DEF Reported
  <2>3. CASE a \in ToSet(reports')
    BY <2>3 DEF Reported
  <2>4. CASE a = Head(reports)
    <3>1. FindByAddress(a) # 0
      BY HeldFound, AddressUserFound, DocsTyped
    <3>2. touch' = [op |-> "touch", addr |-> a,
                    pos |-> LastWith(docs[FindByAddress(a)].wallets, a)]
      BY <1>3, <2>4, <3>1, TouchReadTyped, LastAddressFound DEF TouchRead
    <3>3. touch' # Idle /\ touch'.addr = a
      BY <3>2 DEF Idle
    <3>4. QED
      BY <3>3 DEF Reported, Idle
  <2>5. QED
    BY <2>1, <2>2, <2>3, <2>4, InReports
<1>4. QED
  BY <1>1, <1>2, <1>3, PaymentSteps, ReceiveIs

\* What a deletion weighs includes every balance of the wallet it is for.
LEMMA DeletionWeighed ==
    ASSUME Typed, Placed, Sound, NEW r \in Reqs, Weighs(r), req[r] \in DeletingAt, ~Unweighed(r),
           NEW a \in funds, a[1] = req[r].key, NEW i \in DOMAIN List, a \in List[i].addrs
    PROVE  Imported(a[1])
<1> DEFINE k == req[r].key
           L == List
<1> SUFFICES ASSUME ~Imported(k) PROVE FALSE
  OBVIOUS
<1>1. /\ req[r].seen = <<docs, funds>> /\ Looked(k)
      /\ k.currency = "ETH" => req[r].asked = {<<k, 0>>} /\ NextAddress(k) \notin funds
  BY DEF Unweighed
<1>2. k \in Keys /\ k.currency \in {"BTC", "ETH"}
  BY WalletsAssumption DEF DeletingAt
<1>3. req[r].seen[1] = docs /\ req[r].seen[2] = funds
  BY <1>1
<1>4. docs # <<>> /\ req[r].asked = Weighed(docs[1].wallets, k)
  BY <1>3 DEF Weighs
<1>5. req[r].asked = Weighed(L, k)
  BY <1>4 DEF List
<1>6. At(r, "delete", "mark")
  BY DEF DeletingAt, At
<1>7. a \notin req[r].asked
  BY <1>1, <1>3, <1>6 DEF Weighs
<1>8. List[i].key = k
  BY DEF Placed, OwnKept, Own
<1>9. CASE k.currency = "BTC"
  <2>1. Weighed(L, k) = UNION {L[j].addrs : j \in {x \in DOMAIN L : L[x].key.index = k.index}}
    BY <1>9 DEF Weighed
  <2>2. a \in Weighed(L, k)
    BY <1>8, <2>1
  <2>3. QED
    BY <1>5, <1>7, <2>2
<1>10. CASE k.currency = "ETH"
  <2>1. a = <<k, 0>> \/ a = NextAddress(k)
    BY DEF Typed, Addresses, NextAddress
  <2>2. QED
    BY <1>1, <1>7, <1>10, <2>1
<1>11. QED
  BY <1>2, <1>9, <1>10

\* An address with a balance stays shown, unless it is hidden unweighed.
LEMMA ShownNext ==
    ASSUME Typed, Placed, Sound, Sound', Grows, [Next]_vars, \A r \in Reqs : Weighs(r),
           NEW a \in funds, Shown(a)
    PROVE  Shown(a)' \/ Imported(a[1]) \/ a[1] \in hid'
<1>1. PICK i \in DOMAIN List : a \in List[i].addrs /\ List[i].status = "ok"
  BY DEF Shown
<1>2. i \in DOMAIN List' /\ a \in List'[i].addrs /\ a[1] = List[i].key
  BY <1>1 DEF Grows, Placed, OwnKept, Own
<1>3. List'[i].status = "ok" => Shown(a)'
  BY <1>2 DEF Shown
<1>4. List' = List => Shown(a)'
  BY <1>1, <1>3
<1>5. ASSUME NEW r \in Reqs, CreatePush(r) PROVE List'[i].status = "ok"
  <2>1. CASE SameLists
    BY <1>1, <2>1 DEF SameLists
  <2>2. CASE \E s : List' = Append(List, NewWallet(req[r].key, s))
    BY <1>1, <2>2, ListTyped
  <2>3. QED
    BY <1>5, <2>1, <2>2, CreatePushList
<1>6. ASSUME NEW r \in Reqs, MarkDeleted(r)
      PROVE  List'[i].status = "ok" \/ Imported(a[1]) \/ a[1] \in hid'
  <2>1. CASE SameLists
    BY <1>1, <2>1 DEF SameLists
  <2>2. CASE ~SameLists
    <3>1. /\ Writes(req[r].pos, req[r].key) /\ PointsTo(req[r].pos, req[r].key)
          /\ hid' = IF Unweighed(r) THEN hid \cup {req[r].key} ELSE hid
      BY <1>6, <2>2, MarkDeletedList
    <3>2. CASE i # req[r].pos
      BY <1>1, <3>1, <3>2 DEF Writes
    <3>3. CASE i = req[r].pos
      <4>1. a[1] = req[r].key
        BY <1>2, <3>1, <3>3 DEF PointsTo
      <4>2. req[r] \in DeletingAt
        BY <1>6, MarkDeletedTyped
      <4>3. ~Unweighed(r) => Imported(a[1])
        BY <1>1, <4>1, <4>2, DeletionWeighed
      <4>4. QED
        BY <3>1, <4>1, <4>3
    <3>4. QED
      BY <3>2, <3>3
  <2>3. QED
    BY <2>1, <2>2
<1>7. ASSUME NEW r \in Reqs, MarkImported(r) PROVE List'[i].status = "ok" \/ Imported(a[1])
  BY <1>1, <1>2, <1>7, MarkImportedList DEF SameLists, Writes
<1>8. ASSUME NEW p, NEW x, Writes(p, x),
             List'[p].status = List[p].status \/ List'[p].status = "ok"
      PROVE  List'[i].status = "ok"
  BY <1>1, <1>8 DEF Writes
<1>9. QED
  BY <1>3, <1>4, <1>5, <1>6, <1>7, <1>8, ListSteps

\* A deletion that does not move has seen what it had seen.
LEMMA WeighsKept ==
    ASSUME NEW s \in Reqs, Weighs(s), req'[s] = req[s], funds \subseteq funds'
    PROVE  Weighs(s)'
BY DEF Weighs, At

\* The weighings of the request that moves.
LEMMA WeighsOf ==
    ASSUME Typed, Placed, Sound, NEW r \in Reqs, Weighs(r), Goes(r), funds' = funds
    PROVE  Weighs(r)'
<1>1. \A q : req' = [req EXCEPT ![r] = q] => req'[r] = q
  BY DEF Typed
<1>2. ASSUME req'[r] \notin Weighing \cup DeletingAt PROVE Weighs(r)'
  <2>1. Typed'
    BY NextTyped DEF Next
  <2>2. ~(At(r, "delete", "locate") \/ At(r, "delete", "mark"))'
    BY <1>2, <2>1, Kinds DEF At, Typed
  <2>3. QED
    BY <1>2, <2>2 DEF Weighs
<1>3. CASE DeleteRead(r)
  <2>1. PICK q \in {Idle} \cup Weighing :
          /\ req' = [req EXCEPT ![r] = q]
          /\ q # Idle => /\ FindUser(req[r].jwt) \in DOMAIN docs
                         /\ q.at = "weigh" /\ q.key = req[r].key
                         /\ q.asked = Weighed(docs[FindUser(req[r].jwt)].wallets, q.key)
                         /\ q.seen = <<docs, funds>>
    BY <1>3, DeleteReadTyped
  <2>2. CASE q = Idle
    <3>1. req'[r] = Idle
      BY <1>1, <2>1, <2>2
    <3>2. Idle \notin Weighing \cup DeletingAt
      BY DEF Idle, Weighing, DeletingAt
    <3>3. QED
      BY <1>2, <3>1, <3>2
  <2>3. CASE q # Idle
    <3>1. FindUser(req[r].jwt) = 1 /\ docs # <<>>
      BY <2>1, <2>3, OneDoc
    <3>2. q.seen[1] = docs /\ q.seen[2] = funds /\ q.asked = Weighed(docs[1].wallets, q.key)
      BY <2>1, <2>3, <3>1
    <3>3. req'[r] = q /\ q.at = "weigh"
      BY <1>1, <2>1, <2>3
    <3>4. QED
      BY <3>1, <3>2, <3>3 DEF Weighs, At
  <2>4. QED
    BY <2>2, <2>3
<1>4. CASE Weigh(r)
  <2>1. PICK q \in {Idle} \cup Weighing :
          /\ req' = [req EXCEPT ![r] = q]
          /\ q # Idle =>
               /\ q = [req[r] EXCEPT !.at = IF Imported(req[r].key) THEN "imported" ELSE "locate"]
               /\ Looked(q.key) => \A a \in q.asked \cap funds : Chain(a[1]) # Chain(q.key)
    BY <1>4, WeighTyped
  <2>2. CASE q = Idle
    <3>1. req'[r] = Idle
      BY <1>1, <2>1, <2>2
    <3>2. Idle \notin Weighing \cup DeletingAt
      BY DEF Idle, Weighing, DeletingAt
    <3>3. QED
      BY <1>2, <3>1, <3>2
  <2>3. CASE q # Idle
    <3>1. req[r] \in Weighing
      BY <1>4, WeighTyped
    <3>2. q.key = req[r].key /\ q.asked = req[r].asked /\ q.seen = req[r].seen
      BY <2>1, <2>3, <3>1 DEF Weighing
    <3>3. /\ q.seen[1] # <<>> /\ q.asked = Weighed(q.seen[1][1].wallets, q.key)
          /\ q.seen[2] \subseteq funds
      BY <3>1, <3>2 DEF Weighs
    <3>4. req'[r] = q /\ (Looked(q.key) => \A a \in q.asked \cap q.seen[2] : Chain(a[1]) # Chain(q.key))
      BY <1>1, <2>1, <2>3, <3>3
    <3>5. QED
      BY <3>3, <3>4 DEF Weighs
  <2>4. QED
    BY <2>2, <2>3
<1>5. CASE Locate(r)
  <2>1. PICK q \in DeletingAt :
          /\ req' = [req EXCEPT ![r] = q]
          /\ q.key = req[r].key /\ q.asked = req[r].asked /\ q.seen = req[r].seen
    BY <1>5, LocateTyped
  <2>2. req[r] \in Weighing /\ At(r, "delete", "locate")
    BY <1>5, LocateTyped DEF Locate
  <2>3. /\ q.seen[1] # <<>> /\ q.asked = Weighed(q.seen[1][1].wallets, q.key)
        /\ q.seen[2] \subseteq funds
        /\ Looked(q.key) => \A a \in q.asked \cap q.seen[2] : Chain(a[1]) # Chain(q.key)
    BY <2>1, <2>2 DEF Weighs
  <2>4. req'[r] = q
    BY <1>1, <2>1
  <2>5. QED
    BY <2>3, <2>4 DEF Weighs
<1>6. CASE Logins(r) \/ AddressPush(r) \/ NameSet(r) \/ BrokenSet(r) \/ MarkDeleted(r) \/ MarkImported(r)
  <2>1. req'[r] = Idle
    BY <1>1, <1>6, LoginInsertTyped, LoginRefreshTyped, LoginRewriteTyped, AddressPushTyped,
       NameSetTyped, BrokenSetTyped, MarkDeletedTyped, MarkImportedTyped DEF Logins
  <2>2. QED
    BY <1>2, <2>1 DEF Idle, Weighing, DeletingAt
<1>7. CASE CheckAddWallet(r) \/ CreateRead(r) \/ CreatePush(r)
  <2>1. req'[r] \in {Idle} \cup Creation \cup Mixed \cup Discovery
    <3>1. CASE CheckAddWallet(r)
      BY <1>1, <3>1, CheckAddWalletTyped
    <3>2. CASE CreateRead(r)
      BY <1>1, <3>2, CreateReadTyped
    <3>3. CASE CreatePush(r)
      BY <1>1, <3>3, CreatePushTyped
    <3>4. QED
      BY <1>7, <3>1, <3>2, <3>3
  <2>2. QED
    BY <1>2, <2>1 DEF Idle, Creation, Mixed, Discovery, Weighing, DeletingAt
<1>8. CASE EventSendRawTx(r) \/ AddressRead(r) \/ NameRead(r)
  <2>1. req'[r] \in {Idle} \cup Adding \cup AddingAt \cup NamingAt
    BY <1>1, <1>8, EventSendRawTxTyped, AddressReadTyped, NameReadTyped
  <2>2. QED
    BY <1>2, <2>1 DEF Idle, Adding, AddingAt, NamingAt, Weighing, DeletingAt
<1>9. QED
  BY <1>3, <1>4, <1>5, <1>6, <1>7, <1>8 DEF Goes, Logins

\* One that arrives has seen nothing.
LEMMA ArrivesWeighs ==
    ASSUME Typed, NEW r \in Reqs, NEW d \in Devices, Arrives(r, d)
    PROVE  Weighs(r)'
<1>1. CASE Authenticate(r, d)
  <2>1. PICK q \in Inserting \cup Refreshing \cup Rewriting : req' = [req EXCEPT ![r] = q]
    BY <1>1, AuthenticateTyped
  <2>2. req'[r] = q
    BY <2>1 DEF Typed
  <2>3. QED
    BY <2>2 DEF Weighs, At, Inserting, Refreshing, Rewriting, Weighing, DeletingAt
<1>2. CASE ~Authenticate(r, d)
  <2>1. PICK op, at, k : Begin(r, d, op, at, k) /\ at \in {"check", "read", "send", "set"}
    BY <1>2, ArrivesKinds
  <2>2. req'[r] = [op |-> op, at |-> at, key |-> k, jwt |-> token[d]]
    BY <2>1, BeginIs
  <2>3. req'[r].at \in {"check", "read", "send", "set"}
    BY <2>1, <2>2
  <2>4. QED
    BY <2>3 DEF Weighs, At, Weighing, DeletingAt
<1>3. QED
  BY <1>1, <1>2

\* Every step leaves each balance shown, hidden unweighed or on its way.
LEMMA BalancesNext ==
    ASSUME Typed, Placed, Sound, Sound', Grows, Funded, [Next]_vars
    PROVE  Balances'
<1> SUFFICES ASSUME NEW a \in funds'
             PROVE  Held(a)' /\ (Imported(a[1]) \/ a[1] \in hid' \/ Reported(a)' \/ Shown(a)')
  BY DEF Balances, Held, Imported, Reported, Shown
<1>1. hid \subseteq hid'
  <2>1. ASSUME NEW r \in Reqs, MarkDeleted(r) PROVE hid \subseteq hid'
    BY <2>1 DEF MarkDeleted
  <2>2. ASSUME NEW k \in Keys, NEW i \in {0, 1}, Receive(<<k, i>>) PROVE hid' = hid
    BY <2>2 DEF Receive
  <2>3. CASE UNCHANGED vars \/ TouchRead \/ TouchSet \/ Tick
    BY <2>3 DEF vars, TouchRead, TouchSet, Tick, payments
  <2>4. QED
    BY <2>1, <2>2, <2>3, PaymentsKept DEF Next
<1>2. CASE a \in funds
  <2>1. Held(a) /\ a \in Addresses
    BY <1>2 DEF Funded, Balances, Held, Typed
  <2>2. Held(a)'
    BY <2>1, HeldStays
  <2>3. Imported(a[1]) \/ a[1] \in hid \/ Reported(a) \/ Shown(a)
    BY <1>2 DEF Funded, Balances
  <2>4. Reported(a) => Reported(a)' \/ Shown(a)'
    BY <2>1, ReportedNext
  <2>5. Shown(a) => Shown(a)' \/ Imported(a[1]) \/ a[1] \in hid'
    BY <1>2, ShownNext DEF Funded
  <2>6. QED
    BY <1>1, <2>2, <2>3, <2>4, <2>5
<1>3. CASE a \notin funds
  <2>1. PICK b \in Addresses : Receive(b)
    BY <1>3, PaymentSteps
  <2>2. a = b /\ Held(a) /\ a \in ToSet(reports')
    BY <1>3, <2>1, ReceiveIs
  <2>3. Reported(a)'
    BY <2>2 DEF Reported
  <2>4. QED
    BY <2>2, <2>3, HeldStays
<1>4. QED
  BY <1>2, <1>3

\* Every step keeps what is said of balances and deletions.
LEMMA FundedNext ==
    ASSUME Typed, Placed, Funded, [Next]_vars, Sound'
    PROVE  Funded'
<1>1. Sound /\ Grows
  BY SoundBefore, NextGrows
<1>2. ToSet(reports') \subseteq funds' /\ funds \subseteq funds'
  BY <1>1, ReportsNext DEF Funded
<1>3. ASSUME NEW s \in Reqs PROVE Weighs(s)'
  <2>1. CASE req'[s] = req[s]
    BY <1>2, <2>1, WeighsKept DEF Funded
  <2>2. CASE Goes(s)
    <3>1. funds' = funds
      BY <2>2, PaymentsKept
    <3>2. QED
      BY <1>1, <2>2, <3>1, WeighsOf DEF Funded
  <2>3. ASSUME NEW d \in Devices, Arrives(s, d) PROVE Weighs(s)'
    BY <2>3, ArrivesWeighs
  <2>4. ASSUME NEW r \in Reqs, Goes(r) \/ \E d \in Devices : Arrives(r, d), r # s PROVE req'[s] = req[s]
    BY <2>4, OneRequest
  <2>5. ASSUME NEW k \in Keys, NEW i \in {0, 1}, Receive(<<k, i>>) PROVE req'[s] = req[s]
    BY <2>5, NoRequest DEF Addresses
  <2>6. QED
    BY <2>1, <2>2, <2>3, <2>4, <2>5, NoRequest DEF Next
<1>4. QED
  BY <1>1, <1>2, <1>3, BalancesNext DEF Funded, ToSet

-----------------------------------------------------------------------------
(* The beginning, and the invariant.                                         *)

\* The account at the start: none, or one of a device with its wallets.
LEMMA InitWallets ==
    ASSUME Init
    PROVE  \E ws \in Initial, d \in Devices :
             /\ ws \in Seq(Keys) /\ \A i, j \in DOMAIN ws : ws[i] = ws[j] => i = j
             /\ List = [i \in DOMAIN ws |-> NewWallet(ws[i], "ok")]
             /\ granted = IF ws = <<>> THEN {} ELSE {<<d, 1>>}
             /\ Devs = IF ws = <<>> THEN <<>> ELSE <<[id |-> d, jwt |-> 1]>>
             /\ answered = {<<"wallet", k>> : k \in ToSet(ws)}
<1>1. PICK ws \in Initial, d \in Devices :
         /\ docs = IF ws = <<>> THEN <<>>
                   ELSE <<[devices |-> <<[id |-> d, jwt |-> 1]>>,
                           wallets |-> [i \in DOMAIN ws |-> NewWallet(ws[i], "ok")]]>>
         /\ granted = IF ws = <<>> THEN {} ELSE {<<d, 1>>}
         /\ answered = {<<"wallet", k>> : k \in ToSet(ws)}
  BY DEF Init
<1>2. ws \in Seq(Keys) /\ \A i, j \in DOMAIN ws : ws[i] = ws[j] => i = j
  BY WalletsAssumption
<1>3. CASE ws = <<>>
  <2>1. docs = <<>>
    BY <1>1, <1>3
  <2>2. List = <<>> /\ Devs = <<>>
    BY <2>1 DEF List, Devs
  <2>3. [i \in DOMAIN ws |-> NewWallet(ws[i], "ok")] = <<>>
    BY <1>3
  <2>4. List = [i \in DOMAIN ws |-> NewWallet(ws[i], "ok")]
    BY <2>2, <2>3
  <2> DEFINE new == [i \in DOMAIN ws |-> NewWallet(ws[i], "ok")]
  <2> HIDE DEF new
  <2>5. List = new
    BY <2>4 DEF new
  <2>6. QED
    BY <1>1, <1>2, <1>3, <2>2, <2>5 DEF new
<1>4. CASE ws # <<>>
  <2> DEFINE new == [i \in DOMAIN ws |-> NewWallet(ws[i], "ok")]
             dev == <<[id |-> d, jwt |-> 1]>>
  <2>1. docs = <<[devices |-> dev, wallets |-> new]>>
    BY <1>1, <1>4
  <2> HIDE DEF new, dev
  <2>2. docs # <<>> /\ docs[1].wallets = new /\ docs[1].devices = dev
    BY <2>1
  <2>3. List = new /\ Devs = dev
    BY <2>2 DEF List, Devs
  <2>4. QED
    BY <1>1, <1>2, <1>4, <2>3 DEF new, dev
<1>5. QED
  BY <1>3, <1>4

\* The invariant holds at the start.
LEMMA InitInv ==
    ASSUME Init
    PROVE  WalletsInv
<1>1. Typed
  BY InitTyped
<1>2. PICK ws \in Initial, d \in Devices :
         /\ ws \in Seq(Keys) /\ \A i, j \in DOMAIN ws : ws[i] = ws[j] => i = j
         /\ List = [i \in DOMAIN ws |-> NewWallet(ws[i], "ok")]
         /\ granted = IF ws = <<>> THEN {} ELSE {<<d, 1>>}
         /\ Devs = IF ws = <<>> THEN <<>> ELSE <<[id |-> d, jwt |-> 1]>>
         /\ answered = {<<"wallet", k>> : k \in ToSet(ws)}
  BY InitWallets
<1>3. /\ req = [r \in Reqs |-> Idle] /\ funds = {} /\ reports = <<>> /\ touch = Idle /\ sent = {}
  BY DEF Init
<1>4. DOMAIN List = DOMAIN ws /\ \A i \in DOMAIN List : List[i] = NewWallet(ws[i], "ok") /\ ws[i] \in Keys
  BY <1>2
<1>5. OwnKept
  <2> SUFFICES ASSUME NEW i \in DOMAIN List PROVE Own(List[i])
    BY DEF OwnKept
  <2>1. List[i] = NewWallet(ws[i], "ok") /\ NewWallet(ws[i], "ok") \in Wallet
    BY <1>4, NewWalletTyped
  <2>2. QED
    BY <2>1 DEF Own, NewWallet
<1>6. ToldWallets
  <2> SUFFICES ASSUME NEW k \in Keys, <<"wallet", k>> \in answered PROVE Listed(k)
    BY DEF ToldWallets
  <2>1. PICK i \in DOMAIN ws : ws[i] = k
    BY <1>2 DEF ToSet
  <2>2. QED
    BY <1>4, <2>1 DEF Listed, NewWallet
<1>7. \A r \in Reqs : Aimed(r) /\ Weighs(r)
  <2> SUFFICES ASSUME NEW r \in Reqs PROVE Aimed(r) /\ Weighs(r)
    OBVIOUS
  <2>1. req[r] = Idle
    BY <1>3
  <2>2. Idle \notin AddingAt \cup NamingAt \cup DeletingAt \cup Weighing
    BY DEF Idle, AddingAt, NamingAt, DeletingAt, Weighing
  <2>3. QED
    BY <2>1, <2>2 DEF Aimed, Weighs, At, Idle
<1>8. Placed
  BY <1>3, <1>5, <1>6, <1>7 DEF Placed, Paid
<1>9. Copies
  <2> SUFFICES ASSUME NEW k \in Keys
               PROVE  Cardinality(Matches(List, k)) + Cardinality(Pushing(k)) <= Cardinality(Reqs)
    BY DEF Copies
  <2>1. Pushing(k) = {}
    BY <1>3 DEF Pushing, Creating, Idle
  <2>2. Cardinality(Pushing(k)) = 0
    BY <2>1, FS_EmptySet
  <2>3. Cardinality(Reqs) \in Nat /\ Cardinality(Reqs) # 0
    BY WalletsAssumption, FS_CardinalityType, FS_EmptySet
  <2>4. Cardinality(Matches(List, k)) \in {0, 1}
    <3>1. CASE Matches(List, k) = {}
      BY <3>1, FS_EmptySet
    <3>2. CASE Matches(List, k) # {}
      <4>1. PICK i : i \in Matches(List, k)
        BY <3>2
      <4>2. \A j \in Matches(List, k) : j = i
        BY <1>2, <1>4, <4>1 DEF Matches, NewWallet
      <4>3. Matches(List, k) = {i}
        BY <4>1, <4>2
      <4>4. QED
        BY <4>3, FS_Singleton
    <3>3. QED
      BY <3>1, <3>2
  <2>5. QED
    BY <2>2, <2>3, <2>4
<1>10. ToldAddresses /\ ToldDeletions
  <2>1. \A k : <<"address", k>> \notin answered /\ <<"deleted", k>> \notin answered
    BY <1>2
  <2>2. QED
    BY <2>1 DEF ToldAddresses, ToldDeletions
<1>11. Change
  BY <1>3 DEF Change
<1>12. Funded
  BY <1>3, <1>7 DEF Funded, Balances, ToSet
<1>13. Granted
  <2>1. \A e : <<"token", e>> \notin answered
    BY <1>2
  <2>2. \A i \in DOMAIN Devs : <<Devs[i].id, Devs[i].jwt>> \in granted
    BY <1>2
  <2>3. \A r \in Reqs : req[r] \notin Refreshing
    BY <1>3 DEF Idle, Refreshing
  <2>4. QED
    BY <2>1, <2>2, <2>3 DEF Granted
<1>14. QED
  BY <1>1, <1>8, <1>9, <1>10, <1>11, <1>12, <1>13 DEF WalletsInv

\* Every step keeps it.
LEMMA NextInv ==
    ASSUME WalletsInv, [Next]_vars
    PROVE  WalletsInv'
<1>1. Typed /\ Typed'
  BY NextTyped DEF WalletsInv
<1>2. ASSUME Sound'
      PROVE  /\ Placed' /\ Copies' /\ ToldAddresses' /\ ToldDeletions' /\ Change' /\ Funded'
             /\ ~SharedToken' => Granted'
  <2>1. Sound
    BY <1>1, <1>2, SoundBefore
  <2>2. /\ Placed /\ Copies /\ ToldAddresses /\ ToldDeletions /\ Change /\ Funded
        /\ ~SharedToken => Granted
    BY <2>1 DEF WalletsInv
  <2>3. Placed' /\ Copies' /\ ToldAddresses'
    BY <1>1, <1>2, <2>2, PlacedNext, CopiesNext, ToldAddressesNext
  <2>4. ToldDeletions' /\ Change' /\ Funded'
    BY <1>1, <1>2, <2>2, ToldDeletionsNext, ChangeNext, FundedNext
  <2>5. ASSUME ~SharedToken' PROVE Granted'
    <3>1. granted \subseteq granted'
      BY <1>1, <2>1, <2>2, GrantedGrows
    <3>2. ~SharedToken
      BY <2>5, <3>1 DEF SharedToken
    <3>3. QED
      BY <1>1, <1>2, <2>2, <2>5, <3>2, GrantedNext
  <2>6. QED
    BY <2>3, <2>4, <2>5
<1>3. QED
  BY <1>1, <1>2 DEF WalletsInv

-----------------------------------------------------------------------------
(* The theorems.                                                             *)

\* What is stored in the account is in its list.
LEMMA StoredOf ==
    ASSUME Typed, Sound, docs # <<>>
    PROVE  /\ \A k : Listed(k) => Stored(<<"wallet", k>>)
           /\ \A k : AddressKept(k) => Stored(<<"address", k>>)
           /\ \A k : Deleted(k) => Stored(<<"deleted", k>>)
           /\ \A d : (\E i \in DOMAIN Devs : Devs[i].jwt = token[d]) => Stored(<<"token", d>>)
<1>1. 1 \in DOMAIN docs /\ List = docs[1].wallets /\ Devs = docs[1].devices
  BY DEF Typed, List, Devs
<1>2. ASSUME NEW k, Listed(k) PROVE Stored(<<"wallet", k>>)
  <2>1. Matches(docs[1].wallets, k) # {}
    BY <1>1, <1>2 DEF Listed, Matches
  <2>2. QED
    BY <1>1, <2>1 DEF Stored
<1>3. ASSUME NEW k, AddressKept(k) PROVE Stored(<<"address", k>>)
  <2>1. \E i \in Matches(docs[1].wallets, k) : NextAddress(k) \in docs[1].wallets[i].addrs
    BY <1>1, <1>3 DEF AddressKept, Matches
  <2>2. QED
    BY <1>1, <2>1 DEF Stored
<1>4. ASSUME NEW k, Deleted(k) PROVE Stored(<<"deleted", k>>)
  <2>1. \E i \in Matches(docs[1].wallets, k) : docs[1].wallets[i].status = "deleted"
    BY <1>1, <1>4 DEF Deleted, Matches
  <2>2. QED
    BY <1>1, <2>1 DEF Stored
<1>5. ASSUME NEW d, \E i \in DOMAIN Devs : Devs[i].jwt = token[d] PROVE Stored(<<"token", d>>)
  <2>1. Holds(docs[1], token[d])
    BY <1>1, <1>5 DEF Holds
  <2>2. QED
    BY <1>1, <2>1 DEF Stored
<1>6. QED
  BY <1>2, <1>3, <1>4, <1>5

\* Several imported wallets in the list are several in the model.
LEMMA SeveralCounted ==
    ASSUME Typed, Sound, Several
    PROVE  SeveralImported
<1> DEFINE S == {i \in DOMAIN List : Imported(List[i].key)}
<1>1. PICK i, j \in DOMAIN List : i # j /\ Imported(List[i].key) /\ Imported(List[j].key)
  BY DEF Several
<1>2. IsFiniteSet(S)
  <2>1. S \in SUBSET (1..Len(List)) /\ Len(List) \in Nat
    BY ListTyped
  <2>2. QED
    BY <2>1, FS_Interval, FS_Subset
<1>3. Cardinality({i, j}) = 2
  <2>1. Cardinality({i}) = 1 /\ IsFiniteSet({i}) /\ j \notin {i} /\ {i} \cup {j} = {i, j}
    BY <1>1, FS_Singleton
  <2>2. Cardinality({i} \cup {j}) = Cardinality({i}) + 1
    BY <2>1, FS_AddElement
  <2>3. QED
    BY <2>1, <2>2
<1>4. {i, j} \subseteq S
  BY <1>1
<1>5. Cardinality(S) > 1
  <2>1. Cardinality({i, j}) <= Cardinality(S) /\ Cardinality(S) \in Nat
    BY <1>2, <1>4, FS_Subset, FS_CardinalityType
  <2>2. QED
    BY <1>3, <2>1
<1>6. 1 \in DOMAIN docs /\ List = docs[1].wallets
  BY <1>1 DEF Typed, List
<1>7. QED
  BY <1>5, <1>6 DEF SeveralImported

\* Answers are kept.
LEMMA InvAnswersKept ==
    ASSUME WalletsInv
    PROVE  AnswersKept
<1> SUFFICES ASSUME Sound, NEW what \in answered
             PROVE  \/ Stored(what)
                    \/ what[1] = "token" /\ SharedToken
                    \/ what[1] = "deleted" /\ (what[2] \in revived \/ (Imported(what[2]) /\ SeveralImported))
  BY DEF AnswersKept
<1>1. /\ Typed /\ ToldWallets /\ ToldAddresses /\ ToldDeletions
      /\ ~SharedToken => Granted
  BY DEF WalletsInv, Placed
<1>2. what \in Told
  BY <1>1 DEF Typed
<1>3. docs = <<>> => DOMAIN List = {} /\ DOMAIN Devs = {}
  BY DEF List, Devs
<1>4. ASSUME NEW k \in Keys, what = <<"wallet", k>> PROVE Stored(what)
  <2>1. Listed(k)
    BY <1>1, <1>4 DEF ToldWallets
  <2>2. docs # <<>>
    BY <1>3, <2>1 DEF Listed
  <2>3. QED
    BY <1>1, <1>4, <2>1, <2>2, StoredOf
<1>5. ASSUME NEW k \in Keys, what = <<"address", k>> PROVE Stored(what)
  <2>1. AddressKept(k)
    BY <1>1, <1>5 DEF ToldAddresses
  <2>2. docs # <<>>
    BY <1>3, <2>1 DEF AddressKept
  <2>3. QED
    BY <1>1, <1>5, <2>1, <2>2, StoredOf
<1>6. ASSUME NEW k \in Keys, what = <<"deleted", k>>
      PROVE  Stored(what) \/ k \in revived \/ (Imported(k) /\ SeveralImported)
  <2>1. CASE Deleted(k)
    <3>1. docs # <<>>
      BY <1>3, <2>1 DEF Deleted
    <3>2. QED
      BY <1>1, <1>6, <2>1, <3>1, StoredOf
  <2>2. CASE k \in revived \/ (Imported(k) /\ Several)
    BY <1>1, <2>2, SeveralCounted
  <2>3. QED
    BY <1>1, <1>6, <2>1, <2>2 DEF ToldDeletions
<1>7. ASSUME NEW d \in Devices, what = <<"token", d>> PROVE Stored(what) \/ SharedToken
  <2>1. CASE Granted
    <3>1. \E i \in DOMAIN Devs : Devs[i].jwt = token[d]
      BY <1>7, <2>1 DEF Granted
    <3>2. docs # <<>>
      BY <1>3, <3>1
    <3>3. QED
      BY <1>1, <1>7, <3>1, <3>2, StoredOf
  <2>2. QED
    BY <1>1, <2>1
<1>8. QED
  BY <1>2, <1>4, <1>5, <1>6, <1>7 DEF Told

\* Changes land in their own wallets.
LEMMA InvChangesLandInOwn ==
    ASSUME WalletsInv
    PROVE  ChangesLandInOwn
<1> SUFFICES ASSUME Sound, NEW u \in DOMAIN docs, NEW i \in DOMAIN docs[u].wallets
             PROVE  LET w == docs[u].wallets[i] IN
                    /\ \A a \in w.addrs : a[1] = w.key
                    /\ \A k \in w.by : k = w.key \/ (Imported(k) /\ Imported(w.key) /\ SeveralImported)
  BY DEF ChangesLandInOwn
<1>1. Typed /\ OwnKept
  BY DEF WalletsInv, Placed
<1>2. List = docs[u].wallets
  BY <1>1, OneDoc
<1>3. Own(List[i])
  BY <1>1, <1>2 DEF OwnKept
<1>4. QED
  BY <1>1, <1>2, <1>3, SeveralCounted DEF Own

\* Copies of a wallet are no more than requests.
LEMMA InvCopiesBounded ==
    ASSUME WalletsInv
    PROVE  CopiesBounded
<1>1. Typed /\ (Sound => Copies)
  BY DEF WalletsInv
<1>2. ASSUME Sound, NEW k \in Keys, ~Imported(k), NEW u \in DOMAIN docs
      PROVE  Cardinality(Matches(docs[u].wallets, k)) + Cardinality(Pushing(k)) <= Cardinality(Reqs)
  <2>1. List = docs[u].wallets
    BY <1>1, <1>2, OneDoc
  <2>2. QED
    BY <1>1, <1>2, <2>1 DEF Copies
<1>3. QED
  BY <1>2 DEF CopiesBounded, Pushing

\* A payment keeps its change.
LEMMA InvChangeKept ==
    ASSUME WalletsInv
    PROVE  ChangeKept
<1> SUFFICES ASSUME Sound, NEW k \in sent
             PROVE  \/ Stored(<<"address", k>>)
                    \/ \E r \in Reqs : req[r].op = "send" /\ req[r].key = k
                    \/ k \in cut
  BY DEF ChangeKept
<1>1. Typed /\ (AddressKept(k) \/ Owed(k) \/ k \in cut)
  BY DEF WalletsInv, Change
<1>2. CASE AddressKept(k)
  <2>1. docs # <<>>
    BY <1>2 DEF AddressKept, List
  <2>2. QED
    BY <1>1, <1>2, <2>1, StoredOf
<1>3. QED
  BY <1>1, <1>2 DEF Owed

\* Funds are shown.
LEMMA InvFundsShown ==
    ASSUME WalletsInv
    PROVE  FundsShown
<1> SUFFICES ASSUME Sound, AtRest, NEW u \in DOMAIN docs, NEW a \in funds
             PROVE  \/ a[1] \in hid \/ Imported(a[1])
                    \/ \E i \in DOMAIN docs[u].wallets :
                         a \in docs[u].wallets[i].addrs /\ docs[u].wallets[i].status = "ok"
  BY DEF FundsShown
<1>1. Typed /\ Balances
  BY DEF WalletsInv, Funded
<1>2. ~Reported(a)
  BY DEF Reported, AtRest, ToSet
<1>3. List = docs[u].wallets
  BY <1>1, OneDoc
<1>4. QED
  BY <1>1, <1>2, <1>3 DEF Balances, Shown

\* The invariant of the account: as long as it is sound, every position that a
\* handler of client/rest.go keeps between its read of the user and its update is
\* still that of the wallet the request is for, and what follows from it.
THEOREM WalletsInvariant == Spec => []WalletsInv
<1>1. Init => WalletsInv
  BY InitInv
<1>2. WalletsInv /\ [Next]_vars => WalletsInv'
  BY NextInv
<1>3. QED
  BY <1>1, <1>2, PTL DEF Spec

\* TypeOK: the users collection holds well-formed accounts, wallets torn by a
\* position past the end of the array among them.
THEOREM WalletsTyped == Spec => []TypeOK
<1>1. WalletsInv => TypeOK
  BY TypedTypeOK DEF WalletsInv
<1>2. QED
  BY <1>1, WalletsInvariant, PTL

\* AnswersKept: what a handler answered 200 to - a wallet created or deleted, an
\* address added, a device logged in - stays done, with the named exceptions.
THEOREM WalletsAnswersKept == Spec => []AnswersKept
<1>1. WalletsInv => AnswersKept
  BY InvAnswersKept
<1>2. QED
  BY <1>1, WalletsInvariant, PTL

\* ChangesLandInOwn: the positional updates of changeName, addAddress, DeleteWallet
\* and updateWalletAndAddressDate reach the wallet they are for.
THEOREM WalletsChangesLandInOwn == Spec => []ChangesLandInOwn
<1>1. WalletsInv => ChangesLandInOwn
  BY InvChangesLandInOwn
<1>2. QED
  BY <1>1, WalletsInvariant, PTL

\* CopiesBounded: createCustomWallet's check and its push are two calls, so requests
\* in flight may each push the wallet, and never more copies are made than requests.
THEOREM WalletsCopiesBounded == Spec => []CopiesBounded
<1>1. WalletsInv => CopiesBounded
  BY InvCopiesBounded
<1>2. QED
  BY <1>1, WalletsInvariant, PTL

\* ChangeKept: sendRawHDTransaction adds the change address after the node has the
\* payment, unless the device's token was replaced meanwhile.
THEOREM WalletsChangeKept == Spec => []ChangeKept
<1>1. WalletsInv => ChangeKept
  BY InvChangeKept
<1>2. QED
  BY <1>1, WalletsInvariant, PTL

\* FundsShown: deleteWallet hides no address with a balance but one it could not
\* have weighed, and updateWalletAndAddressDate shows the rest again.
THEOREM WalletsFundsShown == Spec => []FundsShown
<1>1. WalletsInv => FundsShown
  BY InvFundsShown
<1>2. QED
  BY <1>1, WalletsInvariant, PTL
=============================================================================
