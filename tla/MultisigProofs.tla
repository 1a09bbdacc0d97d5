--------------------------- MODULE MultisigProofs ---------------------------
(***************************************************************************)
(* That the members' copies of a multisig wallet agree, for any users,     *)
(* requests and reports.  MultisigInv is the inductive invariant: it says  *)
(* what the request in progress carries, and which copies it has still to  *)
(* write.                                                                  *)
(***************************************************************************)
EXTENDS Multisig, TLAPS, SequenceTheorems, FiniteSetTheorems, WellFoundedInduction

\* A list without an owner twice.
Distinct(owners) == Len(owners) = Cardinality(ToSet(owners))

\* No list is too long, neither a copy's nor a handler's.
Within == CopiesWithinCount /\ \A r \in Requests : Len(ms[r].owners) <= OwnersCount

\* Which handlers have which control points, and hold users to be written.
Control ==
    \A r \in Requests :
        /\ at[r] = "users" => r.op \in {"join", "leave", "kick", "delete"}
        /\ at[r] \in {"idle", "done", "check", "read", "users"} => todo[r] = {}
        /\ r.op = "leave" /\ at[r] = "drop" => todo[r] = {}
        /\ at[r] = "drop" => r.op \in {"leave", "kick"}
        /\ at[r] = "update" => r.op \in {"join", "leave", "kick"}
        /\ r.op = "create" => todo[r] = {}

\* One request at a time, and no request while a report is handled.
Alone == ~mixed => \A q, r \in Open : q = r
Apart == ~raced => Open = {} \/ deploy = "idle"

\* Users whose copy the handler has still to rewrite.
Late(r) == todo[r] \cup (IF r.op = "leave" /\ at[r] = "users" THEN Users ELSE {})
Ready == {u \in Holders : \A r \in Requests : u \notin Late(r)}

\* The copies list those who hold one, except for those still to be rewritten.
CopiesAgree ==
    /\ \A u \in Holders : Len(copies[u]) = 1
    /\ \A m, n \in Found : m.creator = n.creator
    /\ \A u \in Ready : ToSet(Head(copies[u]).owners) = Holders /\ Distinct(Head(copies[u]).owners)

Joining(r) == r.op = "join" /\ at[r] \in {"users", "push"}

\* What the handler has read still holds, and what it will write will.
Carried(r) ==
    /\ r.op = "create" /\ at[r] = "push" => Holders = {}
    /\ r.op = "join" /\ at[r] \in {"read", "users", "push"} => r.by \notin Holders
    /\ Joining(r) =>
         /\ ToSet(ms[r].owners) = Holders \cup {r.by} /\ Distinct(ms[r].owners)
         /\ \A m \in Found : m.creator = ms[r].creator
    /\ r.op = "leave" /\ at[r] = "drop" => ToSet(ms[r].owners) = Holders \ {r.by}
    /\ r.op = "leave" /\ at[r] = "users" => ToSet(ms[r].owners) = Holders
    /\ r.op = "kick" /\ at[r] \in {"users", "drop"} => ToSet(ms[r].owners) = Holders \ {r.target}
    /\ at[r] = "update" => ToSet(ms[r].owners) = Holders
    /\ at[r] = "erase" \/ (r.op = "join" /\ at[r] = "push") \/ (r.op = "kick" /\ at[r] = "drop") =>
         Holders \subseteq todo[r]

Owners == ~mixed => CopiesAgree /\ \A r \in Requests : Carried(r)

-----------------------------------------------------------------------------
\* The status that goes with so many owners.
Fits(status, n) ==
    /\ n < OwnersCount => status = "WaitingForJoin"
    /\ members = {} /\ ~vain /\ n = OwnersCount => status = "AllJoined"

\* The copies a report has still to change, and those it has.
Waits(u) == deploy = "set" /\ u \in left

\* The contract is for those who hold a copy.
AllIn == Holders \subseteq members /\ \A m \in Found : Len(m.owners) = OwnersCount

StatusesAgree ==
    /\ \A u, v \in Ready :
         (Waits(u) <=> Waits(v)) => Head(copies[u]).status = Head(copies[v]).status
    /\ \A u, v \in Holders :
         (Waits(u) <=> Waits(v)) => Head(copies[u]).contract = Head(copies[v]).contract
    /\ \A u \in Ready : Fits(Head(copies[u]).status, Len(Head(copies[u]).owners))

\* What the handler will write fits the owners it will write.
Given(r) ==
    /\ at[r] \in {"users", "push", "drop", "update"} /\ r.op # "create" /\ r.op # "delete" =>
         Fits(given[r], Cardinality(ToSet(ms[r].owners)))
    /\ r.op # "join" \/ at[r] \in {"idle", "check", "read"} => given[r] = "WaitingForJoin"
    /\ Joining(r) =>
         /\ ms[r].status = given[r]
         /\ \A m \in Found : m.contract = ms[r].contract
    /\ at[r] = "update" => \A u \in Holders \ Late(r) : Head(copies[u]).status = given[r]

\* A report goes to a code whose users are those of the contract.
Deploying ==
    /\ deploy # "idle" => members # {}
    /\ matched => deploy \in {"match", "find"}
    /\ matched \/ deploy = "set" => AllIn
    /\ deploy = "set" => \A u \in Holders :
         IF u \in left THEN ~Head(copies[u]).contract
         ELSE Head(copies[u]).contract = event.contract /\ Head(copies[u]).status = event.status

Statuses == ~mixed /\ ~raced => StatusesAgree /\ (\A r \in Requests : Given(r)) /\ Deploying

MultisigInv == TypeOK /\ Within /\ Control /\ Alone /\ Apart /\ Owners /\ Statuses

-----------------------------------------------------------------------------
(* Lists of owners.                                                          *)

\* The users of a list are finitely many, at most as many as it is long.
LEMMA ListSet ==
    ASSUME NEW S, NEW s \in Seq(S)
    PROVE  /\ ToSet(s) \subseteq S /\ IsFiniteSet(ToSet(s))
           /\ Cardinality(ToSet(s)) \in Nat /\ Cardinality(ToSet(s)) <= Len(s)
           /\ Len(s) \in Nat
<1>1. Len(s) \in Nat /\ s \in [1..Len(s) -> S] /\ DOMAIN s = 1..Len(s)
  BY LenProperties
<1>2. ToSet(s) \subseteq S
  BY <1>1 DEF ToSet
<1>3. s \in Surjection(1..Len(s), ToSet(s))
  BY <1>1 DEF Surjection, ToSet
<1>4. IsFiniteSet(1..Len(s)) /\ Cardinality(1..Len(s)) = Len(s)
  BY <1>1, FS_Interval
<1>5. IsFiniteSet(ToSet(s)) /\ Cardinality(ToSet(s)) <= Len(s)
  BY <1>3, <1>4, FS_Surjection
<1>6. QED
  BY <1>1, <1>2, <1>5, FS_CardinalityType

\* One more is at the end of the list.
LEMMA AppendSet ==
    ASSUME NEW S, NEW s \in Seq(S), NEW x \in S
    PROVE  /\ Append(s, x) \in Seq(S) /\ Len(Append(s, x)) = Len(s) + 1
           /\ Append(s, x)[Len(s) + 1] = x
           /\ \A i \in 1..Len(s) : Append(s, x)[i] = s[i]
           /\ ToSet(Append(s, x)) = ToSet(s) \cup {x}
           /\ Distinct(s) /\ x \notin ToSet(s) => Distinct(Append(s, x))
<1>1. Len(s) \in Nat /\ DOMAIN s = 1..Len(s)
  BY LenProperties
<1>2. /\ Append(s, x) \in Seq(S) /\ Len(Append(s, x)) = Len(s) + 1
      /\ Append(s, x)[Len(s) + 1] = x
      /\ \A i \in 1..Len(s) : Append(s, x)[i] = s[i]
  BY AppendProperties
<1>3. DOMAIN Append(s, x) = 1..(Len(s) + 1)
  BY <1>2, LenProperties
<1>4. ToSet(Append(s, x)) = ToSet(s) \cup {x}
  BY <1>1, <1>2, <1>3 DEF ToSet
<1>5. Distinct(s) /\ x \notin ToSet(s) => Distinct(Append(s, x))
  BY <1>2, <1>4, ListSet, FS_AddElement DEF Distinct
<1>6. QED
  BY <1>2, <1>4, <1>5

\* The owners once each.
LEMMA OnceSet ==
    ASSUME NEW S, NEW s \in Seq(S)
    PROVE  /\ Once(s) \in Seq(S) /\ ToSet(Once(s)) = ToSet(s)
           /\ Len(Once(s)) = Cardinality(ToSet(s)) /\ Distinct(Once(s))
<1> DEFINE T == ToSet(s)
           n == Cardinality(T)
<1>1. T \subseteq S /\ IsFiniteSet(T) /\ n \in Nat
  BY ListSet
<1>2. PICK f \in Bijection(1..n, T) : TRUE
  BY <1>1, FS_CardinalityType DEF ExistsBijection
<1>3. f \in [1..n -> T] /\ IsInjective(f)
  BY <1>2 DEF Bijection, Injection, IsInjective
<1>4. Once(s) \in [1..n -> T] /\ IsInjective(Once(s))
  BY <1>3 DEF Once, SetToSeq
<1>5. Once(s) \in Seq(S) /\ Len(Once(s)) = n
  <2>1. Once(s) \in [1..n -> S]
    BY <1>1, <1>4
  <2>2. Once(s) \in Seq(S)
    BY <1>1, <2>1, SeqDef
  <2>3. QED
    BY <1>1, <1>4, <2>2, LenProperties
<1>6. ToSet(Once(s)) = T
  <2>1. Once(s) \in Injection(1..n, T)
    BY <1>4 DEF Injection, IsInjective
  <2>2. IsFiniteSet(1..n) /\ Cardinality(1..n) = n
    BY <1>1, FS_Interval
  <2>3. Once(s) \in Surjection(1..n, T)
    BY <1>1, <2>1, <2>2, FS_Injection
  <2>4. DOMAIN Once(s) = 1..n
    BY <1>4
  <2>5. QED
    BY <2>3, <2>4 DEF Surjection, ToSet
<1>7. QED
  BY <1>5, <1>6 DEF Distinct

\* The function that Among takes its value from, over the first n owners.
Keeps(s, T, n, F) ==
    F = [i \in 0..n |-> IF i = 0 THEN <<>>
                        ELSE IF s[i] \in T THEN Append(F[i - 1], s[i]) ELSE F[i - 1]]

\* What it is at each place.
KeptRight(S, s, T, n, F) ==
    \A i \in 0..n :
        /\ F[i] \in Seq(S) /\ Len(F[i]) <= i
        /\ ToSet(F[i]) = {s[j] : j \in 1..i} \cap T
        /\ Len(F[i]) = i => \A j \in 1..i : s[j] \in T

\* There is such a function, and it is right, at every length.
LEMMA KeepsStep ==
    ASSUME NEW S, NEW s \in Seq(S), NEW T, NEW n \in 1..Len(s), NEW F,
           Keeps(s, T, n - 1, F), KeptRight(S, s, T, n - 1, F)
    PROVE  \E G : Keeps(s, T, n, G) /\ KeptRight(S, s, T, n, G)
<1>1. Len(s) \in Nat /\ n \in Nat /\ n # 0 /\ n - 1 \in Nat
  BY LenProperties
<1> DEFINE last == IF s[n] \in T THEN Append(F[n - 1], s[n]) ELSE F[n - 1]
           G == [i \in 0..n |-> IF i = n THEN last ELSE F[i]]
<1>2. /\ \A i \in 0..(n - 1) : G[i] = F[i]
      /\ G[n] = last /\ DOMAIN G = 0..n
  BY <1>1
<1>3. \A i \in 0..(n - 1) : F[i] = IF i = 0 THEN <<>>
                                   ELSE IF s[i] \in T THEN Append(F[i - 1], s[i]) ELSE F[i - 1]
  BY DEF Keeps
<1>4. \A i \in 0..n : G[i] = IF i = 0 THEN <<>>
                             ELSE IF s[i] \in T THEN Append(G[i - 1], s[i]) ELSE G[i - 1]
  <2> SUFFICES ASSUME NEW i \in 0..n
               PROVE  G[i] = IF i = 0 THEN <<>>
                             ELSE IF s[i] \in T THEN Append(G[i - 1], s[i]) ELSE G[i - 1]
    OBVIOUS
  <2> HIDE DEF G, last
  <2>1. CASE i = n
    <3>1. G[i - 1] = F[n - 1] /\ i # 0
      BY <1>1, <1>2, <2>1
    <3>2. QED
      BY <1>2, <2>1, <3>1 DEF last
  <2>2. CASE i # n
    <3>1. i \in 0..(n - 1) /\ (i # 0 => i - 1 \in 0..(n - 1))
      BY <1>1, <2>2
    <3>2. QED
      BY <1>2, <1>3, <3>1
  <2>3. QED
    BY <2>1, <2>2
<1>5. Keeps(s, T, n, G)
  <2>1. G = [i \in 0..n |-> G[i]]
    OBVIOUS
  <2> HIDE DEF G
  <2>2. QED
    BY <1>4, <2>1 DEF Keeps
<1>6. KeptRight(S, s, T, n, G)
  <2> HIDE DEF G
  <2> SUFFICES ASSUME NEW i \in 0..n
               PROVE  /\ G[i] \in Seq(S) /\ Len(G[i]) <= i
                      /\ ToSet(G[i]) = {s[j] : j \in 1..i} \cap T
                      /\ Len(G[i]) = i => \A j \in 1..i : s[j] \in T
    BY DEF KeptRight
  <2>1. CASE i # n
    <3>1. i \in 0..(n - 1) /\ G[i] = F[i]
      BY <1>1, <1>2, <2>1
    <3>2. QED
      BY <3>1 DEF KeptRight
  <2>2. CASE i = n
    <3> HIDE DEF last
    <3>1. /\ F[n - 1] \in Seq(S) /\ Len(F[n - 1]) <= n - 1 /\ Len(F[n - 1]) \in Nat
          /\ ToSet(F[n - 1]) = {s[j] : j \in 1..(n - 1)} \cap T
          /\ Len(F[n - 1]) = n - 1 => \A j \in 1..(n - 1) : s[j] \in T
      <4>1. n - 1 \in 0..(n - 1)
        BY <1>1
      <4>2. /\ F[n - 1] \in Seq(S) /\ Len(F[n - 1]) <= n - 1
            /\ ToSet(F[n - 1]) = {s[j] : j \in 1..(n - 1)} \cap T
            /\ Len(F[n - 1]) = n - 1 => \A j \in 1..(n - 1) : s[j] \in T
        BY <4>1 DEF KeptRight
      <4>3. Len(F[n - 1]) \in Nat
        BY <4>2, LenProperties
      <4>4. QED
        BY <4>2, <4>3
    <3>2. s[n] \in S /\ \A j \in 1..n : j = n \/ j \in 1..(n - 1)
      BY <1>1, ElementOfSeq
    <3>3. {s[j] : j \in 1..n} = {s[j] : j \in 1..(n - 1)} \cup {s[n]}
      BY <1>1, <3>2
    <3>4. CASE s[n] \in T
      <4>1. G[n] = Append(F[n - 1], s[n])
        BY <1>2, <3>4 DEF last
      <4>2. /\ G[n] \in Seq(S) /\ Len(G[n]) = Len(F[n - 1]) + 1
            /\ ToSet(G[n]) = ToSet(F[n - 1]) \cup {s[n]}
        BY <3>1, <3>2, <4>1, AppendSet
      <4>3. ToSet(G[n]) = {s[j] : j \in 1..n} \cap T
        BY <3>1, <3>3, <3>4, <4>2
      <4>4. Len(G[n]) <= n /\ (Len(G[n]) = n => Len(F[n - 1]) = n - 1)
        BY <1>1, <3>1, <4>2
      <4>5. QED
        BY <2>2, <3>1, <3>2, <3>4, <4>2, <4>3, <4>4
    <3>5. CASE s[n] \notin T
      <4>1. G[n] = F[n - 1]
        BY <1>2, <3>5 DEF last
      <4>2. ToSet(G[n]) = {s[j] : j \in 1..n} \cap T
        BY <3>1, <3>3, <3>5, <4>1
      <4>3. Len(G[n]) <= n /\ Len(G[n]) # n
        BY <1>1, <3>1, <4>1
      <4>4. QED
        BY <2>2, <3>1, <4>1, <4>2, <4>3
    <3>6. QED
      BY <3>4, <3>5
  <2>3. QED
    BY <2>1, <2>2
<1>7. QED
  BY <1>5, <1>6

\* Of a shortest list without one, the list without its last owner has one.
LEMMA KeepsExists ==
    ASSUME NEW S, NEW s \in Seq(S), NEW T
    PROVE  \A n \in 0..Len(s) : \E F : Keeps(s, T, n, F) /\ KeptRight(S, s, T, n, F)
<1> DEFINE Bad == {n \in Nat : n <= Len(s) /\ ~\E F : Keeps(s, T, n, F) /\ KeptRight(S, s, T, n, F)}
<1>1. Len(s) \in Nat
  BY LenProperties
<1>2. SUFFICES ASSUME Bad # {} PROVE FALSE
  BY <1>1
<1>3. PICK n \in Bad : \A m \in Bad : ~(<<m, n>> \in OpToRel(<, Nat))
  <2>1. Bad \subseteq Nat
    OBVIOUS
  <2>2. QED
    BY <1>2, <2>1, NatLessThanWellFounded, WFMin
<1>4. /\ n \in Nat /\ n <= Len(s) /\ ~\E F : Keeps(s, T, n, F) /\ KeptRight(S, s, T, n, F)
      /\ \A m \in Nat : m < n => \E F : Keeps(s, T, m, F) /\ KeptRight(S, s, T, m, F)
  <2>1. n \in Nat /\ n <= Len(s) /\ ~\E F : Keeps(s, T, n, F) /\ KeptRight(S, s, T, n, F)
    OBVIOUS
  <2>2. \A m \in Nat : m < n => m \notin Bad
    BY <1>3, <2>1 DEF OpToRel
  <2>3. \A m \in Nat : m < n => m <= Len(s)
    BY <1>1, <2>1
  <2>4. QED
    BY <2>1, <2>2, <2>3
<1> HIDE DEF Bad
<1>5. n # 0
  <2>1. SUFFICES \E F : Keeps(s, T, 0, F) /\ KeptRight(S, s, T, 0, F)
    BY <1>4
  <2> DEFINE F == [i \in 0..0 |-> <<>>]
  <2>2. F[0] = <<>> /\ \A i \in 0..0 : i = 0
    OBVIOUS
  <2>3. Keeps(s, T, 0, F)
    BY <2>2 DEF Keeps
  <2>4. KeptRight(S, s, T, 0, F)
    <3>1. <<>> \in Seq(S) /\ Len(<<>>) = 0 /\ ToSet(<<>>) = {}
      BY EmptySeq DEF ToSet
    <3>2. 1..0 = {} /\ 0 \in 0..0
      OBVIOUS
    <3>3. /\ F[0] \in Seq(S) /\ Len(F[0]) <= 0
          /\ ToSet(F[0]) = {s[j] : j \in 1..0} \cap T
          /\ \A j \in 1..0 : s[j] \in T
      BY <2>2, <3>1, <3>2
    <3> HIDE DEF F
    <3>4. QED
      BY <2>2, <3>3 DEF KeptRight
  <2>5. QED
    BY <2>3, <2>4
<1>6. n - 1 \in Nat /\ n - 1 < n /\ n \in 1..Len(s)
  BY <1>1, <1>4, <1>5
<1>7. PICK F : Keeps(s, T, n - 1, F) /\ KeptRight(S, s, T, n - 1, F)
  BY <1>4, <1>6
<1>8. QED
  BY <1>4, <1>6, <1>7, KeepsStep

\* There is but one.
LEMMA KeepsOne ==
    ASSUME NEW s, NEW T, NEW n \in Nat, NEW F, NEW G, Keeps(s, T, n, F), Keeps(s, T, n, G)
    PROVE  F = G
<1>1. SUFFICES ASSUME F # G PROVE FALSE
  OBVIOUS
<1> DEFINE Bad == {i \in 0..n : F[i] # G[i]}
<1>2. /\ F = [i \in 0..n |-> F[i]] /\ G = [i \in 0..n |-> G[i]]
      /\ \A i \in 0..n : F[i] = IF i = 0 THEN <<>>
                                ELSE IF s[i] \in T THEN Append(F[i - 1], s[i]) ELSE F[i - 1]
      /\ \A i \in 0..n : G[i] = IF i = 0 THEN <<>>
                                ELSE IF s[i] \in T THEN Append(G[i - 1], s[i]) ELSE G[i - 1]
  BY DEF Keeps
<1>3. Bad # {}
  BY <1>1, <1>2
<1>4. PICK i \in Bad : \A m \in Bad : ~(<<m, i>> \in OpToRel(<, Nat))
  <2>1. Bad \subseteq Nat
    OBVIOUS
  <2>2. QED
    BY <1>3, <2>1, NatLessThanWellFounded, WFMin
<1>5. i \in 0..n /\ F[i] # G[i]
  OBVIOUS
<1>6. i # 0
  BY <1>2, <1>5
<1>7. i - 1 \in 0..n /\ i - 1 < i /\ i - 1 \in Nat /\ i \in Nat
  BY <1>5, <1>6
<1>8. F[i - 1] = G[i - 1]
  BY <1>4, <1>7 DEF OpToRel
<1>9. QED
  BY <1>2, <1>5, <1>6, <1>8

\* Among keeps those of the set, and is as long as the list only with all of them.
LEMMA AmongSet ==
    ASSUME NEW S, NEW s \in Seq(S), NEW T
    PROVE  /\ Among(s, T) \in Seq(S) /\ Len(Among(s, T)) <= Len(s)
           /\ ToSet(Among(s, T)) = ToSet(s) \cap T
           /\ Len(Among(s, T)) = Len(s) => ToSet(s) \subseteq T
<1>1. Len(s) \in Nat /\ DOMAIN s = 1..Len(s)
  BY LenProperties
<1>2. PICK G : Keeps(s, T, Len(s), G) /\ KeptRight(S, s, T, Len(s), G)
  BY <1>1, KeepsExists
<1> DEFINE F == CHOOSE F : Keeps(s, T, Len(s), F)
<1>3. Keeps(s, T, Len(s), F)
  BY <1>2
<1>4. Among(s, T) = F[Len(s)]
  BY DEF Among, Keeps
<1>5. Among(s, T) = G[Len(s)]
  <2> HIDE DEF F
  <2>1. QED
    BY <1>1, <1>2, <1>3, <1>4, KeepsOne
<1>6. ToSet(s) = {s[j] : j \in 1..Len(s)}
  BY <1>1 DEF ToSet
<1>7. /\ G[Len(s)] \in Seq(S) /\ Len(G[Len(s)]) <= Len(s)
      /\ ToSet(G[Len(s)]) = {s[j] : j \in 1..Len(s)} \cap T
      /\ Len(G[Len(s)]) = Len(s) => \A j \in 1..Len(s) : s[j] \in T
  <2>1. Len(s) \in 0..Len(s)
    BY <1>1
  <2>2. QED
    BY <1>2, <2>1 DEF KeptRight
<1>8. QED
  BY <1>5, <1>6, <1>7

-----------------------------------------------------------------------------
(* Copies.                                                                   *)

\* A copy that is held.
LEMMA CopyHeld ==
    ASSUME TypeOK, NEW u \in Holders
    PROVE  /\ u \in Users /\ copies[u] \in Seq(Copy) /\ copies[u] # <<>>
           /\ Len(copies[u]) \in Nat \ {0} /\ DOMAIN copies[u] = 1..Len(copies[u])
           /\ Head(copies[u]) = copies[u][1] /\ Head(copies[u]) \in Copy
           /\ Head(copies[u]) \in ToSet(copies[u]) /\ ToSet(copies[u]) \subseteq Copy
           /\ Head(copies[u]) \in Found
<1>1. u \in Users /\ copies[u] \in Seq(Copy) /\ copies[u] # <<>>
  BY DEF TypeOK, Holders
<1>2. Len(copies[u]) \in Nat \ {0} /\ DOMAIN copies[u] = 1..Len(copies[u])
  BY <1>1, EmptySeq, LenProperties
<1>3. Head(copies[u]) \in Copy /\ Head(copies[u]) = copies[u][1]
  BY <1>1, HeadTailProperties
<1>4. ToSet(copies[u]) \subseteq Copy
  BY <1>1, ListSet
<1>5. Head(copies[u]) \in ToSet(copies[u])
  BY <1>2, <1>3 DEF ToSet
<1>6. QED
  BY <1>1, <1>2, <1>3, <1>4, <1>5 DEF Found

\* A copy with one owner.
LEMMA NewCopyTyped ==
    ASSUME NEW u \in Users
    PROVE  /\ NewCopy(u) \in Copy /\ NewCopy(u).owners = <<u>> /\ NewCopy(u).status = "WaitingForJoin"
           /\ Len(NewCopy(u).owners) = 1 /\ ToSet(<<u>>) = {u} /\ Distinct(<<u>>)
<1>1. <<u>> \in Seq(Users) /\ Len(<<u>>) = 1 /\ DOMAIN <<u>> = 1..1 /\ <<u>>[1] = u
  OBVIOUS
<1>2. ToSet(<<u>>) = {u}
  BY <1>1 DEF ToSet
<1>3. QED
  BY <1>1, <1>2, FS_Singleton DEF NewCopy, Copy, Status, Distinct

\* The first copy of a user is exchanged.
LEMMA PutFirst ==
    ASSUME TypeOK, NEW u \in Holders, NEW e \in Copy,
           copies' = [copies EXCEPT ![u] = [copies[u] EXCEPT ![1] = e]]
    PROVE  /\ copies' \in [Users -> Seq(Copy)] /\ Holders' = Holders
           /\ copies'[u] # <<>> /\ Len(copies'[u]) = Len(copies[u]) /\ Head(copies'[u]) = e
           /\ \A v \in Users : v # u => copies'[v] = copies[v]
           /\ ToSet(copies'[u]) \subseteq ToSet(copies[u]) \cup {e}
<1>1. /\ u \in Users /\ copies[u] \in Seq(Copy) /\ copies[u] # <<>>
      /\ Len(copies[u]) \in Nat \ {0} /\ DOMAIN copies[u] = 1..Len(copies[u])
  BY CopyHeld
<1>2. copies \in [Users -> Seq(Copy)]
  BY DEF TypeOK
<1>3. copies'[u] = [copies[u] EXCEPT ![1] = e] /\ \A v \in Users : v # u => copies'[v] = copies[v]
  BY <1>1, <1>2
<1>4. /\ copies'[u] \in Seq(Copy) /\ Len(copies'[u]) = Len(copies[u])
      /\ \A j \in 1..Len(copies[u]) : copies'[u][j] = IF j = 1 THEN e ELSE copies[u][j]
  BY <1>1, <1>3, ExceptSeq
<1>5. copies'[u] # <<>>
  BY <1>1, <1>4, EmptySeq
<1>6. Head(copies'[u]) = e
  BY <1>1, <1>4, <1>5, HeadTailProperties
<1>7. ToSet(copies'[u]) \subseteq ToSet(copies[u]) \cup {e}
  <2>1. DOMAIN copies'[u] = 1..Len(copies[u])
    BY <1>4, LenProperties
  <2>2. QED
    BY <1>1, <1>4, <2>1 DEF ToSet
<1>8. copies' \in [Users -> Seq(Copy)]
  BY <1>1, <1>2, <1>4
<1>9. Holders' = Holders
  BY <1>1, <1>3, <1>5 DEF Holders
<1>10. QED
  BY <1>3, <1>4, <1>5, <1>6, <1>7, <1>8, <1>9

\* A copy is added at the end of a user's list.
LEMMA PutLast ==
    ASSUME TypeOK, NEW u \in Users, NEW e \in Copy,
           copies' = [copies EXCEPT ![u] = Append(@, e)]
    PROVE  /\ copies' \in [Users -> Seq(Copy)] /\ Holders' = Holders \cup {u}
           /\ \A v \in Users : v # u => copies'[v] = copies[v]
           /\ ToSet(copies'[u]) = ToSet(copies[u]) \cup {e}
           /\ u \in Holders => Head(copies'[u]) = Head(copies[u])
           /\ u \notin Holders => Len(copies'[u]) = 1 /\ Head(copies'[u]) = e
<1>1. copies \in [Users -> Seq(Copy)] /\ copies[u] \in Seq(Copy)
  BY DEF TypeOK
<1>2. copies'[u] = Append(copies[u], e) /\ \A v \in Users : v # u => copies'[v] = copies[v]
  BY <1>1
<1>3. /\ copies'[u] \in Seq(Copy) /\ Len(copies'[u]) = Len(copies[u]) + 1
      /\ copies'[u][Len(copies[u]) + 1] = e
      /\ \A i \in 1..Len(copies[u]) : copies'[u][i] = copies[u][i]
      /\ ToSet(copies'[u]) = ToSet(copies[u]) \cup {e}
  BY <1>1, <1>2, AppendSet
<1>4. Len(copies[u]) \in Nat
  BY <1>1, LenProperties
<1>5. copies'[u] # <<>>
  BY <1>3, <1>4, EmptySeq
<1>6. Head(copies'[u]) = copies'[u][1]
  BY <1>3, <1>5, HeadTailProperties
<1>7. u \in Holders => Head(copies'[u]) = Head(copies[u])
  BY <1>3, <1>6, CopyHeld
<1>8. u \notin Holders => Len(copies'[u]) = 1 /\ Head(copies'[u]) = e
  <2>1. u \notin Holders => copies[u] = <<>> /\ Len(copies[u]) = 0
    BY EmptySeq DEF Holders
  <2>2. QED
    BY <1>3, <1>6, <2>1
<1>9. copies' \in [Users -> Seq(Copy)]
  BY <1>1, <1>3
<1>10. Holders' = Holders \cup {u}
  BY <1>2, <1>5 DEF Holders
<1>11. QED
  BY <1>2, <1>3, <1>7, <1>8, <1>9, <1>10

\* A user loses all copies.
LEMMA DropAll ==
    ASSUME TypeOK, NEW u \in Users, copies' = [copies EXCEPT ![u] = <<>>]
    PROVE  /\ copies' \in [Users -> Seq(Copy)] /\ Holders' = Holders \ {u}
           /\ copies'[u] = <<>> /\ ToSet(copies'[u]) = {}
           /\ \A v \in Users : v # u => copies'[v] = copies[v]
<1>1. copies \in [Users -> Seq(Copy)] /\ <<>> \in Seq(Copy)
  BY EmptySeq DEF TypeOK
<1>2. copies'[u] = <<>> /\ \A v \in Users : v # u => copies'[v] = copies[v]
  BY <1>1
<1>3. ToSet(<<>>) = {}
  BY DEF ToSet
<1>4. QED
  BY <1>1, <1>2, <1>3 DEF Holders

\* Two owners at the least.
LEMMA TwoOwners == OwnersCount \in Nat /\ OwnersCount >= 2
  BY MultisigAssumption

\* A list that is written or kept in hand may be no longer than the ones that were.
LEMMA WithinKeeps ==
    ASSUME Within, NEW r \in Requests, Len(ms'[r].owners) <= OwnersCount,
           \A q \in Requests \ {r} : ms'[q] = ms[q],
           \A u \in Users : \A m \in ToSet(copies'[u]) :
              m \in ToSet(copies[u]) \/ Len(m.owners) <= OwnersCount
    PROVE  Within'
<1>1. \A q \in Requests : Len(ms'[q].owners) <= OwnersCount
  <2> SUFFICES ASSUME NEW q \in Requests PROVE Len(ms'[q].owners) <= OwnersCount
    OBVIOUS
  <2>1. CASE q = r
    BY <2>1
  <2>2. CASE q # r
    <3>1. ms'[q] = ms[q]
      BY <2>2
    <3>2. QED
      BY <3>1 DEF Within
  <2>3. QED
    BY <2>1, <2>2
<1>2. \A u \in Users : \A m \in ToSet(copies'[u]) : Len(m.owners) <= OwnersCount
  BY DEF Within, CopiesWithinCount
<1>3. QED
  BY <1>1, <1>2 DEF Within, CopiesWithinCount

-----------------------------------------------------------------------------
(* What a request in progress has to keep.                                   *)

\* CopiesAgree and StatusesAgree when the users of S are still to be written and no
\* report is handled.
AgreeBut(S) ==
    /\ \A u \in Holders : Len(copies[u]) = 1
    /\ \A m, n \in Found : m.creator = n.creator
    /\ \A u \in Holders \ S : ToSet(Head(copies[u]).owners) = Holders /\ Distinct(Head(copies[u]).owners)

StatusBut(S) ==
    /\ \A u, v \in Holders \ S : Head(copies[u]).status = Head(copies[v]).status
    /\ \A u, v \in Holders : Head(copies[u]).contract = Head(copies[v]).contract
    /\ \A u \in Holders \ S : Fits(Head(copies[u]).status, Len(Head(copies[u]).owners))

\* Of several requests only the one that is served is under way.
LEMMA Solo ==
    ASSUME MultisigInv, NEW r \in Open, ~mixed
    PROVE  /\ \A q \in Requests \ {r} : at[q] \in {"idle", "done"} /\ Late(q) = {}
           /\ Ready = Holders \ Late(r) /\ AgreeBut(Late(r)) /\ Carried(r)
           /\ ~raced => deploy = "idle" /\ StatusBut(Late(r)) /\ Given(r)
<1> USE DEF MultisigInv
<1>1. \A q \in Requests \ {r} : at[q] \in {"idle", "done"}
  BY DEF Alone, Open
<1>2. \A q \in Requests \ {r} : Late(q) = {}
  BY <1>1 DEF Control, Late
<1>3. r \in Requests
  BY DEF Open
<1>4. Ready = Holders \ Late(r)
  BY <1>2, <1>3 DEF Ready
<1>5. AgreeBut(Late(r)) /\ Carried(r)
  BY <1>3, <1>4 DEF Owners, CopiesAgree, AgreeBut
<1>6. ~raced => deploy = "idle" /\ StatusBut(Late(r)) /\ Given(r)
  <2> SUFFICES ASSUME ~raced PROVE deploy = "idle" /\ StatusBut(Late(r)) /\ Given(r)
    OBVIOUS
  <2>1. deploy = "idle"
    BY DEF Apart
  <2>2. \A u : ~Waits(u)
    BY <2>1 DEF Waits
  <2>3. StatusesAgree /\ Given(r)
    BY <1>3 DEF Statuses
  <2>4. StatusBut(Late(r))
    BY <1>4, <2>2, <2>3 DEF StatusesAgree, StatusBut
  <2>5. QED
    BY <2>1, <2>3, <2>4
<1>7. QED
  BY <1>1, <1>2, <1>4, <1>5, <1>6

\* The rest is as it was: it is enough to look at the request and the copies.
LEMMA RequestKeeps ==
    ASSUME MultisigInv, NEW r \in Open, TypeOK', Within', Control',
           \A q \in Requests \ {r} : /\ at'[q] = at[q] /\ ms'[q] = ms[q]
                                     /\ given'[q] = given[q] /\ todo'[q] = todo[q],
           UNCHANGED <<members, deploy, event, left, matched, events, mixed, raced>>, vain => vain',
           ~mixed => AgreeBut(Late(r))' /\ Carried(r)',
           ~mixed /\ ~raced => StatusBut(Late(r))' /\ Given(r)'
    PROVE  MultisigInv'
<1>1. r \in Requests
  BY DEF Open
<1>2. Open' \subseteq Open
  BY DEF Open
<1>3. Alone' /\ Apart'
  BY <1>2 DEF MultisigInv, Alone, Apart
<1>4. ASSUME ~mixed PROVE \A q \in Requests \ {r} : at[q] \in {"idle", "done"} /\ Late(q)' = {}
  <2>1. \A q \in Requests \ {r} : at[q] \in {"idle", "done"} /\ Late(q) = {}
    BY <1>4, Solo
  <2>2. QED
    BY <2>1 DEF Late
<1>5. ASSUME ~mixed PROVE Ready' = Holders' \ Late(r)'
  BY <1>1, <1>4, <1>5 DEF Ready
<1>6. Owners'
  <2> SUFFICES ASSUME ~mixed PROVE CopiesAgree' /\ \A q \in Requests : Carried(q)'
    BY DEF Owners
  <2>1. CopiesAgree'
    BY <1>5 DEF CopiesAgree, AgreeBut
  <2>2. \A q \in Requests \ {r} : at'[q] \in {"idle", "done"}
    BY <1>4
  <2>3. \A q \in Requests \ {r} : Carried(q)'
    BY <2>2 DEF Carried, Joining
  <2>4. QED
    BY <2>1, <2>3
<1>7. Statuses'
  <2> SUFFICES ASSUME ~mixed, ~raced
               PROVE  StatusesAgree' /\ (\A q \in Requests : Given(q)') /\ Deploying'
    BY DEF Statuses
  <2>1. deploy = "idle"
    BY Solo
  <2>2. \A u : ~Waits(u)'
    BY <2>1 DEF Waits
  <2>3. StatusesAgree'
    BY <1>5, <2>2 DEF StatusesAgree, StatusBut
  <2>4. \A q \in Requests \ {r} : Given(q)'
    <3>1. \A q \in Requests \ {r} : at'[q] \in {"idle", "done"} /\ at[q] = at'[q]
      BY <1>4
    <3>2. \A q \in Requests : Given(q)
      BY DEF MultisigInv, Statuses
    <3>3. QED
      BY <3>1, <3>2 DEF Given, Joining
  <2>5. Deploying'
    <3>1. ~matched
      BY <2>1 DEF MultisigInv, Statuses, Deploying
    <3>2. QED
      BY <2>1, <3>1 DEF Deploying
  <2>6. QED
    BY <2>3, <2>4, <2>5
<1>8. QED
  BY <1>3, <1>6, <1>7 DEF MultisigInv

-----------------------------------------------------------------------------
(* Requests.                                                                 *)

\* A handler that replies without a change leaves the copies as they were.
LEMMA ReplyKeeps ==
    ASSUME MultisigInv, NEW r \in Open, Reply(r), todo[r] = {}, Late(r) = {},
           UNCHANGED <<copies, todo, members, deploy, event, left, matched, events, mixed, raced, vain>>
    PROVE  MultisigInv'
<1> USE DEF MultisigInv
<1>1. r \in Requests /\ r.by \in Users
  BY MultisigAssumption DEF Open
<1>2. /\ at' = [at EXCEPT ![r] = "done"] /\ ms' = [ms EXCEPT ![r] = NewCopy(r.by)]
      /\ given' = [given EXCEPT ![r] = "WaitingForJoin"]
  BY DEF Reply, goTo
<1>3. /\ NewCopy(r.by) \in Copy /\ Len(NewCopy(r.by).owners) = 1
  BY <1>1, NewCopyTyped
<1>4. /\ at'[r] = "done" /\ given'[r] = "WaitingForJoin" /\ ms'[r] = NewCopy(r.by)
      /\ \A q \in Requests \ {r} : at'[q] = at[q] /\ ms'[q] = ms[q] /\ given'[q] = given[q]
  BY <1>1, <1>2 DEF TypeOK
<1>5. TypeOK'
  <2>1. \A q \in Requests : ListRight(q)'
    BY <1>4 DEF TypeOK, ListRight
  <2>2. ms' \in [Requests -> Copy] /\ given' \in [Requests -> Status]
    BY <1>2, <1>3 DEF TypeOK, Status
  <2>3. QED
    BY <1>2, <2>1, <2>2 DEF TypeOK
<1>6. Within'
  <2>1. 1 <= OwnersCount
    BY TwoOwners
  <2>2. Len(ms'[r].owners) <= OwnersCount
    BY <1>3, <1>4, <2>1
  <2>3. QED
    BY <1>1, <1>4, <2>2, WithinKeeps
<1>7. Control'
  BY <1>4 DEF Control
<1>8. Late(r)' = {} /\ Holders' = Holders /\ Found' = Found
  BY <1>4 DEF Late, Holders, Found
<1>9. ~mixed => AgreeBut(Late(r))' /\ Carried(r)'
  BY <1>4, <1>8, Solo DEF AgreeBut, Carried, Joining
<1>10. ~mixed /\ ~raced => StatusBut(Late(r))' /\ Given(r)'
  BY <1>4, <1>8, Solo DEF StatusBut, Fits, Given, Joining
<1>11. QED
  BY <1>4, <1>5, <1>6, <1>7, <1>9, <1>10, RequestKeeps

\* Nobody has a code that is free, as long as one request is served.
LEMMA CreateCheckKeeps ==
    ASSUME MultisigInv, NEW r \in Requests, CreateCheck(r)
    PROVE  MultisigInv'
<1> USE DEF MultisigInv
<1>1. /\ r \in Open /\ r.op = "create" /\ at[r] = "check" /\ todo[r] = {} /\ Late(r) = {}
      /\ UNCHANGED <<copies, todo, members, deploy, event, left, matched, events, mixed, raced, vain>>
  BY DEF CreateCheck, Open, Control, Late, deployVars, historyVars
<1>2. CASE Reply(r)
  BY <1>1, <1>2, ReplyKeeps
<1>3. CASE Holders = {} /\ goTo(r, "push") /\ UNCHANGED <<ms, given>>
  <2>1. /\ at'[r] = "push" /\ ms' = ms /\ given' = given /\ at' = [at EXCEPT ![r] = "push"]
        /\ \A q \in Requests \ {r} : at'[q] = at[q]
    BY <1>3 DEF goTo, TypeOK
  <2>2. TypeOK'
    BY <1>1, <2>1 DEF TypeOK, ListRight
  <2>3. Within' /\ Control'
    BY <1>1, <2>1 DEF Within, CopiesWithinCount, Control
  <2>4. Late(r)' = {} /\ Holders' = Holders /\ Found' = Found
    BY <1>1, <2>1 DEF Late, Holders, Found
  <2>5. ~mixed => AgreeBut(Late(r))' /\ Carried(r)'
    BY <1>1, <1>3, <2>1, <2>4, Solo DEF AgreeBut, Carried, Joining
  <2>6. ~mixed /\ ~raced => StatusBut(Late(r))' /\ Given(r)'
    BY <1>1, <2>1, <2>4, Solo DEF StatusBut, Fits, Given, Joining
  <2>7. QED
    BY <1>1, <2>1, <2>2, <2>3, <2>5, <2>6, RequestKeeps
<1>4. QED
  BY <1>2, <1>3 DEF CreateCheck

\* The first copy has its user for the only owner.
LEMMA CreatePushKeeps ==
    ASSUME MultisigInv, NEW r \in Requests, CreatePush(r)
    PROVE  MultisigInv'
<1> USE DEF MultisigInv
<1>1. /\ r \in Open /\ r.op = "create" /\ at[r] = "push" /\ r.by \in Users
      /\ copies' = [copies EXCEPT ![r.by] = Append(@, NewCopy(r.by))]
      /\ UNCHANGED <<todo, members, deploy, event, left, matched, events, mixed, raced, vain>>
  BY MultisigAssumption DEF CreatePush, Open, deployVars, historyVars
<1>2. /\ at' = [at EXCEPT ![r] = "done"] /\ ms' = [ms EXCEPT ![r] = NewCopy(r.by)]
      /\ given' = [given EXCEPT ![r] = "WaitingForJoin"]
  BY DEF CreatePush, Reply, goTo
<1>3. /\ NewCopy(r.by) \in Copy /\ NewCopy(r.by).owners = <<r.by>> /\ Len(NewCopy(r.by).owners) = 1
      /\ NewCopy(r.by).status = "WaitingForJoin" /\ ToSet(<<r.by>>) = {r.by} /\ Distinct(<<r.by>>)
  BY <1>1, NewCopyTyped
<1>4. /\ at'[r] = "done" /\ given'[r] = "WaitingForJoin" /\ ms'[r] = NewCopy(r.by)
      /\ \A q \in Requests \ {r} : at'[q] = at[q] /\ ms'[q] = ms[q] /\ given'[q] = given[q]
  BY <1>1, <1>2 DEF TypeOK
<1>5. /\ copies' \in [Users -> Seq(Copy)] /\ Holders' = Holders \cup {r.by}
      /\ \A v \in Users : v # r.by => copies'[v] = copies[v]
      /\ ToSet(copies'[r.by]) = ToSet(copies[r.by]) \cup {NewCopy(r.by)}
      /\ r.by \notin Holders => Len(copies'[r.by]) = 1 /\ Head(copies'[r.by]) = NewCopy(r.by)
  BY <1>1, <1>3, PutLast
<1>6. TypeOK'
  <2>1. \A q \in Requests : ListRight(q)'
    BY <1>4 DEF TypeOK, ListRight
  <2>2. ms' \in [Requests -> Copy] /\ given' \in [Requests -> Status]
    BY <1>2, <1>3 DEF TypeOK, Status
  <2>3. QED
    BY <1>1, <1>2, <1>5, <2>1, <2>2 DEF TypeOK
<1>7. Within'
  <2>1. 1 <= OwnersCount
    BY TwoOwners
  <2>2. Len(ms'[r].owners) <= OwnersCount /\ Len(NewCopy(r.by).owners) <= OwnersCount
    BY <1>1, <1>4, <2>1, NewCopyTyped
  <2>3. ASSUME NEW u \in Users, NEW m \in ToSet(copies'[u])
        PROVE  m \in ToSet(copies[u]) \/ m = NewCopy(r.by)
    <3>1. CASE u = r.by
      BY <1>5, <2>3, <3>1
    <3>2. CASE u # r.by
      BY <1>5, <2>3, <3>2
    <3>3. QED
      BY <3>1, <3>2
  <2>4. QED
    BY <1>4, <2>2, <2>3, WithinKeeps
<1>8. Control'
  BY <1>1, <1>4 DEF Control
<1>9. Late(r)' = todo[r]
  BY <1>1, <1>4 DEF Late
<1>10. ASSUME ~mixed
       PROVE  /\ Holders' = {r.by} /\ Len(copies'[r.by]) = 1 /\ Head(copies'[r.by]) = NewCopy(r.by)
              /\ Found' = {NewCopy(r.by)}
  <2>1. Holders = {}
    BY <1>1, <1>10, Solo DEF Carried
  <2>2. QED
    BY <1>5, <2>1 DEF Found
<1>11. ~mixed => AgreeBut(Late(r))' /\ Carried(r)'
  BY <1>3, <1>4, <1>10 DEF AgreeBut, Carried, Joining
<1>12. ~mixed /\ ~raced => StatusBut(Late(r))' /\ Given(r)'
  <2>1. Fits("WaitingForJoin", 1)'
    BY TwoOwners DEF Fits
  <2>2. ~mixed => StatusBut(Late(r))'
    BY <1>3, <1>10, <2>1 DEF StatusBut
  <2>3. Given(r)'
    BY <1>1, <1>4 DEF Given, Joining
  <2>4. QED
    BY <2>2, <2>3
<1>13. QED
  BY <1>1, <1>4, <1>6, <1>7, <1>8, <1>11, <1>12, RequestKeeps

\* Nobody joins who has the wallet, as long as one request is served.
LEMMA JoinCheckKeeps ==
    ASSUME MultisigInv, NEW r \in Requests, JoinCheck(r)
    PROVE  MultisigInv'
<1> USE DEF MultisigInv
<1>1. /\ r \in Open /\ r.op = "join" /\ at[r] = "check" /\ todo[r] = {} /\ Late(r) = {}
      /\ UNCHANGED <<copies, todo, members, deploy, event, left, matched, events, mixed, raced, vain>>
  BY DEF JoinCheck, Open, Control, Late, deployVars, historyVars
<1>2. CASE Reply(r)
  BY <1>1, <1>2, ReplyKeeps
<1>3. CASE r.by \notin Holders /\ goTo(r, "read") /\ UNCHANGED <<ms, given>>
  <2>1. /\ at'[r] = "read" /\ ms' = ms /\ given' = given /\ at' = [at EXCEPT ![r] = "read"]
        /\ \A q \in Requests \ {r} : at'[q] = at[q]
    BY <1>3 DEF goTo, TypeOK
  <2>2. TypeOK'
    BY <1>1, <2>1 DEF TypeOK, ListRight
  <2>3. Within' /\ Control'
    BY <1>1, <2>1 DEF Within, CopiesWithinCount, Control
  <2>4. Late(r)' = {} /\ Holders' = Holders /\ Found' = Found
    BY <1>1, <2>1 DEF Late, Holders, Found
  <2>5. ~mixed => AgreeBut(Late(r))' /\ Carried(r)'
    BY <1>1, <1>3, <2>1, <2>4, Solo DEF AgreeBut, Carried, Joining
  <2>6. ~mixed /\ ~raced => StatusBut(Late(r))' /\ Given(r)'
    BY <1>1, <2>1, <2>4, Solo DEF StatusBut, Fits, Given, Joining
  <2>7. QED
    BY <1>1, <2>1, <2>2, <2>3, <2>5, <2>6, RequestKeeps
<1>4. QED
  BY <1>2, <1>3 DEF JoinCheck

\* The list that was read, with the sender at its end, is what it will be.
LEMMA JoinReadKeeps ==
    ASSUME MultisigInv, NEW r \in Requests, JoinRead(r)
    PROVE  MultisigInv'
<1> USE DEF MultisigInv
<1>1. /\ r \in Open /\ r.op = "join" /\ at[r] = "read" /\ todo[r] = {} /\ Late(r) = {} /\ r.by \in Users
      /\ UNCHANGED <<copies, todo, members, deploy, event, left, matched, events, mixed, raced, vain>>
  BY MultisigAssumption DEF JoinRead, Open, Control, Late, deployVars, historyVars
<1>2. CASE Reply(r)
  BY <1>1, <1>2, ReplyKeeps
<1>3. ASSUME NEW m \in Found, Len(m.owners) < OwnersCount,
             ms' = [ms EXCEPT ![r] = [m EXCEPT !.owners = Append(@, r.by),
                                       !.status = IF Len(m.owners) + 1 = OwnersCount THEN "AllJoined" ELSE @]],
             given' = [given EXCEPT ![r] = IF Len(m.owners) + 1 = OwnersCount
                                           THEN "AllJoined" ELSE "WaitingForJoin"],
             goTo(r, "users")
      PROVE  MultisigInv'
  <2> DEFINE last == Len(m.owners) + 1 = OwnersCount
             e == [m EXCEPT !.owners = Append(@, r.by), !.status = IF last THEN "AllJoined" ELSE @]
             g == IF last THEN "AllJoined" ELSE "WaitingForJoin"
  <2>1. PICK u \in Holders : m = Head(copies[u])
    BY <1>3 DEF Found
  <2>2. m \in Copy /\ m.owners \in Seq(Users) /\ Len(m.owners) \in Nat
    BY <2>1, CopyHeld, LenProperties DEF Copy
  <2>3. /\ Append(m.owners, r.by) \in Seq(Users) /\ Len(Append(m.owners, r.by)) = Len(m.owners) + 1
        /\ Append(m.owners, r.by)[Len(m.owners) + 1] = r.by
        /\ ToSet(Append(m.owners, r.by)) = ToSet(m.owners) \cup {r.by}
        /\ Distinct(m.owners) /\ r.by \notin ToSet(m.owners) => Distinct(Append(m.owners, r.by))
    BY <1>1, <2>2, AppendSet
  <2>4. /\ e \in Copy /\ e.owners = Append(m.owners, r.by) /\ e.creator = m.creator
        /\ e.contract = m.contract /\ e.status = IF last THEN "AllJoined" ELSE m.status
    BY <2>2, <2>3 DEF Copy, Status
  <2>5. /\ at'[r] = "users" /\ ms'[r] = e /\ given'[r] = g /\ at' = [at EXCEPT ![r] = "users"]
        /\ \A q \in Requests \ {r} : at'[q] = at[q] /\ ms'[q] = ms[q] /\ given'[q] = given[q]
        /\ ms' = [ms EXCEPT ![r] = e] /\ given' = [given EXCEPT ![r] = g] /\ g \in Status
    BY <1>3 DEF goTo, TypeOK, Status
  <2> HIDE DEF e, g, last
  <2>6. TypeOK'
    <3>1. Last(e.owners) = r.by
      BY <2>3, <2>4 DEF Last
    <3>2. \A q \in Requests : ListRight(q)'
      BY <1>1, <2>5, <3>1 DEF TypeOK, ListRight
    <3>3. QED
      BY <1>1, <2>4, <2>5, <3>2 DEF TypeOK
  <2>7. Within'
    <3>1. Len(ms'[r].owners) <= OwnersCount
      BY <1>3, <2>2, <2>3, <2>4, <2>5, TwoOwners
    <3>2. QED
      BY <1>1, <2>5, <3>1, WithinKeeps
  <2>8. Control'
    BY <1>1, <2>5 DEF Control
  <2>9. Late(r)' = {} /\ Holders' = Holders /\ Found' = Found
    BY <1>1, <2>5 DEF Late, Holders, Found
  <2>10. ASSUME ~mixed
         PROVE  /\ ToSet(m.owners) = Holders /\ Distinct(m.owners) /\ r.by \notin Holders
                /\ \A n \in Found : n.creator = m.creator
    BY <1>1, <1>3, <2>1, <2>10, Solo DEF AgreeBut, Carried
  <2>11. ~mixed => AgreeBut(Late(r))' /\ Carried(r)'
    <3>1. ~mixed => AgreeBut(Late(r))'
      BY <1>1, <2>9, Solo DEF AgreeBut
    <3>2. ~mixed => Carried(r)'
      BY <1>1, <2>3, <2>4, <2>5, <2>9, <2>10 DEF Carried, Joining
    <3>3. QED
      BY <3>1, <3>2
  <2>12. ~mixed /\ ~raced => StatusBut(Late(r))' /\ Given(r)'
    <3> SUFFICES ASSUME ~mixed, ~raced PROVE StatusBut(Late(r))' /\ Given(r)'
      OBVIOUS
    <3>1. StatusBut(Late(r))'
      BY <1>1, <2>9, Solo DEF StatusBut, Fits
    <3>2. /\ Fits(m.status, Len(m.owners))
          /\ \A v \in Holders : Head(copies[v]).contract = m.contract
      BY <1>1, <2>1, Solo DEF StatusBut
    <3>3. e.status = g
      BY <1>3, <2>2, <2>4, <3>2, TwoOwners DEF Fits, g
    <3>4. Cardinality(ToSet(e.owners)) = Len(m.owners) + 1
      BY <2>3, <2>4, <2>10 DEF Distinct
    <3>5. Fits(g, Len(m.owners) + 1)
      BY <1>3, <2>2, TwoOwners DEF Fits, g, last
    <3>6. Fits(given[r], Cardinality(ToSet(ms[r].owners)))'
      BY <1>1, <2>5, <3>4, <3>5 DEF Fits
    <3>7. \A n \in Found : n.contract = e.contract
      BY <2>4, <3>2 DEF Found
    <3>8. QED
      BY <1>1, <2>5, <2>9, <3>1, <3>3, <3>6, <3>7 DEF Given, Joining
  <2>13. QED
    BY <1>1, <2>5, <2>6, <2>7, <2>8, <2>11, <2>12, RequestKeeps
<1>4. QED
  BY <1>2, <1>3 DEF JoinRead

\* The sender's first copy lists the users who hold one now.
LEMMA JoinPushKeeps ==
    ASSUME MultisigInv, NEW r \in Requests, JoinPush(r)
    PROVE  MultisigInv'
<1> USE DEF MultisigInv
<1>1. /\ r \in Open /\ r.op = "join" /\ at[r] = "push" /\ r.by \in Users /\ Late(r) = todo[r]
      /\ ms[r] \in Copy /\ copies' = [copies EXCEPT ![r.by] = Append(@, ms[r])]
      /\ UNCHANGED <<ms, given, todo, members, deploy, event, left, matched, events, mixed, raced, vain>>
  BY MultisigAssumption DEF JoinPush, Open, Late, deployVars, historyVars, TypeOK
<1>2. /\ at' = [at EXCEPT ![r] = "update"] /\ at'[r] = "update"
      /\ \A q \in Requests \ {r} : at'[q] = at[q]
  BY DEF JoinPush, goTo, TypeOK
<1>3. /\ copies' \in [Users -> Seq(Copy)] /\ Holders' = Holders \cup {r.by}
      /\ \A v \in Users : v # r.by => copies'[v] = copies[v]
      /\ ToSet(copies'[r.by]) = ToSet(copies[r.by]) \cup {ms[r]}
      /\ r.by \notin Holders => Len(copies'[r.by]) = 1 /\ Head(copies'[r.by]) = ms[r]
  BY <1>1, PutLast
<1>4. TypeOK'
  <2>1. \A q \in Requests : ListRight(q)'
    BY <1>1, <1>2 DEF TypeOK, ListRight
  <2>2. QED
    BY <1>1, <1>2, <1>3, <2>1 DEF TypeOK
<1>5. Within'
  <2>1. Len(ms[r].owners) <= OwnersCount /\ ms'[r] = ms[r]
    BY <1>1 DEF Within
  <2>2. ASSUME NEW u \in Users, NEW m \in ToSet(copies'[u])
        PROVE  m \in ToSet(copies[u]) \/ m = ms[r]
    <3>1. CASE u = r.by
      BY <1>3, <2>2, <3>1
    <3>2. CASE u # r.by
      BY <1>3, <2>2, <3>2
    <3>3. QED
      BY <3>1, <3>2
  <2>3. QED
    BY <1>1, <2>1, <2>2, WithinKeeps
<1>6. Control'
  BY <1>1, <1>2 DEF Control
<1>7. Late(r)' = todo[r]
  BY <1>1, <1>2 DEF Late
<1>8. ASSUME ~mixed
      PROVE  /\ r.by \notin Holders /\ Holders \subseteq todo[r] /\ Holders' \ todo[r] \subseteq {r.by}
             /\ Len(copies'[r.by]) = 1 /\ Head(copies'[r.by]) = ms[r]
             /\ Found' = Found \cup {ms[r]}
             /\ ToSet(ms[r].owners) = Holders' /\ Distinct(ms[r].owners)
             /\ \A m \in Found : m.creator = ms[r].creator
  <2>1. /\ r.by \notin Holders /\ Holders \subseteq todo[r]
        /\ ToSet(ms[r].owners) = Holders' /\ Distinct(ms[r].owners)
        /\ \A m \in Found : m.creator = ms[r].creator
    BY <1>1, <1>3, <1>8, Solo DEF Carried, Joining
  <2>2. \A v \in Holders : v \in Users /\ v # r.by
    BY <2>1 DEF Holders
  <2>3. Found' = Found \cup {ms[r]}
    BY <1>3, <2>1, <2>2 DEF Found
  <2>4. QED
    BY <1>3, <2>1, <2>3
<1>9. ~mixed => AgreeBut(Late(r))' /\ Carried(r)'
  <2> SUFFICES ASSUME ~mixed PROVE AgreeBut(Late(r))' /\ Carried(r)'
    OBVIOUS
  <2>1. \A u \in Holders' : Len(copies'[u]) = 1
    <3>1. \A u \in Holders : Len(copies[u]) = 1 /\ u \in Users
      BY <1>1, Solo DEF AgreeBut, Holders
    <3>2. QED
      BY <1>3, <1>8, <3>1
  <2>2. \A m, n \in Found' : m.creator = n.creator
    BY <1>1, <1>8, Solo DEF AgreeBut
  <2>3. AgreeBut(Late(r))'
    BY <1>7, <1>8, <2>1, <2>2 DEF AgreeBut
  <2>4. Carried(r)'
    BY <1>1, <1>2, <1>8 DEF Carried, Joining
  <2>5. QED
    BY <2>3, <2>4
<1>10. ~mixed /\ ~raced => StatusBut(Late(r))' /\ Given(r)'
  <2> SUFFICES ASSUME ~mixed, ~raced PROVE StatusBut(Late(r))' /\ Given(r)'
    OBVIOUS
  <2>1. /\ ms[r].status = given[r] /\ \A m \in Found : m.contract = ms[r].contract
        /\ Fits(given[r], Cardinality(ToSet(ms[r].owners)))
    BY <1>1, Solo DEF Given, Joining
  <2>2. Fits(ms[r].status, Len(ms[r].owners))'
    BY <1>1, <1>8, <2>1 DEF Fits, Distinct
  <2>3. \A u \in Holders' : Head(copies'[u]).contract = ms[r].contract
    BY <1>8, <2>1 DEF Found
  <2>4. \A u \in Holders' \ todo[r] : Head(copies'[u]) = ms[r]
    BY <1>8
  <2>5. StatusBut(Late(r))'
    BY <1>1, <1>7, <2>2, <2>3, <2>4 DEF StatusBut
  <2>6. Given(r)'
    BY <1>1, <1>2, <1>7, <2>1, <2>4 DEF Given, Joining, Fits
  <2>7. QED
    BY <2>5, <2>6
<1>11. QED
  BY <1>1, <1>2, <1>4, <1>5, <1>6, <1>9, <1>10, RequestKeeps

\* A list without one of its owners is not full.
LEMMA WithoutOwner ==
    ASSUME TypeOK, Within, NEW m \in Found, NEW u \in Users
    PROVE  /\ m \in Copy /\ Without(m.owners, u) \in Seq(Users)
           /\ Len(Without(m.owners, u)) <= OwnersCount
           /\ ToSet(Without(m.owners, u)) = ToSet(m.owners) \ {u}
           /\ Cardinality(ToSet(Without(m.owners, u))) \in Nat
           /\ u \in ToSet(m.owners) => Cardinality(ToSet(Without(m.owners, u))) < OwnersCount
<1>1. PICK v \in Holders : m = Head(copies[v])
  BY DEF Found
<1>2. m \in Copy /\ m \in ToSet(copies[v]) /\ v \in Users
  BY <1>1, CopyHeld
<1>3. m.owners \in Seq(Users) /\ Len(m.owners) <= OwnersCount
  BY <1>2 DEF Copy, Within, CopiesWithinCount
<1>4. /\ ToSet(m.owners) \subseteq Users /\ IsFiniteSet(ToSet(m.owners)) /\ Len(m.owners) \in Nat
      /\ Cardinality(ToSet(m.owners)) \in Nat /\ Cardinality(ToSet(m.owners)) <= Len(m.owners)
  BY <1>3, ListSet
<1>5. /\ Without(m.owners, u) \in Seq(Users) /\ Len(Without(m.owners, u)) <= Len(m.owners)
      /\ ToSet(Without(m.owners, u)) = ToSet(m.owners) \cap (Users \ {u})
  BY <1>3, AmongSet DEF Without
<1>6. ToSet(Without(m.owners, u)) = ToSet(m.owners) \ {u}
  BY <1>4, <1>5
<1>7. Len(Without(m.owners, u)) <= OwnersCount /\ Cardinality(ToSet(Without(m.owners, u))) \in Nat
  <2>1. Len(Without(m.owners, u)) \in Nat /\ Cardinality(ToSet(Without(m.owners, u))) \in Nat
    BY <1>5, ListSet
  <2>2. QED
    BY <1>3, <1>4, <1>5, <2>1, TwoOwners
<1>8. u \in ToSet(m.owners) => Cardinality(ToSet(Without(m.owners, u))) < OwnersCount
  <2>1. u \in ToSet(m.owners) =>
          Cardinality(ToSet(m.owners) \ {u}) = Cardinality(ToSet(m.owners)) - 1
    BY <1>4, FS_RemoveElement
  <2>2. QED
    BY <1>3, <1>4, <1>6, <2>1, TwoOwners
<1>9. QED
  BY <1>2, <1>5, <1>6, <1>7, <1>8

\* The sender is the only one who holds a copy and is not in the list.
LEMMA LeaveReadKeeps ==
    ASSUME MultisigInv, NEW r \in Requests, LeaveRead(r)
    PROVE  MultisigInv'
<1> USE DEF MultisigInv
<1>1. /\ r \in Open /\ r.op = "leave" /\ at[r] = "check" /\ todo[r] = {} /\ Late(r) = {} /\ r.by \in Users
      /\ UNCHANGED <<copies, todo, members, deploy, event, left, matched, events, mixed, raced, vain>>
  BY MultisigAssumption DEF LeaveRead, Open, Control, Late, deployVars, historyVars
<1>2. CASE Reply(r)
  BY <1>1, <1>2, ReplyKeeps
<1>3. ASSUME NEW m \in Found, r.by \in ToSet(m.owners),
             ms' = [ms EXCEPT ![r] = [m EXCEPT !.owners = Without(@, r.by)]],
             goTo(r, "drop"), given' = given
      PROVE  MultisigInv'
  <2> DEFINE e == [m EXCEPT !.owners = Without(@, r.by)]
  <2>1. /\ m \in Copy /\ Without(m.owners, r.by) \in Seq(Users)
        /\ Len(Without(m.owners, r.by)) <= OwnersCount
        /\ ToSet(Without(m.owners, r.by)) = ToSet(m.owners) \ {r.by}
        /\ Cardinality(ToSet(Without(m.owners, r.by))) \in Nat
        /\ Cardinality(ToSet(Without(m.owners, r.by))) < OwnersCount
    BY <1>1, <1>3, WithoutOwner
  <2>2. e \in Copy /\ e.owners = Without(m.owners, r.by)
    BY <2>1 DEF Copy
  <2>3. /\ at'[r] = "drop" /\ ms'[r] = e /\ at' = [at EXCEPT ![r] = "drop"]
        /\ \A q \in Requests \ {r} : at'[q] = at[q] /\ ms'[q] = ms[q]
        /\ ms' = [ms EXCEPT ![r] = e]
    BY <1>3 DEF goTo, TypeOK
  <2> HIDE DEF e
  <2>4. TypeOK'
    <3>1. r.by \notin ToSet(e.owners)
      BY <2>1, <2>2
    <3>2. \A q \in Requests : ListRight(q)'
      BY <1>1, <2>3, <3>1 DEF TypeOK, ListRight
    <3>3. QED
      BY <1>1, <1>3, <2>2, <2>3, <3>2 DEF TypeOK
  <2>5. Within'
    <3>1. Len(ms'[r].owners) <= OwnersCount
      BY <2>1, <2>2, <2>3
    <3>2. QED
      BY <1>1, <2>3, <3>1, WithinKeeps
  <2>6. Control'
    BY <1>1, <2>3 DEF Control
  <2>7. Late(r)' = {} /\ Holders' = Holders /\ Found' = Found
    BY <1>1, <2>3 DEF Late, Holders, Found
  <2>8. ~mixed => AgreeBut(Late(r))' /\ Carried(r)'
    <3>1. ~mixed => ToSet(m.owners) = Holders
      BY <1>1, <1>3, Solo DEF AgreeBut, Found
    <3>2. ~mixed => AgreeBut(Late(r))'
      BY <1>1, <2>7, Solo DEF AgreeBut
    <3>3. ~mixed => Carried(r)'
      BY <1>1, <2>1, <2>2, <2>3, <2>7, <3>1 DEF Carried, Joining
    <3>4. QED
      BY <3>2, <3>3
  <2>9. ~mixed /\ ~raced => StatusBut(Late(r))' /\ Given(r)'
    <3>1. ~mixed /\ ~raced => StatusBut(Late(r))'
      BY <1>1, <2>7, Solo DEF StatusBut, Fits
    <3>2. ~mixed /\ ~raced => given[r] = "WaitingForJoin"
      BY <1>1, Solo DEF Given
    <3>3. Fits("WaitingForJoin", Cardinality(ToSet(e.owners)))'
      <4> DEFINE n == Cardinality(ToSet(e.owners))
      <4>1. n \in Nat /\ n < OwnersCount
        BY <2>1, <2>2
      <4> HIDE DEF n
      <4>2. n # OwnersCount
        BY <4>1, TwoOwners
      <4>3. Fits("WaitingForJoin", n)'
        BY <4>2 DEF Fits
      <4>4. QED
        BY <4>3 DEF n
    <3>4. ~mixed /\ ~raced => Given(r)'
      BY <1>1, <1>3, <2>3, <3>2, <3>3 DEF Given, Joining
    <3>5. QED
      BY <3>1, <3>4
  <2>10. QED
    BY <1>1, <1>3, <2>3, <2>4, <2>5, <2>6, <2>8, <2>9, RequestKeeps
<1>4. QED
  BY <1>1, <1>2, <1>3 DEF LeaveRead

\* Nobody holds a copy that is not in the list but the kicked user.
LEMMA AdminReadKeeps ==
    ASSUME MultisigInv, NEW r \in Requests, AdminRead(r)
    PROVE  MultisigInv'
<1> USE DEF MultisigInv
<1>1. /\ r \in Open /\ r.op \in {"kick", "delete"} /\ at[r] = "check" /\ todo[r] = {} /\ Late(r) = {}
      /\ r.target \in Users
      /\ UNCHANGED <<copies, todo, members, deploy, event, left, matched, events, mixed, raced>>
  BY MultisigAssumption DEF AdminRead, Open, Control, Late, deployVars
<1>2. CASE Reply(r) /\ UNCHANGED vain
  BY <1>1, <1>2, ReplyKeeps
<1>3. ASSUME NEW m \in Found,
             ms' = [ms EXCEPT ![r] = [m EXCEPT !.owners = Without(@, r.target)]],
             vain' = (vain \/ (r.op = "kick" /\ r.target \notin ToSet(m.owners))),
             goTo(r, "users"), given' = given
      PROVE  MultisigInv'
  <2> DEFINE e == [m EXCEPT !.owners = Without(@, r.target)]
  <2>1. /\ m \in Copy /\ Without(m.owners, r.target) \in Seq(Users)
        /\ Len(Without(m.owners, r.target)) <= OwnersCount
        /\ ToSet(Without(m.owners, r.target)) = ToSet(m.owners) \ {r.target}
        /\ Cardinality(ToSet(Without(m.owners, r.target))) \in Nat
        /\ r.target \in ToSet(m.owners) =>
             Cardinality(ToSet(Without(m.owners, r.target))) < OwnersCount
    BY <1>1, <1>3, WithoutOwner
  <2>2. e \in Copy /\ e.owners = Without(m.owners, r.target)
    BY <2>1 DEF Copy
  <2>3. /\ at'[r] = "users" /\ ms'[r] = e /\ at' = [at EXCEPT ![r] = "users"]
        /\ \A q \in Requests \ {r} : at'[q] = at[q] /\ ms'[q] = ms[q]
        /\ ms' = [ms EXCEPT ![r] = e]
    BY <1>3 DEF goTo, TypeOK
  <2>4. vain' \in BOOLEAN /\ (vain => vain')
    BY <1>3 DEF TypeOK
  <2> HIDE DEF e
  <2>5. TypeOK'
    <3>1. r.target \notin ToSet(e.owners)
      BY <2>1, <2>2
    <3>2. \A q \in Requests : ListRight(q)'
      BY <1>1, <2>3, <3>1 DEF TypeOK, ListRight
    <3>3. QED
      BY <1>1, <1>3, <2>2, <2>3, <2>4, <3>2 DEF TypeOK
  <2>6. Within'
    <3>1. Len(ms'[r].owners) <= OwnersCount
      BY <2>1, <2>2, <2>3
    <3>2. QED
      BY <1>1, <2>3, <3>1, WithinKeeps
  <2>7. Control'
    BY <1>1, <2>3 DEF Control
  <2>8. Late(r)' = {} /\ Holders' = Holders /\ Found' = Found
    BY <1>1, <2>3 DEF Late, Holders, Found
  <2>9. ~mixed => AgreeBut(Late(r))' /\ Carried(r)'
    <3>1. ~mixed => ToSet(m.owners) = Holders
      BY <1>1, <1>3, Solo DEF AgreeBut, Found
    <3>2. ~mixed => AgreeBut(Late(r))'
      BY <1>1, <2>8, Solo DEF AgreeBut
    <3>3. ~mixed => Carried(r)'
      BY <1>1, <2>1, <2>2, <2>3, <2>8, <3>1 DEF Carried, Joining
    <3>4. QED
      BY <3>2, <3>3
  <2>10. ~mixed /\ ~raced => StatusBut(Late(r))' /\ Given(r)'
    <3>1. ~mixed /\ ~raced => StatusBut(Late(r))'
      BY <1>1, <2>4, <2>8, Solo DEF StatusBut, Fits
    <3>2. ~mixed /\ ~raced => given[r] = "WaitingForJoin"
      BY <1>1, Solo DEF Given
    <3>3. r.op = "kick" => Fits("WaitingForJoin", Cardinality(ToSet(e.owners)))'
      <4> DEFINE n == Cardinality(ToSet(e.owners))
      <4>1. n \in Nat /\ (r.target \in ToSet(m.owners) => n < OwnersCount)
        BY <2>1, <2>2
      <4> HIDE DEF n
      <4>2. r.target \in ToSet(m.owners) => n # OwnersCount
        BY <4>1, TwoOwners
      <4>3. r.op = "kick" => Fits("WaitingForJoin", n)'
        BY <1>3, <4>2 DEF Fits
      <4>4. QED
        BY <4>3 DEF n
    <3>4. ~mixed /\ ~raced => Given(r)'
      BY <1>1, <1>3, <2>3, <3>2, <3>3 DEF Given, Joining
    <3>5. QED
      BY <3>1, <3>4
  <2>11. QED
    BY <1>1, <1>3, <2>3, <2>4, <2>5, <2>6, <2>7, <2>9, <2>10, RequestKeeps
<1>4. QED
  BY <1>1, <1>2, <1>3 DEF AdminRead

\* All who hold a copy now are to be written.
LEMMA FindUsersKeeps ==
    ASSUME MultisigInv, NEW r \in Requests, FindUsers(r)
    PROVE  MultisigInv'
<1> USE DEF MultisigInv
<1> DEFINE p == CASE r.op = "join"   -> "push"
                  [] r.op = "kick"   -> "drop"
                  [] r.op = "leave"  -> "update"
                  [] r.op = "delete" -> "erase"
<1>1. /\ r \in Open /\ r.op \in {"join", "leave", "kick", "delete"} /\ at[r] = "users"
      /\ UNCHANGED <<copies, ms, given, members, deploy, event, left, matched, events, mixed, raced, vain>>
      /\ at' = [at EXCEPT ![r] = p] /\ todo' = [todo EXCEPT ![r] = Holders]
  BY DEF FindUsers, goTo, Open, Control, deployVars, historyVars
<1>2. /\ r.op = "join" => p = "push"
      /\ r.op = "kick" => p = "drop"
      /\ r.op = "leave" => p = "update"
      /\ r.op = "delete" => p = "erase"
      /\ p \in {"push", "drop", "update", "erase"}
  BY <1>1
<1> HIDE DEF p
<1>3. /\ at'[r] = p /\ todo'[r] = Holders /\ Holders \subseteq Users
      /\ \A q \in Requests \ {r} : at'[q] = at[q] /\ todo'[q] = todo[q]
  BY <1>1 DEF TypeOK, Holders
<1>4. TypeOK'
  <2>1. ListRight(r)'
    BY <1>1, <1>2, <1>3 DEF TypeOK, ListRight
  <2>2. \A q \in Requests : ListRight(q)'
    BY <1>1, <1>3, <2>1 DEF TypeOK, ListRight
  <2>3. QED
    BY <1>1, <1>2, <1>3, <2>2 DEF TypeOK
<1>5. Within' /\ Control'
  BY <1>1, <1>2, <1>3 DEF Within, CopiesWithinCount, Control
<1>6. Late(r)' = Holders /\ Holders' = Holders /\ Found' = Found
  BY <1>1, <1>2, <1>3 DEF Late, Holders, Found
<1>7. ~mixed => AgreeBut(Late(r))' /\ Carried(r)'
  <2> SUFFICES ASSUME ~mixed PROVE AgreeBut(Late(r))' /\ Carried(r)'
    OBVIOUS
  <2>1. AgreeBut(Late(r)) /\ Carried(r)
    BY <1>1, Solo
  <2>2. AgreeBut(Late(r))'
    BY <1>1, <1>6, <2>1 DEF AgreeBut
  <2>3. CASE r.op = "join"
    BY <1>1, <1>2, <1>3, <1>6, <2>1, <2>2, <2>3 DEF Carried, Joining
  <2>4. CASE r.op # "join"
    BY <1>1, <1>2, <1>3, <1>6, <2>1, <2>2, <2>4 DEF Carried, Joining
  <2>5. QED
    BY <2>3, <2>4
<1>8. ~mixed /\ ~raced => StatusBut(Late(r))' /\ Given(r)'
  <2> SUFFICES ASSUME ~mixed, ~raced PROVE StatusBut(Late(r))' /\ Given(r)'
    OBVIOUS
  <2>1. StatusBut(Late(r)) /\ Given(r)
    BY <1>1, Solo
  <2>2. StatusBut(Late(r))'
    BY <1>1, <1>6, <2>1 DEF StatusBut
  <2>3. CASE r.op = "join"
    BY <1>1, <1>2, <1>3, <1>6, <2>1, <2>2, <2>3 DEF Given, Joining, Fits
  <2>4. CASE r.op # "join"
    BY <1>1, <1>2, <1>3, <1>6, <2>1, <2>2, <2>4 DEF Given, Joining, Fits
  <2>5. QED
    BY <2>3, <2>4
<1>9. QED
  BY <1>1, <1>3, <1>4, <1>5, <1>7, <1>8, RequestKeeps

\* What a user loses takes nothing from the others.
LEMMA DropAgrees ==
    ASSUME TypeOK, NEW u \in Users, copies' = [copies EXCEPT ![u] = <<>>],
           \A v \in Holders : Len(copies[v]) = 1,
           \A m, n \in Found : m.creator = n.creator
    PROVE  /\ \A v \in Holders' : Len(copies'[v]) = 1
           /\ \A m, n \in Found' : m.creator = n.creator
           /\ \A v \in Holders' : v \in Holders /\ copies'[v] = copies[v]
           /\ Found' \subseteq Found
<1>1. Holders' = Holders \ {u} /\ \A v \in Users : v # u => copies'[v] = copies[v]
  BY DropAll
<1>2. \A v \in Holders' : v \in Holders /\ copies'[v] = copies[v]
  BY <1>1 DEF Holders
<1>3. Found' \subseteq Found
  BY <1>2 DEF Found
<1>4. QED
  BY <1>2, <1>3

\* The one who leaves has no copy any more, nor is he in the list.
LEMMA DropOwnKeeps ==
    ASSUME MultisigInv, NEW r \in Requests, DropOwn(r)
    PROVE  MultisigInv'
<1> USE DEF MultisigInv
<1>1. /\ r \in Open /\ r.op = "leave" /\ at[r] = "drop" /\ todo[r] = {} /\ r.by \in Users
      /\ copies' = [copies EXCEPT ![r.by] = <<>>]
      /\ UNCHANGED <<ms, given, todo, members, deploy, event, left, matched, events, mixed, raced, vain>>
  BY MultisigAssumption DEF DropOwn, Open, Control, deployVars, historyVars
<1>2. /\ at' = [at EXCEPT ![r] = "users"] /\ at'[r] = "users"
      /\ \A q \in Requests \ {r} : at'[q] = at[q]
  BY DEF DropOwn, goTo, TypeOK
<1>3. /\ copies' \in [Users -> Seq(Copy)] /\ Holders' = Holders \ {r.by} /\ ToSet(copies'[r.by]) = {}
      /\ \A v \in Users : v # r.by => copies'[v] = copies[v]
  BY <1>1, DropAll
<1>4. TypeOK'
  <2>1. \A q \in Requests : ListRight(q)'
    BY <1>1, <1>2 DEF TypeOK, ListRight
  <2>2. QED
    BY <1>1, <1>2, <1>3, <2>1 DEF TypeOK
<1>5. Within'
  <2>1. \A u \in Users : \A m \in ToSet(copies'[u]) : m \in ToSet(copies[u])
    BY <1>3
  <2>2. QED
    BY <1>1, <2>1 DEF Within, CopiesWithinCount
<1>6. Control'
  BY <1>1, <1>2 DEF Control
<1>7. Late(r)' = Users /\ Holders' \subseteq Users
  BY <1>1, <1>2 DEF Late, Holders
<1>8. ~mixed => AgreeBut(Late(r))' /\ Carried(r)'
  <2> SUFFICES ASSUME ~mixed PROVE AgreeBut(Late(r))' /\ Carried(r)'
    OBVIOUS
  <2>1. AgreeBut(Late(r)) /\ Carried(r)
    BY <1>1, Solo
  <2>2. AgreeBut(Late(r))'
    BY <1>1, <1>7, <2>1, DropAgrees DEF AgreeBut
  <2>3. Carried(r)'
    BY <1>1, <1>2, <1>3, <2>1 DEF Carried, Joining
  <2>4. QED
    BY <2>2, <2>3
<1>9. ~mixed /\ ~raced => StatusBut(Late(r))' /\ Given(r)'
  <2> SUFFICES ASSUME ~mixed, ~raced PROVE StatusBut(Late(r))' /\ Given(r)'
    OBVIOUS
  <2>1. AgreeBut(Late(r)) /\ StatusBut(Late(r)) /\ Given(r)
    BY <1>1, Solo
  <2>2. StatusBut(Late(r))'
    <3>1. \A v \in Holders' : v \in Holders /\ copies'[v] = copies[v]
      BY <1>1, <2>1, DropAgrees DEF AgreeBut
    <3>2. \A v \in Holders' : v \in Late(r)'
      BY <1>7
    <3>3. \A u, v \in Holders' : Head(copies'[u]).contract = Head(copies'[v]).contract
      BY <2>1, <3>1 DEF StatusBut
    <3>4. QED
      BY <3>2, <3>3 DEF StatusBut
  <2>3. Given(r)'
    BY <1>1, <1>2, <2>1 DEF Given, Joining, Fits
  <2>4. QED
    BY <2>2, <2>3
<1>10. QED
  BY <1>1, <1>2, <1>4, <1>5, <1>6, <1>8, <1>9, RequestKeeps

\* Nor has the one who is kicked.
LEMMA DropKickedKeeps ==
    ASSUME MultisigInv, NEW r \in Requests, DropKicked(r)
    PROVE  MultisigInv'
<1> USE DEF MultisigInv
<1>1. /\ r \in Open /\ r.op = "kick" /\ at[r] = "drop" /\ r.target \in Users /\ Late(r) = todo[r]
      /\ copies' = [copies EXCEPT ![r.target] = <<>>]
      /\ UNCHANGED <<ms, given, todo, members, deploy, event, left, matched, events, mixed, raced, vain>>
  BY MultisigAssumption DEF DropKicked, Open, Late, deployVars, historyVars
<1>2. /\ at' = [at EXCEPT ![r] = "update"] /\ at'[r] = "update"
      /\ \A q \in Requests \ {r} : at'[q] = at[q]
  BY DEF DropKicked, goTo, TypeOK
<1>3. /\ copies' \in [Users -> Seq(Copy)] /\ Holders' = Holders \ {r.target} /\ ToSet(copies'[r.target]) = {}
      /\ \A v \in Users : v # r.target => copies'[v] = copies[v]
  BY <1>1, DropAll
<1>4. TypeOK'
  <2>1. \A q \in Requests : ListRight(q)'
    BY <1>1, <1>2 DEF TypeOK, ListRight
  <2>2. QED
    BY <1>1, <1>2, <1>3, <2>1 DEF TypeOK
<1>5. Within'
  <2>1. \A u \in Users : \A m \in ToSet(copies'[u]) : m \in ToSet(copies[u])
    BY <1>3
  <2>2. QED
    BY <1>1, <2>1 DEF Within, CopiesWithinCount
<1>6. Control'
  BY <1>1, <1>2 DEF Control
<1>7. Late(r)' = todo[r]
  BY <1>1, <1>2 DEF Late
<1>8. ~mixed => Holders' \subseteq todo[r]
  BY <1>1, <1>3, Solo DEF Carried
<1>9. ~mixed => AgreeBut(Late(r))' /\ Carried(r)'
  <2> SUFFICES ASSUME ~mixed PROVE AgreeBut(Late(r))' /\ Carried(r)'
    OBVIOUS
  <2>1. AgreeBut(Late(r)) /\ Carried(r)
    BY <1>1, Solo
  <2>2. AgreeBut(Late(r))'
    BY <1>1, <1>7, <1>8, <2>1, DropAgrees DEF AgreeBut
  <2>3. Carried(r)'
    BY <1>1, <1>2, <1>3, <2>1 DEF Carried, Joining
  <2>4. QED
    BY <2>2, <2>3
<1>10. ~mixed /\ ~raced => StatusBut(Late(r))' /\ Given(r)'
  <2> SUFFICES ASSUME ~mixed, ~raced PROVE StatusBut(Late(r))' /\ Given(r)'
    OBVIOUS
  <2>1. AgreeBut(Late(r)) /\ StatusBut(Late(r)) /\ Given(r)
    BY <1>1, Solo
  <2>2. StatusBut(Late(r))'
    <3>1. \A v \in Holders' : v \in Holders /\ copies'[v] = copies[v]
      BY <1>1, <2>1, DropAgrees DEF AgreeBut
    <3>2. \A v \in Holders' : v \in Late(r)'
      BY <1>7, <1>8
    <3>3. \A u, v \in Holders' : Head(copies'[u]).contract = Head(copies'[v]).contract
      BY <2>1, <3>1 DEF StatusBut
    <3>4. QED
      BY <3>2, <3>3 DEF StatusBut
  <2>3. Given(r)'
    BY <1>1, <1>2, <1>7, <1>8, <2>1 DEF Given, Joining, Fits
  <2>4. QED
    BY <2>2, <2>3
<1>11. QED
  BY <1>1, <1>2, <1>4, <1>5, <1>6, <1>9, <1>10, RequestKeeps

\* A copy that is rewritten gets the owners who hold one, and the status that fits.
LEMMA UpdateOwnersKeeps ==
    ASSUME MultisigInv, NEW r \in Requests, UpdateOwners(r)
    PROVE  MultisigInv'
<1> USE DEF MultisigInv
<1>1. /\ r \in Open /\ r.op \in {"join", "leave", "kick"} /\ at[r] = "update" /\ Late(r) = todo[r]
      /\ UNCHANGED <<at, ms, given, members, deploy, event, left, matched, events, mixed, raced, vain>>
  BY DEF UpdateOwners, Open, Control, Late, deployVars, historyVars
<1>2. PICK u \in todo[r] :
        /\ todo' = [todo EXCEPT ![r] = @ \ {u}]
        /\ copies' = IF copies[u] = <<>> THEN copies
                     ELSE [copies EXCEPT ![u][1] =
                             [@ EXCEPT !.owners = Once(ms[r].owners), !.status = given[r]]]
  BY DEF UpdateOwners
<1>3. /\ u \in Users /\ todo'[r] = todo[r] \ {u} /\ todo'[r] \in SUBSET Users
      /\ \A q \in Requests \ {r} : todo'[q] = todo[q]
  BY <1>2 DEF TypeOK
<1>4. Late(r)' = todo[r] \ {u} /\ Control'
  BY <1>1, <1>3 DEF Late, Control
<1>5. CASE u \notin Holders
  <2>1. copies' = copies /\ Holders' = Holders /\ Found' = Found
    BY <1>2, <1>3, <1>5 DEF Holders, Found
  <2>2. Holders' \ Late(r)' = Holders \ Late(r)
    BY <1>1, <1>4, <1>5, <2>1
  <2>3. TypeOK' /\ Within'
    BY <1>1, <1>2, <1>3, <2>1 DEF TypeOK, ListRight, Within, CopiesWithinCount
  <2>4. ~mixed => AgreeBut(Late(r))' /\ Carried(r)'
    BY <1>1, <2>1, <2>2, Solo DEF AgreeBut, Carried, Joining
  <2>5. ~mixed /\ ~raced => StatusBut(Late(r))' /\ Given(r)'
    BY <1>1, <2>1, <2>2, Solo DEF StatusBut, Given, Joining, Fits
  <2>6. QED
    BY <1>1, <1>3, <1>4, <2>3, <2>4, <2>5, RequestKeeps
<1>6. CASE u \in Holders
  <2> DEFINE m == Head(copies[u])
             e == [m EXCEPT !.owners = Once(ms[r].owners), !.status = given[r]]
  <2>1. /\ copies[u] \in Seq(Copy) /\ copies[u] # <<>> /\ m = copies[u][1] /\ m \in Copy
        /\ DOMAIN copies[u] = 1..Len(copies[u]) /\ Len(copies[u]) \in Nat \ {0}
    BY <1>6, CopyHeld
  <2>2. /\ Once(ms[r].owners) \in Seq(Users) /\ Distinct(Once(ms[r].owners))
        /\ ToSet(Once(ms[r].owners)) = ToSet(ms[r].owners)
        /\ Len(Once(ms[r].owners)) = Cardinality(ToSet(ms[r].owners))
        /\ Len(Once(ms[r].owners)) <= OwnersCount
    <3>1. ms[r].owners \in Seq(Users) /\ Len(ms[r].owners) <= OwnersCount
      BY DEF TypeOK, Copy, Within
    <3>2. /\ Cardinality(ToSet(ms[r].owners)) \in Nat /\ Len(ms[r].owners) \in Nat
          /\ Cardinality(ToSet(ms[r].owners)) <= Len(ms[r].owners)
      BY <3>1, ListSet
    <3>3. /\ Once(ms[r].owners) \in Seq(Users) /\ Distinct(Once(ms[r].owners))
          /\ ToSet(Once(ms[r].owners)) = ToSet(ms[r].owners)
          /\ Len(Once(ms[r].owners)) = Cardinality(ToSet(ms[r].owners))
      BY <3>1, OnceSet
    <3>4. QED
      BY <3>1, <3>2, <3>3, TwoOwners
  <2>3. /\ e \in Copy /\ e.owners = Once(ms[r].owners) /\ e.status = given[r]
        /\ e.creator = m.creator /\ e.contract = m.contract
    BY <2>1, <2>2 DEF Copy, TypeOK
  <2>4. copies' = [copies EXCEPT ![u] = [copies[u] EXCEPT ![1] = e]]
    <3>1. copies' = [copies EXCEPT ![u] = [copies[u] EXCEPT ![1] =
                       [copies[u][1] EXCEPT !.owners = Once(ms[r].owners), !.status = given[r]]]]
      BY <1>2, <2>1
    <3>2. QED
      BY <2>1, <3>1
  <2> HIDE DEF e, m
  <2>5. /\ copies' \in [Users -> Seq(Copy)] /\ Holders' = Holders
        /\ Len(copies'[u]) = Len(copies[u]) /\ Head(copies'[u]) = e
        /\ \A v \in Users : v # u => copies'[v] = copies[v]
        /\ ToSet(copies'[u]) \subseteq ToSet(copies[u]) \cup {e}
    BY <1>6, <2>3, <2>4, PutFirst
  <2>6. TypeOK' /\ Within'
    <3>1. TypeOK'
      BY <1>1, <1>2, <1>3, <2>5 DEF TypeOK, ListRight
    <3>2. ASSUME NEW v \in Users, NEW n \in ToSet(copies'[v])
          PROVE  n \in ToSet(copies[v]) \/ n = e
      <4>1. CASE v = u
        BY <2>5, <3>2, <4>1
      <4>2. CASE v # u
        BY <2>5, <3>2, <4>2
      <4>3. QED
        BY <4>1, <4>2
    <3>3. Len(ms'[r].owners) <= OwnersCount /\ Len(e.owners) <= OwnersCount
      BY <1>1, <2>2, <2>3 DEF Within
    <3>4. Within'
      BY <1>1, <3>2, <3>3, WithinKeeps
    <3>5. QED
      BY <3>1, <3>4
  <2>7. /\ \A v \in Holders : v \in Users /\ v # u => copies'[v] = copies[v]
        /\ \A v \in Holders' \ Late(r)' : v = u \/ (v \in Holders \ Late(r) /\ copies'[v] = copies[v])
    BY <1>1, <1>4, <2>5 DEF Holders
  <2>8. ~mixed => AgreeBut(Late(r))' /\ Carried(r)'
    <3> SUFFICES ASSUME ~mixed PROVE AgreeBut(Late(r))' /\ Carried(r)'
      OBVIOUS
    <3>1. AgreeBut(Late(r)) /\ Carried(r) /\ ToSet(ms[r].owners) = Holders
      BY <1>1, Solo DEF Carried
    <3>2. \A v \in Holders' : Len(copies'[v]) = 1
      BY <1>6, <2>5, <2>7, <3>1 DEF AgreeBut, Holders
    <3>3. \A v \in Holders : Head(copies'[v]).creator = Head(copies[v]).creator
      BY <2>3, <2>5, <2>7 DEF m, Holders
    <3>4. \A k, n \in Found' : k.creator = n.creator
      BY <2>5, <3>1, <3>3 DEF AgreeBut, Found
    <3>5. \A v \in Holders' \ Late(r)' :
            ToSet(Head(copies'[v]).owners) = Holders' /\ Distinct(Head(copies'[v]).owners)
      BY <2>2, <2>3, <2>5, <2>7, <3>1 DEF AgreeBut
    <3>6. Carried(r)'
      BY <1>1, <2>5, <3>1 DEF Carried, Joining
    <3>7. QED
      BY <3>2, <3>4, <3>5, <3>6 DEF AgreeBut
  <2>9. ~mixed /\ ~raced => StatusBut(Late(r))' /\ Given(r)'
    <3> SUFFICES ASSUME ~mixed, ~raced PROVE StatusBut(Late(r))' /\ Given(r)'
      OBVIOUS
    <3>1. /\ AgreeBut(Late(r)) /\ StatusBut(Late(r)) /\ Given(r) /\ AgreeBut(Late(r))'
          /\ ToSet(ms[r].owners) = Holders
      BY <1>1, <2>8, Solo DEF Carried
    <3>2. \A v \in Holders' \ Late(r)' : Head(copies'[v]).status = given[r]
      BY <1>1, <2>3, <2>5, <2>7, <3>1 DEF Given
    <3>3. \A v \in Holders' \ Late(r)' : Len(Head(copies'[v]).owners) = Cardinality(Holders)
      BY <2>5, <3>1 DEF AgreeBut, Distinct
    <3>4. Fits(given[r], Cardinality(Holders))'
      BY <1>1, <2>5, <3>1 DEF Given, Fits
    <3>5. \A v \in Holders : Head(copies'[v]).contract = Head(copies[v]).contract
      BY <2>3, <2>5, <2>7 DEF m, Holders
    <3>6. StatusBut(Late(r))'
      BY <1>1, <2>5, <3>1, <3>2, <3>3, <3>4, <3>5 DEF StatusBut
    <3>7. Given(r)'
      BY <1>1, <3>1, <3>2 DEF Given, Joining, Fits
    <3>8. QED
      BY <3>6, <3>7
  <2>10. QED
    BY <1>1, <1>3, <1>4, <2>6, <2>8, <2>9, RequestKeeps
<1>7. QED
  BY <1>5, <1>6

\* What is left of a deleted wallet are the copies still to be dropped.
LEMMA EraseCopyKeeps ==
    ASSUME MultisigInv, NEW r \in Requests, EraseCopy(r)
    PROVE  MultisigInv'
<1> USE DEF MultisigInv
<1>1. /\ r \in Open /\ at[r] = "erase" /\ Late(r) = todo[r]
      /\ UNCHANGED <<at, ms, given, members, deploy, event, left, matched, events, mixed, raced, vain>>
  BY DEF EraseCopy, Open, Late, deployVars, historyVars
<1>2. PICK u \in todo[r] :
        todo' = [todo EXCEPT ![r] = @ \ {u}] /\ copies' = [copies EXCEPT ![u] = <<>>]
  BY DEF EraseCopy
<1>3. /\ u \in Users /\ todo'[r] = todo[r] \ {u} /\ todo'[r] \in SUBSET Users
      /\ \A q \in Requests \ {r} : todo'[q] = todo[q]
  BY <1>2 DEF TypeOK
<1>4. /\ copies' \in [Users -> Seq(Copy)] /\ Holders' = Holders \ {u} /\ ToSet(copies'[u]) = {}
      /\ \A v \in Users : v # u => copies'[v] = copies[v]
  BY <1>2, <1>3, DropAll
<1>5. TypeOK' /\ Within'
  <2>1. \A v \in Users : \A m \in ToSet(copies'[v]) : m \in ToSet(copies[v])
    BY <1>4
  <2>2. Within'
    BY <1>1, <2>1 DEF Within, CopiesWithinCount
  <2>3. QED
    BY <1>1, <1>2, <1>3, <1>4, <2>2 DEF TypeOK, ListRight
<1>6. Late(r)' = todo[r] \ {u} /\ Control'
  BY <1>1, <1>3 DEF Late, Control
<1>7. ~mixed => Holders' \subseteq Late(r)'
  BY <1>1, <1>4, <1>6, Solo DEF Carried
<1>8. ~mixed => AgreeBut(Late(r))' /\ Carried(r)'
  <2> SUFFICES ASSUME ~mixed PROVE AgreeBut(Late(r))' /\ Carried(r)'
    OBVIOUS
  <2>1. AgreeBut(Late(r)) /\ Carried(r)
    BY <1>1, Solo
  <2>2. AgreeBut(Late(r))'
    BY <1>2, <1>3, <1>7, <2>1, DropAgrees DEF AgreeBut
  <2>3. Carried(r)'
    BY <1>1, <1>3, <1>6, <1>7, <2>1 DEF Carried, Joining
  <2>4. QED
    BY <2>2, <2>3
<1>9. ~mixed /\ ~raced => StatusBut(Late(r))' /\ Given(r)'
  <2> SUFFICES ASSUME ~mixed, ~raced PROVE StatusBut(Late(r))' /\ Given(r)'
    OBVIOUS
  <2>1. AgreeBut(Late(r)) /\ StatusBut(Late(r)) /\ Given(r)
    BY <1>1, Solo
  <2>2. StatusBut(Late(r))'
    <3>1. \A v \in Holders' : v \in Holders /\ copies'[v] = copies[v]
      BY <1>2, <1>3, <2>1, DropAgrees DEF AgreeBut
    <3>2. \A v \in Holders' : v \in Late(r)'
      BY <1>7
    <3>3. \A v, w \in Holders' : Head(copies'[v]).contract = Head(copies'[w]).contract
      BY <2>1, <3>1 DEF StatusBut
    <3>4. QED
      BY <3>2, <3>3 DEF StatusBut
  <2>3. Given(r)'
    BY <1>1, <2>1 DEF Given, Joining, Fits
  <2>4. QED
    BY <2>2, <2>3
<1>10. QED
  BY <1>1, <1>3, <1>5, <1>6, <1>8, <1>9, RequestKeeps

\* When the last one is written the handler replies.
LEMMA UpdatedKeeps ==
    ASSUME MultisigInv, NEW r \in Requests, Updated(r)
    PROVE  MultisigInv'
<1>1. /\ r \in Open /\ todo[r] = {} /\ Late(r) = {} /\ Reply(r)
      /\ UNCHANGED <<copies, todo, members, deploy, event, left, matched, events, mixed, raced, vain>>
  BY DEF Updated, Open, Late, deployVars, historyVars
<1>2. QED
  BY <1>1, ReplyKeeps

\* A request that starts alone finds the copies in agreement.
LEMMA StartKeeps ==
    ASSUME MultisigInv, NEW r \in Requests, Start(r)
    PROVE  MultisigInv'
<1> USE DEF MultisigInv
<1>1. /\ at[r] = "idle" /\ at' = [at EXCEPT ![r] = "check"] /\ at'[r] = "check"
      /\ \A q \in Requests \ {r} : at'[q] = at[q]
      /\ mixed' = (mixed \/ Open # {}) /\ raced' = (raced \/ deploy \in {"match", "find", "set"})
      /\ UNCHANGED <<copies, ms, given, todo, members, deploy, event, left, matched, events, vain>>
  BY DEF Start, goTo, deployVars, TypeOK
<1>2. /\ Open' = Open \cup {r} /\ Holders' = Holders /\ Found' = Found
      /\ ~mixed' => ~mixed /\ Open = {}
      /\ ~raced' => ~raced /\ deploy = "idle"
  BY <1>1 DEF Open, Holders, Found, TypeOK
<1>3. TypeOK' /\ Within' /\ Control'
  <2>1. TypeOK'
    BY <1>1 DEF TypeOK, ListRight
  <2>2. QED
    BY <1>1, <2>1 DEF Within, CopiesWithinCount, Control
<1>4. Alone' /\ Apart'
  BY <1>1, <1>2 DEF Alone, Apart
<1>5. (\A q \in Requests : Late(q)' = Late(q)) /\ Ready' = Ready
  <2>1. \A q \in Requests : Late(q)' = Late(q)
    BY <1>1 DEF Late
  <2>2. QED
    BY <1>2, <2>1 DEF Ready
<1>6. Owners'
  <2> SUFFICES ASSUME ~mixed' PROVE CopiesAgree' /\ \A q \in Requests : Carried(q)'
    BY DEF Owners
  <2>1. CopiesAgree /\ \A q \in Requests : Carried(q)
    BY <1>2 DEF Owners
  <2>2. CopiesAgree'
    BY <1>1, <1>2, <1>5, <2>1 DEF CopiesAgree
  <2>3. Carried(r)'
    BY <1>1 DEF Carried, Joining
  <2>4. \A q \in Requests \ {r} : Carried(q)'
    BY <1>1, <1>2, <2>1 DEF Carried, Joining
  <2>5. QED
    BY <2>2, <2>3, <2>4
<1>7. Statuses'
  <2> SUFFICES ASSUME ~mixed', ~raced'
               PROVE  StatusesAgree' /\ (\A q \in Requests : Given(q)') /\ Deploying'
    BY DEF Statuses
  <2>1. StatusesAgree /\ (\A q \in Requests : Given(q)) /\ Deploying
    BY <1>2 DEF Statuses
  <2>2. StatusesAgree'
    BY <1>1, <1>2, <1>5, <2>1 DEF StatusesAgree, Waits, Fits
  <2>3. Given(r)'
    BY <1>1, <2>1 DEF Given, Joining
  <2>4. \A q \in Requests \ {r} : Given(q)'
    BY <1>1, <1>2, <1>5, <2>1 DEF Given, Joining, Fits
  <2>5. Deploying'
    BY <1>1, <1>2, <2>1 DEF Deploying, AllIn
  <2>6. QED
    BY <2>2, <2>3, <2>4, <2>5
<1>8. QED
  BY <1>3, <1>4, <1>6, <1>7

-----------------------------------------------------------------------------
(* The contract.                                                             *)

\* No request is served while a report is handled, or it counts as raced.
LEMMA Quiet ==
    ASSUME MultisigInv, ~mixed, ~raced, deploy # "idle"
    PROVE  /\ Ready = Holders /\ \A q \in Requests : at[q] \in {"idle", "done"}
           /\ \A u \in Holders :
                /\ Len(copies[u]) = 1
                /\ ToSet(Head(copies[u]).owners) = Holders /\ Distinct(Head(copies[u]).owners)
<1> USE DEF MultisigInv
<1>1. \A q \in Requests : at[q] \in {"idle", "done"}
  BY DEF Apart, Open
<1>2. \A q \in Requests : Late(q) = {}
  BY <1>1 DEF Control, Late
<1>3. Ready = Holders
  BY <1>2 DEF Ready
<1>4. QED
  BY <1>1, <1>3 DEF Owners, CopiesAgree

\* A report changes neither the owners nor what a request is about to write.
LEMMA DeployKeeps ==
    ASSUME MultisigInv, TypeOK', Apart', UNCHANGED <<at, ms, given, todo, mixed, vain>>,
           Holders' = Holders,
           \A u \in Holders : /\ Len(copies'[u]) = Len(copies[u])
                              /\ Head(copies'[u]).owners = Head(copies[u]).owners
                              /\ Head(copies'[u]).creator = Head(copies[u]).creator,
           \A u \in Users : \A m \in ToSet(copies'[u]) :
              m \in ToSet(copies[u]) \/ Len(m.owners) <= OwnersCount,
           ~mixed /\ ~raced' => StatusesAgree' /\ (\A q \in Requests : Given(q)') /\ Deploying'
    PROVE  MultisigInv'
<1> USE DEF MultisigInv
<1>1. Within'
  BY DEF Within, CopiesWithinCount
<1>2. Control'
  BY DEF Control
<1>3. Alone'
  BY DEF Alone, Open
<1>4. (\A q \in Requests : Late(q)' = Late(q)) /\ Ready' = Ready /\ Ready \subseteq Holders
  BY DEF Ready, Late
<1>5. Owners'
  <2> SUFFICES ASSUME ~mixed PROVE CopiesAgree' /\ \A q \in Requests : Carried(q)'
    BY DEF Owners
  <2>1. CopiesAgree /\ \A q \in Requests : Carried(q)
    BY DEF Owners
  <2>2. \A m, n \in Found' : m.creator = n.creator
    BY <2>1 DEF CopiesAgree, Found
  <2>3. CopiesAgree'
    BY <1>4, <2>1, <2>2 DEF CopiesAgree
  <2>4. \A q \in Requests : Joining(q)' = Joining(q)
    BY DEF Joining
  <2>5. ASSUME NEW q \in Requests PROVE Carried(q)'
    <3>1. Joining(q) => \A m \in Found' : m.creator = ms[q].creator
      BY <2>1 DEF Carried, Found
    <3>2. QED
      BY <2>1, <2>4, <3>1 DEF Carried
  <2>6. QED
    BY <2>3, <2>5
<1>6. Statuses'
  BY DEF Statuses
<1>7. QED
  BY <1>1, <1>2, <1>3, <1>5, <1>6

\* The contract is sent once, and no report comes before it.
LEMMA SendContractKeeps ==
    ASSUME MultisigInv, SendContract
    PROVE  MultisigInv'
<1> USE DEF MultisigInv
<1>1. /\ members = {} /\ members' \in SUBSET Users
      /\ UNCHANGED <<copies, at, ms, given, todo, deploy, event, left, matched, events, mixed, raced, vain>>
  <2>1. PICK m \in Found : members' = ToSet(m.owners)
    BY DEF SendContract
  <2>2. m.owners \in Seq(Users)
    BY <2>1, CopyHeld DEF Found, Copy
  <2>3. members' \in SUBSET Users
    BY <2>1, <2>2, ListSet
  <2>4. QED
    BY <2>3 DEF SendContract, requestVars, historyVars
<1>2. TypeOK' /\ Apart' /\ Holders' = Holders /\ Found' = Found /\ Ready' = Ready
  BY <1>1 DEF TypeOK, ListRight, Apart, Open, Holders, Found, Ready, Late
<1>3. ~mixed /\ ~raced => StatusesAgree' /\ (\A q \in Requests : Given(q)') /\ Deploying'
  <2> SUFFICES ASSUME ~mixed, ~raced
               PROVE  StatusesAgree' /\ (\A q \in Requests : Given(q)') /\ Deploying'
    OBVIOUS
  <2>1. StatusesAgree /\ (\A q \in Requests : Given(q)) /\ Deploying
    BY DEF Statuses
  <2>2. \A s, n : Fits(s, n) => Fits(s, n)'
    BY <1>1 DEF Fits
  <2>3. StatusesAgree'
    BY <1>1, <1>2, <2>1, <2>2 DEF StatusesAgree, Waits
  <2>4. ASSUME NEW q \in Requests PROVE Given(q)'
    BY <1>1, <1>2, <2>1, <2>2 DEF Given, Joining, Late
  <2>5. deploy = "idle" /\ ~matched
    BY <1>1, <2>1 DEF Deploying
  <2>6. Deploying'
    BY <1>1, <2>5 DEF Deploying
  <2>7. QED
    BY <2>3, <2>4, <2>6
<1>4. QED
  BY <1>1, <1>2, <1>3, DeployKeeps

\* A report finds no code yet.
LEMMA AddMultisigKeeps ==
    ASSUME MultisigInv, AddMultisig
    PROVE  MultisigInv'
<1> USE DEF MultisigInv
<1>1. /\ deploy = "idle" /\ deploy' = "match" /\ left' = members /\ members # {}
      /\ raced' = (raced \/ Open # {}) /\ events < MaxEvents /\ events' = events + 1
      /\ UNCHANGED <<copies, at, ms, given, todo, members, matched, mixed, vain>>
  BY DEF AddMultisig, requestVars
<1>2. TypeOK'
  <2>1. event' \in Report
    BY DEF AddMultisig, Report
  <2>2. events' \in 0..MaxEvents
    BY <1>1, MultisigAssumption DEF TypeOK
  <2>3. QED
    BY <1>1, <2>1, <2>2 DEF TypeOK, ListRight
<1>3. Apart' /\ Holders' = Holders /\ Found' = Found /\ Ready' = Ready
  BY <1>1 DEF Apart, Open, Holders, Found, Ready, Late
<1>4. ~mixed /\ ~raced' => StatusesAgree' /\ (\A q \in Requests : Given(q)') /\ Deploying'
  <2> SUFFICES ASSUME ~mixed, ~raced'
               PROVE  StatusesAgree' /\ (\A q \in Requests : Given(q)') /\ Deploying'
    OBVIOUS
  <2>1. StatusesAgree /\ (\A q \in Requests : Given(q)) /\ Deploying
    BY <1>1 DEF Statuses
  <2>2. StatusesAgree'
    BY <1>1, <1>3, <2>1 DEF StatusesAgree, Waits, Fits
  <2>3. ASSUME NEW q \in Requests PROVE Given(q)'
    BY <1>1, <1>3, <2>1 DEF Given, Joining, Late, Fits
  <2>4. Deploying'
    BY <1>1, <2>1 DEF Deploying
  <2>5. QED
    BY <2>2, <2>3, <2>4
<1>5. QED
  BY <1>1, <1>2, <1>3, <1>4, DeployKeeps

\* A full list of the contract's owners: everybody who holds a copy is one.
LEMMA MatchAllIn ==
    ASSUME MultisigInv, ~mixed, ~raced, deploy # "idle", NEW u \in Users,
           NEW m \in ToSet(copies[u]), Len(Among(m.owners, members)) >= OwnersCount
    PROVE  AllIn
<1> USE DEF MultisigInv
<1>1. u \in Holders
  <2>1. copies[u] # <<>>
    BY DEF ToSet
  <2>2. QED
    BY <2>1 DEF Holders
<1>2. /\ copies[u] \in Seq(Copy) /\ DOMAIN copies[u] = 1..Len(copies[u]) /\ Len(copies[u]) = 1
      /\ Head(copies[u]) = copies[u][1] /\ ToSet(copies[u]) \subseteq Copy
  BY <1>1, CopyHeld, Quiet
<1>3. m = Head(copies[u])
  BY <1>2 DEF ToSet
<1>4. m.owners \in Seq(Users) /\ Len(m.owners) <= OwnersCount
  BY <1>2 DEF Copy, Within, CopiesWithinCount
<1>5. Len(Among(m.owners, members)) <= Len(m.owners)
  BY <1>4, AmongSet
<1>6. Len(m.owners) \in Nat /\ Len(Among(m.owners, members)) \in Nat
  BY <1>4, AmongSet, LenProperties
<1>7. Len(m.owners) = OwnersCount /\ Len(Among(m.owners, members)) = Len(m.owners)
  BY <1>4, <1>5, <1>6, TwoOwners
<1>8. ToSet(m.owners) \subseteq members
  BY <1>4, <1>7, AmongSet
<1>9. ToSet(m.owners) = Holders /\ OwnersCount = Cardinality(Holders)
  BY <1>1, <1>3, <1>7, Quiet DEF Distinct
<1>10. \A n \in Found : Len(n.owners) = Cardinality(Holders)
  BY Quiet DEF Distinct, Found
<1>11. QED
  BY <1>8, <1>9, <1>10 DEF AllIn

\* The code is found for a wallet that is full.
LEMMA MatchCodeKeeps ==
    ASSUME MultisigInv, MatchCode
    PROVE  MultisigInv'
<1> USE DEF MultisigInv
<1>1. /\ deploy = "match" /\ deploy' \in {"match", "find"} /\ left' \in SUBSET Users
      /\ matched' \in BOOLEAN
      /\ UNCHANGED <<copies, at, ms, given, todo, members, event, events, mixed, raced, vain>>
  BY DEF MatchCode, TypeOK, requestVars, historyVars
<1>2. TypeOK' /\ Apart' /\ Holders' = Holders /\ Found' = Found /\ Ready' = Ready
  BY <1>1 DEF TypeOK, ListRight, Apart, Open, Holders, Found, Ready, Late
<1>3. ~mixed /\ ~raced => StatusesAgree' /\ (\A q \in Requests : Given(q)') /\ Deploying'
  <2> SUFFICES ASSUME ~mixed, ~raced
               PROVE  StatusesAgree' /\ (\A q \in Requests : Given(q)') /\ Deploying'
    OBVIOUS
  <2>1. StatusesAgree /\ (\A q \in Requests : Given(q)) /\ Deploying
    BY DEF Statuses
  <2>2. StatusesAgree'
    BY <1>1, <1>2, <2>1 DEF StatusesAgree, Waits, Fits
  <2>3. ASSUME NEW q \in Requests PROVE Given(q)'
    BY <1>1, <1>2, <2>1 DEF Given, Joining, Late, Fits
  <2>4. matched' => AllIn
    <3>1. CASE matched
      BY <2>1, <3>1 DEF Deploying
    <3>2. CASE ~matched
      <4>1. matched' => \E u \in left : \E m \in ToSet(copies[u]) :
                          Len(Among(m.owners, members)) >= OwnersCount
        BY <3>2 DEF MatchCode
      <4>2. left \subseteq Users
        BY DEF TypeOK
      <4>3. QED
        BY <1>1, <4>1, <4>2, MatchAllIn
    <3>3. QED
      BY <3>1, <3>2
  <2>5. Deploying'
    BY <1>1, <1>2, <2>1, <2>4 DEF Deploying, AllIn
  <2>6. QED
    BY <2>2, <2>3, <2>5
<1>4. QED
  BY <1>1, <1>2, <1>3, DeployKeeps

\* The one copy that is asked stands for all.
LEMMA FindContractKeeps ==
    ASSUME MultisigInv, FindContract
    PROVE  MultisigInv'
<1> USE DEF MultisigInv
<1>1. /\ deploy = "find" /\ deploy' \in {"set", "idle"} /\ matched' = FALSE
      /\ deploy' = "set" => /\ matched /\ left' = members /\ event' = event
                            /\ Holders = {} \/ \E u \in Holders : ~Last(copies[u]).contract
      /\ deploy' = "idle" => left' = left /\ event' = NoReport
      /\ UNCHANGED <<copies, at, ms, given, todo, members, events, mixed, raced, vain>>
  BY DEF FindContract, requestVars, historyVars
<1>2. TypeOK'
  <2>1. NoReport \in Report
    BY DEF NoReport, Report
  <2>2. event' \in Report /\ left' \in SUBSET Users
    BY <1>1, <2>1 DEF TypeOK
  <2>3. QED
    BY <1>1, <2>2 DEF TypeOK, ListRight
<1>3. Apart' /\ Holders' = Holders /\ Found' = Found /\ Ready' = Ready
  BY <1>1 DEF Apart, Open, Holders, Found, Ready, Late
<1>4. ~mixed /\ ~raced => StatusesAgree' /\ (\A q \in Requests : Given(q)') /\ Deploying'
  <2> SUFFICES ASSUME ~mixed, ~raced
               PROVE  StatusesAgree' /\ (\A q \in Requests : Given(q)') /\ Deploying'
    OBVIOUS
  <2>1. StatusesAgree /\ (\A q \in Requests : Given(q)) /\ Deploying
    BY DEF Statuses
  <2>2. /\ \A u, v \in Holders : Head(copies[u]).contract = Head(copies[v]).contract
        /\ \A u, v \in Ready : Head(copies[u]).status = Head(copies[v]).status
        /\ \A u \in Ready : Fits(Head(copies[u]).status, Len(Head(copies[u]).owners))
    BY <1>1, <2>1 DEF StatusesAgree, Waits
  <2>3. StatusesAgree'
    BY <1>1, <1>3, <2>2 DEF StatusesAgree, Fits
  <2>4. ASSUME NEW q \in Requests PROVE Given(q)'
    BY <1>1, <1>3, <2>1 DEF Given, Joining, Late, Fits
  <2>5. CASE deploy' = "idle"
    BY <1>1, <2>3, <2>4, <2>5 DEF Deploying
  <2>6. CASE deploy' = "set"
    <3>1. AllIn
      BY <1>1, <2>1, <2>6 DEF Deploying
    <3>2. \A u \in Holders : Last(copies[u]) = Head(copies[u])
      BY <1>1, CopyHeld, Quiet DEF Last
    <3>3. \A u \in Holders : ~Head(copies[u]).contract
      BY <1>1, <2>2, <2>6, <3>2
    <3>4. Deploying'
      BY <1>1, <1>3, <2>1, <2>6, <3>1, <3>3 DEF Deploying, AllIn
    <3>5. QED
      BY <2>3, <2>4, <3>4
  <2>7. QED
    BY <1>1, <2>5, <2>6
<1>5. QED
  BY <1>1, <1>2, <1>3, <1>4, DeployKeeps

\* Every copy gets what the report says, one after another.
LEMMA SetContractKeeps ==
    ASSUME MultisigInv, SetContract
    PROVE  MultisigInv'
<1> USE DEF MultisigInv
<1>1. /\ deploy = "set"
      /\ UNCHANGED <<at, ms, given, todo, members, matched, events, mixed, raced, vain>>
  BY DEF SetContract, requestVars, historyVars
<1>2. PICK u \in left :
        /\ left' = left \ {u}
        /\ copies' = IF copies[u] = <<>> THEN copies
                     ELSE [copies EXCEPT ![u][1] =
                             [@ EXCEPT !.contract = event.contract, !.status = event.status]]
  BY DEF SetContract
<1>3. /\ u \in Users /\ left' \in SUBSET Users
      /\ \/ left' = {} /\ deploy' = "idle" /\ event' = NoReport
         \/ left' # {} /\ deploy' = "set" /\ event' = event
      /\ event' \in Report
  <2>1. NoReport \in Report
    BY DEF NoReport, Report
  <2>2. u \in Users /\ left' \in SUBSET Users
    BY <1>2 DEF TypeOK
  <2>3. \/ left' = {} /\ deploy' = "idle" /\ event' = NoReport
        \/ left' # {} /\ deploy' = "set" /\ event' = event
    BY <1>1 DEF SetContract
  <2>4. event' \in Report
    BY <2>1, <2>3 DEF TypeOK
  <2>5. QED
    BY <2>2, <2>3, <2>4
<1>4. /\ copies' \in [Users -> Seq(Copy)] /\ Holders' = Holders
      /\ \A v \in Holders : v # u => copies'[v] = copies[v]
      /\ \A v \in Holders : /\ Len(copies'[v]) = Len(copies[v])
                            /\ Head(copies'[v]).owners = Head(copies[v]).owners
                            /\ Head(copies'[v]).creator = Head(copies[v]).creator
      /\ u \in Holders => /\ Head(copies'[u]).contract = event.contract
                          /\ Head(copies'[u]).status = event.status
      /\ \A v \in Users : \A m \in ToSet(copies'[v]) :
           m \in ToSet(copies[v]) \/ Len(m.owners) <= OwnersCount
  <2>1. CASE u \notin Holders
    <3>1. copies' = copies /\ Holders' = Holders
      BY <1>2, <1>3, <2>1 DEF Holders
    <3>2. QED
      BY <2>1, <3>1 DEF TypeOK
  <2>2. CASE u \in Holders
    <3> DEFINE m == Head(copies[u])
               e == [m EXCEPT !.contract = event.contract, !.status = event.status]
    <3>1. /\ copies[u] # <<>> /\ m = copies[u][1] /\ m \in Copy /\ m \in ToSet(copies[u])
      BY <2>2, CopyHeld
    <3>2. /\ e \in Copy /\ e.owners = m.owners /\ e.creator = m.creator
          /\ e.contract = event.contract /\ e.status = event.status
      BY <3>1 DEF Copy, TypeOK, Report, Status
    <3>3. copies' = [copies EXCEPT ![u] = [copies[u] EXCEPT ![1] = e]]
      <4>1. copies' = [copies EXCEPT ![u] = [copies[u] EXCEPT ![1] =
                         [copies[u][1] EXCEPT !.contract = event.contract, !.status = event.status]]]
        BY <1>2, <3>1
      <4>2. QED
        BY <3>1, <4>1
    <3> HIDE DEF e, m
    <3>4. /\ copies' \in [Users -> Seq(Copy)] /\ Holders' = Holders
          /\ Len(copies'[u]) = Len(copies[u]) /\ Head(copies'[u]) = e
          /\ \A v \in Users : v # u => copies'[v] = copies[v]
          /\ ToSet(copies'[u]) \subseteq ToSet(copies[u]) \cup {e}
      BY <2>2, <3>2, <3>3, PutFirst
    <3>5. Len(e.owners) <= OwnersCount
      BY <1>3, <3>1, <3>2 DEF Within, CopiesWithinCount
    <3>6. \A v \in Holders : v \in Users
      BY DEF Holders
    <3>7. ASSUME NEW v \in Users, NEW n \in ToSet(copies'[v])
          PROVE  n \in ToSet(copies[v]) \/ Len(n.owners) <= OwnersCount
      <4>1. CASE v = u
        BY <3>4, <3>5, <3>7, <4>1
      <4>2. CASE v # u
        BY <3>4, <3>7, <4>2
      <4>3. QED
        BY <4>1, <4>2
    <3>8. ASSUME NEW v \in Holders
          PROVE  /\ Len(copies'[v]) = Len(copies[v])
                 /\ Head(copies'[v]).owners = Head(copies[v]).owners
                 /\ Head(copies'[v]).creator = Head(copies[v]).creator
      <4>1. CASE v = u
        BY <3>2, <3>4, <4>1 DEF m
      <4>2. CASE v # u
        BY <3>4, <3>6, <4>2
      <4>3. QED
        BY <4>1, <4>2
    <3>9. QED
      BY <3>2, <3>4, <3>6, <3>7, <3>8
  <2>3. QED
    BY <2>1, <2>2
<1>5. TypeOK' /\ Apart'
  <2>1. deploy' \in {"idle", "set"}
    BY <1>3
  <2>2. TypeOK'
    BY <1>1, <1>3, <1>4, <2>1 DEF TypeOK, ListRight
  <2>3. Apart'
    BY <1>1 DEF Apart, Open
  <2>4. QED
    BY <2>2, <2>3
<1>6. ~mixed /\ ~raced => StatusesAgree' /\ (\A q \in Requests : Given(q)') /\ Deploying'
  <2> SUFFICES ASSUME ~mixed, ~raced
               PROVE  StatusesAgree' /\ (\A q \in Requests : Given(q)') /\ Deploying'
    OBVIOUS
  <2>1. StatusesAgree /\ (\A q \in Requests : Given(q)) /\ Deploying
    BY DEF Statuses
  <2>2. Ready = Holders /\ Ready' = Holders' /\ \A q \in Requests : at[q] \in {"idle", "done"}
    <3>1. Ready = Holders /\ \A q \in Requests : at[q] \in {"idle", "done"}
      BY <1>1, Quiet
    <3>2. \A q \in Requests : Late(q)' = Late(q)
      BY <1>1 DEF Late
    <3>3. QED
      BY <1>4, <3>1, <3>2 DEF Ready
  <2>3. members # {} /\ ~matched
    BY <1>1, <2>1 DEF Deploying
  <2>4. AllIn /\ AllIn'
    <3>1. AllIn
      BY <1>1, <2>1 DEF Deploying
    <3>2. QED
      BY <1>1, <1>4, <3>1 DEF AllIn, Found
  <2>5. \A v \in Holders :
          IF v \in left' THEN copies'[v] = copies[v] /\ ~Head(copies'[v]).contract
          ELSE Head(copies'[v]).contract = event.contract /\ Head(copies'[v]).status = event.status
    BY <1>1, <1>2, <1>4, <2>1 DEF Deploying
  <2>6. Deploying'
    BY <1>1, <1>3, <1>4, <2>3, <2>4, <2>5 DEF Deploying
  <2>7. \A v, w \in Holders : (v \in left' <=> w \in left') =>
          /\ Head(copies'[v]).status = Head(copies'[w]).status
          /\ Head(copies'[v]).contract = Head(copies'[w]).contract
    <3> SUFFICES ASSUME NEW v \in Holders, NEW w \in Holders, v \in left' <=> w \in left'
                 PROVE  /\ Head(copies'[v]).status = Head(copies'[w]).status
                        /\ Head(copies'[v]).contract = Head(copies'[w]).contract
      OBVIOUS
    <3>1. CASE v \in left'
      <4>1. Waits(v) /\ Waits(w) /\ copies'[v] = copies[v] /\ copies'[w] = copies[w]
        BY <1>1, <1>2, <2>5, <3>1 DEF Waits
      <4>2. QED
        BY <2>1, <2>2, <4>1 DEF StatusesAgree
    <3>2. CASE v \notin left'
      BY <2>5, <3>2
    <3>3. QED
      BY <3>1, <3>2
  <2>8. (\A v \in Holders : Fits(Head(copies[v]).status, Len(Head(copies[v]).owners)))'
    <3>1. \A v \in Holders' : Len(Head(copies'[v]).owners) = OwnersCount
      BY <2>4 DEF AllIn, Found
    <3>2. \A s : Fits(s, OwnersCount)'
      BY <1>1, <2>3, TwoOwners DEF Fits
    <3>3. QED
      BY <3>1, <3>2
  <2>9. \A v, w \in Holders : (Waits(v)' <=> Waits(w)') => (v \in left' <=> w \in left')
    BY <1>3 DEF Waits
  <2>10. StatusesAgree'
    BY <1>4, <2>2, <2>7, <2>8, <2>9 DEF StatusesAgree
  <2>11. \A q \in Requests : Given(q)'
    BY <1>1, <2>1, <2>2 DEF Given, Joining
  <2>12. QED
    BY <2>6, <2>10, <2>11
<1>7. QED
  BY <1>1, <1>4, <1>5, <1>6, DeployKeeps

-----------------------------------------------------------------------------
(* The specification.                                                        *)

\* Nobody has a copy, and nothing is under way.
LEMMA InitMultisig == Init => MultisigInv
<1> SUFFICES ASSUME Init PROVE MultisigInv
  OBVIOUS
<1>1. \A r \in Requests : at[r] = "idle" /\ todo[r] = {} /\ ms[r] = NewCopy(r.by) /\ r.by \in Users
  BY MultisigAssumption DEF Init
<1>2. \A r \in Requests : NewCopy(r.by) \in Copy /\ Len(NewCopy(r.by).owners) = 1
  BY <1>1, NewCopyTyped
<1>3. Holders = {} /\ Found = {} /\ Open = {}
  BY <1>1 DEF Init, Holders, Found, Open
<1>4. TypeOK
  <2>1. copies \in [Users -> Seq(Copy)]
    BY EmptySeq DEF Init
  <2>2. ms \in [Requests -> Copy]
    BY <1>1, <1>2 DEF Init
  <2>3. event \in Report /\ events \in 0..MaxEvents
    BY MultisigAssumption DEF Init, NoReport, Report
  <2>4. QED
    BY <1>1, <2>1, <2>2, <2>3 DEF Init, TypeOK, ListRight, Status
<1>5. Within
  <2>1. 1 <= OwnersCount
    BY TwoOwners
  <2>2. \A u \in Users : ToSet(copies[u]) = {}
    BY DEF Init, ToSet
  <2>3. QED
    BY <1>1, <1>2, <2>1, <2>2 DEF Within, CopiesWithinCount
<1>6. Control /\ Alone /\ Apart
  BY <1>1, <1>3 DEF Control, Alone, Apart
<1>7. Owners
  BY <1>1, <1>3 DEF Owners, CopiesAgree, Ready, Carried, Joining
<1>8. Statuses
  BY <1>1, <1>3 DEF Init, Statuses, StatusesAgree, Ready, Given, Joining, Deploying
<1>9. QED
  BY <1>4, <1>5, <1>6, <1>7, <1>8 DEF MultisigInv

\* Every step keeps the invariant.
LEMMA NextMultisig == MultisigInv /\ [Next]_vars => MultisigInv'
<1> SUFFICES ASSUME MultisigInv, [Next]_vars PROVE MultisigInv'
  OBVIOUS
<1>1. CASE UNCHANGED vars
  BY <1>1 DEF vars, MultisigInv, TypeOK, ListRight, Within, CopiesWithinCount, Control, Alone, Apart,
              Open, Owners, CopiesAgree, Ready, Late, Holders, Found, Carried, Joining,
              Statuses, StatusesAgree, Waits, Fits, Given, Deploying, AllIn
<1>2. CASE DeployStep
  BY <1>2, SendContractKeeps, AddMultisigKeeps, MatchCodeKeeps, FindContractKeeps, SetContractKeeps
     DEF DeployStep
<1>3. ASSUME NEW r \in Requests, RequestStep(r) PROVE MultisigInv'
  BY <1>3, StartKeeps, CreateCheckKeeps, CreatePushKeeps, JoinCheckKeeps, JoinReadKeeps,
     JoinPushKeeps, LeaveReadKeeps, AdminReadKeeps, FindUsersKeeps, DropOwnKeeps,
     DropKickedKeeps, UpdateOwnersKeeps, EraseCopyKeeps, UpdatedKeeps DEF RequestStep
<1>4. QED
  BY <1>1, <1>2, <1>3 DEF Next

\* The copies and what the handlers carry go together, always.
THEOREM MultisigInvariant == Spec => []MultisigInv
  BY InitMultisig, NextMultisig, PTL DEF Spec

\* Every variable holds a value of its kind, and the list a handler is about to
\* write has the sender joined or the target removed.
THEOREM MultisigTyped == Spec => []TypeOK
<1>1. MultisigInv => TypeOK
  BY DEF MultisigInv
<1>2. QED
  BY <1>1, MultisigInvariant, PTL

\* No copy lists more owners than the wallet is for.
THEOREM MultisigWithinCount == Spec => []CopiesWithinCount
<1>1. MultisigInv => CopiesWithinCount
  BY DEF MultisigInv, Within
<1>2. QED
  BY <1>1, MultisigInvariant, PTL

\* Requests served one at a time leave copies that list the users who hold one.
THEOREM MultisigRestOwners == Spec => []RestOwnersAgree
<1>1. MultisigInv => RestOwnersAgree
  <2> SUFFICES ASSUME MultisigInv, Open = {}, ~mixed, NEW u \in Holders
               PROVE  /\ Len(copies[u]) = 1
                      /\ ToSet(Head(copies[u]).owners) = Holders
                      /\ Len(Head(copies[u]).owners) = Cardinality(Holders)
                      /\ \A n \in Found : n.creator = Head(copies[u]).creator
    BY DEF RestOwnersAgree
  <2>1. \A q \in Requests : Late(q) = {}
    BY DEF MultisigInv, Open, Control, Late
  <2>2. u \in Ready
    BY <2>1 DEF Ready
  <2>3. CopiesAgree
    BY DEF MultisigInv, Owners
  <2>4. QED
    BY <2>2, <2>3 DEF CopiesAgree, Distinct, Found
<1>2. QED
  BY <1>1, MultisigInvariant, PTL

\* They leave one status and one contract as well, if no report came while a
\* request was served; without a contract the status says whether the wallet is full.
THEOREM MultisigRestStatus == Spec => []RestStatusAgrees
<1>1. MultisigInv => RestStatusAgrees
  <2> SUFFICES ASSUME MultisigInv, AtRest, ~mixed, ~raced
               PROVE  /\ \A m, n \in Found : m.status = n.status /\ m.contract = n.contract
                      /\ (members = {} /\ ~vain) =>
                           \A m \in Found : m.status = "AllJoined" <=> Len(m.owners) = OwnersCount
    BY DEF RestStatusAgrees
  <2>1. \A q \in Requests : Late(q) = {}
    BY DEF MultisigInv, AtRest, Open, Control, Late
  <2>2. Ready = Holders
    BY <2>1 DEF Ready
  <2>3. StatusesAgree
    BY DEF MultisigInv, Statuses
  <2>4. \A u : ~Waits(u)
    BY DEF AtRest, Waits
  <2>5. \A m, n \in Found : m.status = n.status /\ m.contract = n.contract
    BY <2>2, <2>3, <2>4 DEF StatusesAgree, Found
  <2>6. ASSUME members = {}, ~vain, NEW m \in Found
        PROVE  m.status = "AllJoined" <=> Len(m.owners) = OwnersCount
    <3>1. PICK u \in Holders : m = Head(copies[u])
      BY <2>6 DEF Found
    <3>2. m.owners \in Seq(Users) /\ m \in ToSet(copies[u]) /\ u \in Users
      BY <3>1, CopyHeld DEF MultisigInv, Copy
    <3>3. Len(m.owners) \in Nat /\ Len(m.owners) <= OwnersCount
      BY <3>2, LenProperties DEF MultisigInv, Within, CopiesWithinCount
    <3>4. Fits(m.status, Len(m.owners))
      BY <2>2, <2>3, <3>1 DEF StatusesAgree
    <3>5. QED
      BY <2>6, <3>3, <3>4, TwoOwners DEF Fits
  <2>7. QED
    BY <2>5, <2>6
<1>2. QED
  BY <1>1, MultisigInvariant, PTL

\* A step keeps the contract's address in a copy: only a report that found no copy
\* with it writes it, and that report was asked of a copy like all others.
LEMMA StepKeepsContract ==
    ASSUME MultisigInv, [Next]_vars, ~mixed, ~raced, NEW u \in Users,
           copies[u] # <<>>, copies'[u] # <<>>, Head(copies[u]).contract
    PROVE  Head(copies'[u]).contract
<1>1. TypeOK /\ u \in Holders
  BY DEF MultisigInv, Holders
<1>2. CASE UNCHANGED copies
  BY <1>2
<1>3. ASSUME NEW r \in Requests, CreatePush(r) \/ JoinPush(r) PROVE Head(copies'[u]).contract
  <2>1. r.by \in Users /\ ms[r] \in Copy
    BY <1>1, MultisigAssumption DEF TypeOK
  <2>2. PICK e \in Copy : copies' = [copies EXCEPT ![r.by] = Append(@, e)]
    BY <1>3, <2>1, NewCopyTyped DEF CreatePush, JoinPush
  <2>3. /\ \A v \in Users : v # r.by => copies'[v] = copies[v]
        /\ r.by \in Holders => Head(copies'[r.by]) = Head(copies[r.by])
    BY <1>1, <2>1, <2>2, PutLast
  <2>4. QED
    BY <1>1, <2>3
<1>4. ASSUME NEW r \in Requests, DropOwn(r) \/ DropKicked(r) \/ EraseCopy(r)
      PROVE  Head(copies'[u]).contract
  <2>1. PICK v \in Users : copies' = [copies EXCEPT ![v] = <<>>]
    BY <1>1, <1>4, MultisigAssumption DEF DropOwn, DropKicked, EraseCopy, TypeOK
  <2>2. QED
    BY <1>1, <2>1, DropAll
<1>5. ASSUME NEW r \in Requests, UpdateOwners(r) PROVE Head(copies'[u]).contract
  <2>1. PICK v \in todo[r] :
          copies' = IF copies[v] = <<>> THEN copies
                    ELSE [copies EXCEPT ![v][1] =
                            [@ EXCEPT !.owners = Once(ms[r].owners), !.status = given[r]]]
    BY <1>5 DEF UpdateOwners
  <2>2. v \in Users
    BY <1>1, <1>5 DEF TypeOK
  <2>3. CASE v # u \/ copies[v] = <<>>
    BY <1>1, <2>1, <2>2, <2>3 DEF TypeOK
  <2>4. CASE v = u
    <3> DEFINE e == [Head(copies[u]) EXCEPT !.owners = Once(ms[r].owners), !.status = given[r]]
    <3>1. copies[u] # <<>> /\ Head(copies[u]) = copies[u][1] /\ Head(copies[u]) \in Copy
      BY <1>1, CopyHeld
    <3>2. e \in Copy /\ e.contract = Head(copies[u]).contract
      <4>1. ms[r].owners \in Seq(Users) /\ given[r] \in Status
        BY <1>1, <1>5 DEF TypeOK, Copy
      <4>2. Once(ms[r].owners) \in Seq(Users)
        BY <4>1, OnceSet
      <4>3. QED
        BY <3>1, <4>1, <4>2 DEF Copy
    <3>3. copies' = [copies EXCEPT ![u] = [copies[u] EXCEPT ![1] = e]]
      <4>1. copies' = [copies EXCEPT ![u] = [copies[u] EXCEPT ![1] =
                         [copies[u][1] EXCEPT !.owners = Once(ms[r].owners), !.status = given[r]]]]
        BY <2>1, <2>4, <3>1
      <4>2. QED
        BY <3>1, <4>1
    <3> HIDE DEF e
    <3>4. Head(copies'[u]) = e
      BY <1>1, <3>2, <3>3, PutFirst
    <3>5. QED
      BY <3>2, <3>4
  <2>5. QED
    BY <2>3, <2>4
<1>6. CASE SetContract
  <2>1. deploy = "set" /\ Deploying
    BY <1>6 DEF SetContract, MultisigInv, Statuses
  <2>2. u \notin left
    BY <1>1, <2>1 DEF Deploying
  <2>3. copies'[u] = copies[u]
    BY <1>1, <1>6, <2>2 DEF SetContract, TypeOK
  <2>4. QED
    BY <2>3
<1>7. ASSUME NEW r \in Requests, RequestStep(r) PROVE Head(copies'[u]).contract
  BY <1>2, <1>3, <1>4, <1>5, <1>7
     DEF RequestStep, Start, CreateCheck, JoinCheck, JoinRead, LeaveRead, AdminRead, FindUsers, Updated
<1>8. CASE DeployStep
  BY <1>2, <1>6, <1>8 DEF DeployStep, SendContract, AddMultisig, MatchCode, FindContract
<1>9. QED
  BY <1>2, <1>7, <1>8 DEF Next, vars

\* A copy that has the contract's address keeps it, if requests are served one at a
\* time and no report comes meanwhile.
THEOREM MultisigContractKept == Spec => ContractKept
<1>1. MultisigInv /\ [Next]_vars =>
        [\A u \in Users :
           (~mixed /\ ~raced /\ copies[u] # <<>> /\ copies'[u] # <<>> /\ Head(copies[u]).contract)
              => Head(copies'[u]).contract]_vars
  BY StepKeepsContract
<1>2. QED
  BY <1>1, MultisigInvariant, PTL DEF Spec, ContractKept
=============================================================================
