-------------------------- MODULE CipherResolveProofs --------------------------
(***************************************************************************)
(* Theorems about CipherResolve, for every vault and every selector.  What *)
(* the two loops leave (over the ciphers by name, over the custom fields)  *)
(* is proved by induction on the number of turns.                          *)
(***************************************************************************)
EXTENDS CipherResolve, SetInduction

-----------------------------------------------------------------------------
(* Vaults *)

(* What CasesAssumption says of a vault, as far as lookups need it. *)
ProperVault(v) ==
    /\ IsSequence(v)
    /\ \A i, j \in DOMAIN v : v[i].id = v[j].id => i = j
    /\ \A i \in DOMAIN v :
          v[i].deleted \in BOOLEAN /\ v[i].org \in BOOLEAN /\ Decrypt(v[i]) # None

(* The domain of a sequence. *)
LEMMA SequenceShape ==
  ASSUME NEW s, IsSequence(s)
  PROVE  Len(s) \in Nat /\ DOMAIN s = 1..Len(s)
BY DEF IsSequence

-----------------------------------------------------------------------------
(* The loop of resolve_synced_cipher_by_name *)

IsScan(acc, v, name) ==
    acc = [n \in 0..Len(v) |->
              IF n = 0 THEN NothingSeen ELSE Scan(name, acc[n - 1], v[n])]

(* What is done with the state the loop ends in. *)
Conclude(end) ==
    CASE end.error # "none" -> Failed(end.error)
      [] end.error = "none" /\ end.item # None -> Found(end.item)
      [] OTHER -> Failed(IF end.shared THEN "unsupported_shared_item" ELSE "item_not_found")

(* The recursion has a solution. *)
LEMMA ScanExists ==
  ASSUME NEW v, NEW name, Len(v) \in Nat
  PROVE  \E acc : IsScan(acc, v, name)
<1> DEFINE ScanAt(acc, n) == IF n = 0 THEN NothingSeen ELSE Scan(name, acc[n - 1], v[n])
           T == {m \in Nat : \E acc : acc = [n \in 0..m |-> ScanAt(acc, n)]}
<1>1. 0 \in T
  <2> DEFINE acc == [n \in 0..0 |-> NothingSeen]
  <2>1. \A n \in 0..0 : ScanAt(acc, n) = NothingSeen
    OBVIOUS
  <2>2. acc = [n \in 0..0 |-> ScanAt(acc, n)]
    BY <2>1
  <2>3. QED
    BY <2>2
<1>2. ASSUME NEW m \in Nat, m \in T PROVE m + 1 \in T
  <2>1. PICK acc : acc = [n \in 0..m |-> ScanAt(acc, n)]
    BY <1>2
  <2> DEFINE next == [n \in 0..(m + 1) |-> IF n <= m THEN acc[n] ELSE ScanAt(acc, m + 1)]
  <2>2. ASSUME NEW n \in 0..(m + 1) PROVE next[n] = ScanAt(next, n)
    <3>1. CASE n = 0
      BY <2>1, <3>1
    <3>2. CASE n # 0 /\ n <= m
      <4>1. n - 1 \in 0..(m + 1) /\ n - 1 <= m /\ n \in 0..m
        BY <3>2
      <4>2. next[n - 1] = acc[n - 1] /\ next[n] = acc[n]
        BY <4>1
      <4>3. QED
        BY <2>1, <3>2, <4>1, <4>2
    <3>3. CASE n = m + 1
      <4>1. n - 1 \in 0..(m + 1) /\ n - 1 <= m /\ ~(n <= m) /\ n # 0
        BY <3>3
      <4>2. next[n - 1] = acc[n - 1] /\ next[n] = ScanAt(acc, n)
        BY <3>3, <4>1
      <4>3. QED
        BY <4>1, <4>2
    <3>4. QED
      BY <3>1, <3>2, <3>3
  <2>3. next = [n \in 0..(m + 1) |-> ScanAt(next, n)]
    BY <2>2
  <2>4. \E f : f = [n \in 0..(m + 1) |-> ScanAt(f, n)]
    <3> HIDE DEF next
    <3>1. QED
      BY <2>3
  <2>5. m + 1 \in Nat
    OBVIOUS
  <2>6. QED
    <3> HIDE DEF ScanAt
    <3>1. QED
      BY <2>4, <2>5
<1>3. Len(v) \in T
  <2> HIDE DEF T
  <2>1. QED
    BY <1>1, <1>2, NatSetInduction
<1>4. QED
  BY <1>3 DEF IsScan

(* Lookup by name is the conclusion of the loop. *)
LEMMA ResolveByNameShape ==
  ASSUME NEW v, NEW name, Len(v) \in Nat
  PROVE  \E acc : IsScan(acc, v, name) /\ ResolveByName(v, name) = Conclude(acc[Len(v)])
<1> DEFINE h == CHOOSE k : IsScan(k, v, name)
<1>1. IsScan(h, v, name)
  BY ScanExists
<1>2. ResolveByName(v, name) = Conclude(h[Len(v)])
  BY DEF ResolveByName, IsScan, Conclude
<1>3. QED
  BY <1>1, <1>2

(* A cipher that the loop counts as a match, and one that ends it. *)
Matches(c, name) ==
    ~c.deleted /\ ~c.org /\ Decrypt(c) # Bad /\ Decrypt(c).name = name

Unreadable(c) == ~c.deleted /\ ~c.org /\ Decrypt(c) = Bad

SharedItem(c) == ~c.deleted /\ c.org

(* What a state of the loop says about the first n ciphers. *)
OnlyMatch(a, v, name, n, i) ==
    /\ Matches(v[i], name) /\ a.item = Decrypt(v[i])
    /\ \A j \in 1..n : Matches(v[j], name) => j = i

GoesOn(a, v, name, n) ==
    /\ \A i \in 1..n : ~Unreadable(v[i])
    /\ a.shared = (\E i \in 1..n : SharedItem(v[i]))
    /\ a.item = None => \A i \in 1..n : ~Matches(v[i], name)
    /\ a.item # None => \E i \in 1..n : OnlyMatch(a, v, name, n, i)

Stopped(v, name, n) ==
    \/ \E i \in 1..n : Unreadable(v[i])
    \/ \E i, j \in 1..n : i # j /\ Matches(v[i], name) /\ Matches(v[j], name)

ScanState(a, v, name, n) ==
    /\ a \in [error : {"none", "crypto", "ambiguous_selector"},
              item : {a.item}, shared : BOOLEAN]
    /\ a.error = "none" => GoesOn(a, v, name, n)
    /\ a.error # "none" => Stopped(v, name, n)

(* One turn of the loop. *)
LEMMA ScanTurn ==
  ASSUME NEW v, NEW name, ProperVault(v), NEW n \in 1..Len(v), NEW a,
         ScanState(a, v, name, n - 1)
  PROVE  ScanState(Scan(name, a, v[n]), v, name, n)
<1> DEFINE c == v[n]
           b == Scan(name, a, c)
<1>1. Len(v) \in Nat /\ DOMAIN v = 1..Len(v)
  BY SequenceShape DEF ProperVault
<1>2. /\ c.deleted \in BOOLEAN /\ c.org \in BOOLEAN /\ Decrypt(c) # None
      /\ n - 1 \in Nat /\ \A i : i \in 1..n <=> i \in 1..(n - 1) \/ i = n
  BY <1>1 DEF ProperVault
<1>3. a \in [error : {"none", "crypto", "ambiguous_selector"}, item : {a.item}, shared : BOOLEAN]
  BY DEF ScanState
<1>4. CASE a.error # "none"
  <2>1. Stopped(v, name, n - 1)
    BY <1>4 DEF ScanState
  <2>2. Stopped(v, name, n)
    BY <1>2, <2>1 DEF Stopped
  <2>3. b = [a EXCEPT !.shared = a.shared \/ FALSE]
    BY <1>4 DEF Scan, Considered, NoteShared
  <2>4. b = a
    BY <1>3, <2>3
  <2>5. QED
    BY <1>3, <1>4, <2>2, <2>4 DEF ScanState
<1>5. CASE a.error = "none" /\ ~Considered(a, c)
  <2>1. b = [a EXCEPT !.shared = a.shared \/ SharedItem(c)]
    BY <1>5 DEF Scan, NoteShared, SharedItem
  <2>2. /\ b.error = "none" /\ b.item = a.item /\ b.shared = (a.shared \/ SharedItem(c))
        /\ b \in [error : {"none", "crypto", "ambiguous_selector"}, item : {b.item}, shared : BOOLEAN]
    <3>1. SharedItem(c) \in BOOLEAN
      BY <1>2 DEF SharedItem
    <3>2. QED
      BY <1>3, <1>5, <2>1, <3>1
  <2>3. GoesOn(a, v, name, n - 1)
    BY <1>5 DEF ScanState
  <2>4. ~Matches(c, name) /\ ~Unreadable(c)
    BY <1>5 DEF Considered, Matches, Unreadable
  <2>5. GoesOn(b, v, name, n)
    BY <1>2, <2>2, <2>3, <2>4 DEF GoesOn, OnlyMatch
  <2>6. QED
    BY <2>2, <2>5 DEF ScanState
<1>6. CASE a.error = "none" /\ Considered(a, c)
  <2>1. GoesOn(a, v, name, n - 1) /\ ~SharedItem(c) /\ ~c.deleted /\ ~c.org
    BY <1>6 DEF ScanState, Considered, SharedItem
  <2>2. CASE Decrypt(c) = Bad
    <3>1. b = [a EXCEPT !.error = "crypto"]
      BY <1>6, <2>2 DEF Scan
    <3>2. Stopped(v, name, n)
      BY <1>2, <2>1, <2>2 DEF Stopped, Unreadable
    <3>3. QED
      BY <1>3, <3>1, <3>2 DEF ScanState
  <2>3. CASE Decrypt(c) # Bad /\ Decrypt(c).name # name
    <3>1. b = a
      BY <1>6, <2>3 DEF Scan
    <3>2. ~Matches(c, name) /\ ~Unreadable(c)
      BY <2>3 DEF Matches, Unreadable
    <3>3. GoesOn(b, v, name, n)
      BY <1>2, <2>1, <3>1, <3>2 DEF GoesOn, OnlyMatch
    <3>4. QED
      BY <1>3, <1>6, <3>1, <3>3 DEF ScanState
  <2>4. CASE Decrypt(c) # Bad /\ Decrypt(c).name = name /\ a.item # None
    <3>1. b = [a EXCEPT !.error = "ambiguous_selector"]
      BY <1>6, <2>4 DEF Scan
    <3>2. PICK i \in 1..(n - 1) : Matches(v[i], name)
      BY <2>1, <2>4 DEF GoesOn, OnlyMatch
    <3>3. Matches(v[n], name) /\ i # n /\ i \in 1..n /\ n \in 1..n
      BY <1>2, <2>1, <2>4 DEF Matches
    <3>4. Stopped(v, name, n)
      BY <3>2, <3>3 DEF Stopped
    <3>5. QED
      BY <1>3, <3>1, <3>4 DEF ScanState
  <2>5. CASE Decrypt(c) # Bad /\ Decrypt(c).name = name /\ a.item = None
    <3>1. b = [a EXCEPT !.item = Decrypt(c)]
      BY <1>6, <2>5 DEF Scan
    <3>2. /\ b.error = "none" /\ b.item = Decrypt(c) /\ b.shared = a.shared
          /\ b \in [error : {"none", "crypto", "ambiguous_selector"}, item : {b.item}, shared : BOOLEAN]
      BY <1>3, <1>6, <3>1
    <3>3. Matches(c, name) /\ ~Unreadable(c)
      BY <2>1, <2>5 DEF Matches, Unreadable
    <3>4. OnlyMatch(b, v, name, n, n)
      BY <1>2, <2>1, <2>5, <3>2, <3>3 DEF GoesOn, OnlyMatch
    <3>5. GoesOn(b, v, name, n)
      BY <1>2, <2>1, <3>2, <3>3, <3>4 DEF GoesOn
    <3>6. QED
      BY <3>2, <3>5 DEF ScanState
  <2>6. QED
    BY <2>2, <2>3, <2>4, <2>5
<1>7. QED
  BY <1>4, <1>5, <1>6

(* The state of the loop after every turn, by induction on the turns. *)
LEMMA ScanInduction ==
  ASSUME NEW v, NEW name, ProperVault(v), NEW acc, IsScan(acc, v, name)
  PROVE  ScanState(acc[Len(v)], v, name, Len(v))
<1> DEFINE T == {n \in Nat : n <= Len(v) => ScanState(acc[n], v, name, n)}
<1>1. Len(v) \in Nat
  BY SequenceShape DEF ProperVault
<1>2. 0 \in T
  <2>1. acc[0] = NothingSeen
    BY <1>1 DEF IsScan
  <2>2. ScanState(NothingSeen, v, name, 0)
    BY DEF ScanState, NothingSeen, GoesOn
  <2>3. QED
    BY <2>1, <2>2
<1>3. ASSUME NEW n \in Nat, n \in T PROVE n + 1 \in T
  <2> SUFFICES ASSUME n + 1 <= Len(v) PROVE ScanState(acc[n + 1], v, name, n + 1)
    OBVIOUS
  <2>1. n + 1 \in 1..Len(v) /\ (n + 1) - 1 = n /\ n + 1 \in 0..Len(v) /\ n + 1 # 0
    BY <1>1
  <2>2. ScanState(acc[n], v, name, n)
    BY <1>1, <1>3, <2>1
  <2>3. acc[n + 1] = Scan(name, acc[n], v[n + 1])
    BY <2>1 DEF IsScan
  <2>4. QED
    <3> DEFINE m == n + 1
    <3>1. m \in 1..Len(v) /\ ScanState(acc[n], v, name, m - 1)
      BY <2>1, <2>2
    <3> HIDE DEF m
    <3>2. ScanState(Scan(name, acc[n], v[m]), v, name, m)
      BY <3>1, ScanTurn
    <3>3. QED
      BY <2>3, <3>2 DEF m
<1>4. Len(v) \in T
  <2> HIDE DEF T
  <2>1. QED
    BY <1>1, <1>2, <1>3, NatSetInduction
<1>5. QED
  BY <1>1, <1>4

-----------------------------------------------------------------------------
(* What a lookup comes to *)

(* Lookup by name: each outcome, and what it says about the vault. *)
LEMMA ByNameOutcome ==
  ASSUME NEW v, NEW name, ProperVault(v)
  PROVE  LET r == ResolveByName(v, name) IN
         /\ r.error \in {"none", "crypto", "ambiguous_selector", "unsupported_shared_item",
                         "item_not_found"}
         /\ r.error = "item_not_found" =>
               \A i \in DOMAIN v : ~Unreadable(v[i]) /\ ~SharedItem(v[i]) /\ ~Matches(v[i], name)
         /\ r.error = "none" =>
               /\ \A i \in DOMAIN v : ~Unreadable(v[i])
               /\ \E i \in DOMAIN v :
                     /\ Matches(v[i], name) /\ r = Found(Decrypt(v[i]))
                     /\ \A j \in DOMAIN v : Matches(v[j], name) => j = i
<1>1. Len(v) \in Nat /\ DOMAIN v = 1..Len(v)
  BY SequenceShape DEF ProperVault
<1>2. PICK acc : IsScan(acc, v, name) /\ ResolveByName(v, name) = Conclude(acc[Len(v)])
  BY <1>1, ResolveByNameShape
<1> DEFINE n == Len(v)
           a == acc[n]
           r == ResolveByName(v, name)
<1>3. ScanState(a, v, name, n)
  BY <1>2, ScanInduction
<1> HIDE DEF a, n
<1>4. r = Conclude(a)
  BY <1>2 DEF a, n
<1> HIDE DEF r
<1>5. CASE a.error # "none"
  <2>1. r = Failed(a.error) /\ a.error \in {"crypto", "ambiguous_selector"}
    BY <1>3, <1>4, <1>5 DEF Conclude, ScanState
  <2>2. QED
    BY <2>1 DEF Failed, r
<1>6. CASE a.error = "none" /\ a.item # None
  <2>1. r = Found(a.item) /\ GoesOn(a, v, name, n)
    BY <1>3, <1>4, <1>6 DEF Conclude, ScanState
  <2>2. PICK i \in 1..n : OnlyMatch(a, v, name, n, i)
    BY <1>6, <2>1 DEF GoesOn
  <2>3. /\ \A j \in DOMAIN v : ~Unreadable(v[j])
        /\ i \in DOMAIN v /\ Matches(v[i], name) /\ r = Found(Decrypt(v[i]))
        /\ \A j \in DOMAIN v : Matches(v[j], name) => j = i
    BY <1>1, <2>1, <2>2 DEF OnlyMatch, GoesOn, n
  <2>4. r.error = "none"
    BY <2>1 DEF Found
  <2>5. QED
    BY <2>3, <2>4 DEF r
<1>7. CASE a.error = "none" /\ a.item = None
  <2>1. r = Failed(IF a.shared THEN "unsupported_shared_item" ELSE "item_not_found")
    BY <1>4, <1>7 DEF Conclude
  <2>2. GoesOn(a, v, name, n)
    BY <1>3, <1>7 DEF ScanState
  <2>3. CASE a.shared
    BY <2>1, <2>3 DEF Failed, r
  <2>4. CASE ~a.shared
    <3>1. r.error = "item_not_found"
      BY <2>1, <2>4 DEF Failed
    <3>2. \A i \in DOMAIN v : ~Unreadable(v[i]) /\ ~SharedItem(v[i]) /\ ~Matches(v[i], name)
      BY <1>1, <1>7, <2>2, <2>4 DEF GoesOn, n
    <3>3. QED
      BY <3>1, <3>2 DEF r
  <2>5. QED
    BY <2>3, <2>4
<1>8. QED
  BY <1>5, <1>6, <1>7

(* Lookup by name, from what is in the vault: the two outcomes in which    *)
(* the order of the ciphers cannot matter.                                 *)
LEMMA ByNameDetermined ==
  ASSUME NEW v, NEW name, ProperVault(v), \A i \in DOMAIN v : ~Unreadable(v[i])
  PROVE  /\ (\A i \in DOMAIN v : ~SharedItem(v[i]) /\ ~Matches(v[i], name)) =>
               ResolveByName(v, name) = Failed("item_not_found")
         /\ \A i \in DOMAIN v :
               Matches(v[i], name) /\ (\A j \in DOMAIN v : Matches(v[j], name) => j = i) =>
                  ResolveByName(v, name) = Found(Decrypt(v[i]))
<1>1. Len(v) \in Nat /\ DOMAIN v = 1..Len(v)
  BY SequenceShape DEF ProperVault
<1>2. PICK acc : IsScan(acc, v, name) /\ ResolveByName(v, name) = Conclude(acc[Len(v)])
  BY <1>1, ResolveByNameShape
<1> DEFINE n == Len(v)
           a == acc[n]
<1>3. ScanState(a, v, name, n)
  BY <1>2, ScanInduction
<1> HIDE DEF a, n
<1>4. ResolveByName(v, name) = Conclude(a) /\ DOMAIN v = 1..n
  BY <1>1, <1>2 DEF a, n
<1>5. ASSUME \A i \in DOMAIN v : ~SharedItem(v[i]) /\ ~Matches(v[i], name)
      PROVE  ResolveByName(v, name) = Failed("item_not_found")
  <2>1. ~Stopped(v, name, n)
    BY <1>4, <1>5 DEF Stopped
  <2>2. a.error = "none" /\ GoesOn(a, v, name, n)
    BY <1>3, <2>1 DEF ScanState
  <2>3. a.item = None
    BY <1>4, <1>5, <2>2 DEF GoesOn, OnlyMatch
  <2>4. ~a.shared
    BY <1>4, <1>5, <2>2 DEF GoesOn
  <2>5. QED
    BY <1>4, <2>2, <2>3, <2>4 DEF Conclude
<1>6. ASSUME NEW i \in DOMAIN v, Matches(v[i], name),
             \A j \in DOMAIN v : Matches(v[j], name) => j = i
      PROVE  ResolveByName(v, name) = Found(Decrypt(v[i]))
  <2>1. ~Stopped(v, name, n)
    BY <1>4, <1>6 DEF Stopped
  <2>2. a.error = "none" /\ GoesOn(a, v, name, n)
    BY <1>3, <2>1 DEF ScanState
  <2>3. a.item # None
    BY <1>4, <1>6, <2>2 DEF GoesOn
  <2>4. a.item = Decrypt(v[i])
    BY <1>4, <1>6, <2>2, <2>3 DEF GoesOn, OnlyMatch
  <2>5. QED
    BY <1>4, <2>2, <2>3, <2>4 DEF Conclude
<1>7. QED
  BY <1>5, <1>6

(* What a lookup by id makes of the cipher it hits. *)
OutcomeOf(c) ==
    IF c.org THEN Failed("unsupported_shared_item")
    ELSE IF Decrypt(c) = Bad THEN Failed("crypto") ELSE Found(Decrypt(c))

(* Lookup by id: the live cipher with the id decides, and there is one. *)
LEMMA ByIdOutcome ==
  ASSUME NEW v, NEW id, ProperVault(v)
  PROVE  /\ (\A i \in DOMAIN v : v[i].id = id => v[i].deleted) =>
               ResolveById(v, id) = Failed("item_not_found")
         /\ \A i \in DOMAIN v :
               v[i].id = id /\ ~v[i].deleted => ResolveById(v, id) = OutcomeOf(v[i])
<1> DEFINE hits == {i \in DOMAIN v : v[i].id = id /\ ~v[i].deleted}
<1>1. ASSUME \A i \in DOMAIN v : v[i].id = id => v[i].deleted
      PROVE  ResolveById(v, id) = Failed("item_not_found")
  <2>1. hits = {}
    BY <1>1
  <2>2. QED
    BY <2>1 DEF ResolveById
<1>2. ASSUME NEW i \in DOMAIN v, v[i].id = id, ~v[i].deleted
      PROVE  ResolveById(v, id) = OutcomeOf(v[i])
  <2>1. hits = {i}
    BY <1>2 DEF ProperVault
  <2>2. i \in Nat
    BY SequenceShape DEF ProperVault
  <2>3. Min(hits) \in hits /\ hits # {}
    BY <2>1, <2>2, MinIsLeast
  <2>4. Min(hits) = i
    BY <2>1, <2>3
  <2>5. v[i].org \in BOOLEAN
    BY DEF ProperVault
  <2>6. QED
    BY <2>3, <2>4, <2>5 DEF ResolveById, OutcomeOf
<1>3. QED
  BY <1>1, <1>2

(* What decryption leaves as it is. *)
LEMMA DecryptShape ==
  ASSUME NEW c, Decrypt(c) # Bad
  PROVE  /\ Decrypt(c).org = c.org /\ Decrypt(c).id = c.id
         /\ Decrypt(c).fields = [i \in DOMAIN c.fields |-> PlainRecord(c.fields[i], ItemKey(c))]
BY DEF Decrypt

-----------------------------------------------------------------------------
(* The loop of to_secret_document *)

IsInsertion(acc, d) ==
    acc = [n \in 0..Len(d.fields) |->
              IF n = 0 THEN Ok(BaseDocument(d)) ELSE InsertField(acc[n - 1], d.fields[n])]

Checked(end) ==
    IF end.kind = "none" /\ DOMAIN end.document = {} THEN Err("crypto") ELSE end

(* The recursion has a solution. *)
LEMMA InsertionExists ==
  ASSUME NEW d, Len(d.fields) \in Nat
  PROVE  \E acc : IsInsertion(acc, d)
<1> DEFINE Turn(acc, n) ==
              IF n = 0 THEN Ok(BaseDocument(d)) ELSE InsertField(acc[n - 1], d.fields[n])
           T == {m \in Nat : \E acc : acc = [n \in 0..m |-> Turn(acc, n)]}
<1>1. 0 \in T
  <2> DEFINE acc == [n \in 0..0 |-> Ok(BaseDocument(d))]
  <2>1. \A n \in 0..0 : Turn(acc, n) = Ok(BaseDocument(d))
    OBVIOUS
  <2>2. acc = [n \in 0..0 |-> Turn(acc, n)]
    BY <2>1
  <2>3. QED
    BY <2>2
<1>2. ASSUME NEW m \in Nat, m \in T PROVE m + 1 \in T
  <2>1. PICK acc : acc = [n \in 0..m |-> Turn(acc, n)]
    BY <1>2
  <2> DEFINE next == [n \in 0..(m + 1) |-> IF n <= m THEN acc[n] ELSE Turn(acc, m + 1)]
  <2>2. ASSUME NEW n \in 0..(m + 1) PROVE next[n] = Turn(next, n)
    <3>1. CASE n = 0
      BY <2>1, <3>1
    <3>2. CASE n # 0 /\ n <= m
      <4>1. n - 1 \in 0..(m + 1) /\ n - 1 <= m /\ n \in 0..m
        BY <3>2
      <4>2. next[n - 1] = acc[n - 1] /\ next[n] = acc[n]
        BY <4>1
      <4>3. QED
        BY <2>1, <3>2, <4>1, <4>2
    <3>3. CASE n = m + 1
      <4>1. n - 1 \in 0..(m + 1) /\ n - 1 <= m /\ ~(n <= m) /\ n # 0
        BY <3>3
      <4>2. next[n - 1] = acc[n - 1] /\ next[n] = Turn(acc, n)
        BY <3>3, <4>1
      <4>3. QED
        BY <4>1, <4>2
    <3>4. QED
      BY <3>1, <3>2, <3>3
  <2>3. next = [n \in 0..(m + 1) |-> Turn(next, n)]
    BY <2>2
  <2>4. \E f : f = [n \in 0..(m + 1) |-> Turn(f, n)]
    <3> HIDE DEF next
    <3>1. QED
      BY <2>3
  <2>5. m + 1 \in Nat
    OBVIOUS
  <2>6. QED
    <3> HIDE DEF Turn
    <3>1. QED
      BY <2>4, <2>5
<1>3. Len(d.fields) \in T
  <2> HIDE DEF T
  <2>1. QED
    BY <1>1, <1>2, NatSetInduction
<1>4. QED
  BY <1>3 DEF IsInsertion

(* The whole document is what the loop ends with. *)
LEMMA ToSecretDocumentShape ==
  ASSUME NEW d, Len(d.fields) \in Nat
  PROVE  \E acc : IsInsertion(acc, d) /\ ToSecretDocument(d) = Checked(acc[Len(d.fields)])
<1> DEFINE h == CHOOSE k : IsInsertion(k, d)
<1>1. IsInsertion(h, d)
  BY InsertionExists
<1>2. ToSecretDocument(d) = Checked(h[Len(d.fields)])
  BY DEF ToSecretDocument, IsInsertion, Checked
<1>3. QED
  BY <1>1, <1>2

(* The custom fields among the first n that have an output. *)
Writing(d, n) == {i \in 1..n : HasOutput(d.fields[i])}

(* What a document says about the first n custom fields. *)
HasWritten(document, d, n) ==
    LET base == BaseDocument(d) IN
    /\ \A k : k \in DOMAIN document <=>
                 k \in DOMAIN base \/ \E i \in Writing(d, n) : k = d.fields[i].name
    /\ \A k \in DOMAIN base : document[k] = base[k]
    /\ \A i \in Writing(d, n) :
          /\ d.fields[i].name \notin DOMAIN base
          /\ document[d.fields[i].name] = d.fields[i].value
    /\ \A i, j \in Writing(d, n) : d.fields[i].name = d.fields[j].name => i = j

InsertState(a, d, n) ==
    /\ a \in [kind : {"none", "ambiguous_document"}, document : {a.document}]
    /\ a.kind = "none" => HasWritten(a.document, d, n)

(* One turn of the loop. *)
LEMMA InsertTurn ==
  ASSUME NEW d, NEW n \in Nat \ {0}, NEW a, InsertState(a, d, n - 1)
  PROVE  InsertState(InsertField(a, d.fields[n]), d, n)
<1> DEFINE f == d.fields[n]
           b == InsertField(a, f)
<1>1. n - 1 \in Nat /\ \A i : i \in 1..n <=> i \in 1..(n - 1) \/ i = n
  OBVIOUS
<1>2. \A i : i \in Writing(d, n) <=> i \in Writing(d, n - 1) \/ (i = n /\ HasOutput(f))
  BY <1>1 DEF Writing
<1>3. \A i \in Writing(d, n - 1) : i # n
  BY <1>1 DEF Writing
<1>4. CASE a.kind # "none"
  <2>1. b = a
    BY <1>4 DEF InsertField
  <2>2. QED
    BY <1>4, <2>1 DEF InsertState
<1>5. CASE a.kind = "none" /\ ~HasOutput(f)
  <2>1. b = a
    BY <1>5 DEF InsertField
  <2>2. HasWritten(a.document, d, n - 1)
    BY <1>5 DEF InsertState
  <2>3. HasWritten(a.document, d, n)
    BY <1>2, <1>5, <2>2 DEF HasWritten
  <2>4. QED
    BY <2>1, <2>3 DEF InsertState
<1>6. CASE a.kind = "none" /\ HasOutput(f) /\ f.name \in DOMAIN a.document
  <2>1. b = Err("ambiguous_document")
    BY <1>6 DEF InsertField
  <2>2. QED
    BY <2>1 DEF InsertState, Err
<1>7. CASE a.kind = "none" /\ HasOutput(f) /\ f.name \notin DOMAIN a.document
  <2> DEFINE document == Put(a.document, f.name, f.value)
  <2>1. b = Ok(document)
    BY <1>7 DEF InsertField
  <2>2. HasWritten(a.document, d, n - 1)
    BY <1>7 DEF InsertState
  <2>3. /\ \A k : k \in DOMAIN document <=> k \in DOMAIN a.document \/ k = f.name
        /\ document[f.name] = f.value
        /\ \A k \in DOMAIN a.document : document[k] = a.document[k]
    BY <1>7 DEF Put
  <2> HIDE DEF document
  <2>4. \A k : k \in DOMAIN document <=>
                  k \in DOMAIN BaseDocument(d) \/ \E i \in Writing(d, n) : k = d.fields[i].name
    BY <1>2, <1>7, <2>2, <2>3 DEF HasWritten
  <2>5. \A k \in DOMAIN BaseDocument(d) : document[k] = BaseDocument(d)[k]
    BY <2>2, <2>3 DEF HasWritten
  <2>6. ASSUME NEW i \in Writing(d, n)
        PROVE  /\ d.fields[i].name \notin DOMAIN BaseDocument(d)
               /\ document[d.fields[i].name] = d.fields[i].value
    BY <1>2, <1>7, <2>2, <2>3, <2>6 DEF HasWritten
  <2>7. ASSUME NEW i \in Writing(d, n), NEW j \in Writing(d, n), d.fields[i].name = d.fields[j].name
        PROVE  i = j
    BY <1>2, <1>7, <2>2, <2>7 DEF HasWritten
  <2>8. HasWritten(document, d, n)
    BY <2>4, <2>5, <2>6, <2>7 DEF HasWritten
  <2>9. QED
    BY <2>1, <2>8 DEF InsertState, Ok
<1>8. QED
  BY <1>4, <1>5, <1>6, <1>7

(* The state of the loop after every turn, by induction on the turns. *)
LEMMA InsertInduction ==
  ASSUME NEW d, Len(d.fields) \in Nat, NEW acc, IsInsertion(acc, d)
  PROVE  InsertState(acc[Len(d.fields)], d, Len(d.fields))
<1> DEFINE T == {n \in Nat : n <= Len(d.fields) => InsertState(acc[n], d, n)}
<1>2. 0 \in T
  <2>1. acc[0] = Ok(BaseDocument(d))
    BY DEF IsInsertion
  <2>2. Writing(d, 0) = {}
    BY DEF Writing
  <2>3. InsertState(Ok(BaseDocument(d)), d, 0)
    BY <2>2 DEF InsertState, HasWritten, Ok
  <2>4. QED
    BY <2>1, <2>3
<1>3. ASSUME NEW n \in Nat, n \in T PROVE n + 1 \in T
  <2> SUFFICES ASSUME n + 1 <= Len(d.fields) PROVE InsertState(acc[n + 1], d, n + 1)
    OBVIOUS
  <2>1. n + 1 \in Nat \ {0} /\ (n + 1) - 1 = n /\ n + 1 \in 0..Len(d.fields)
    OBVIOUS
  <2>2. InsertState(acc[n], d, n)
    BY <1>3, <2>1
  <2>3. acc[n + 1] = InsertField(acc[n], d.fields[n + 1])
    BY <2>1 DEF IsInsertion
  <2> DEFINE m == n + 1
  <2>4. m \in Nat \ {0} /\ InsertState(acc[n], d, m - 1)
    BY <2>1, <2>2
  <2> HIDE DEF m
  <2>5. InsertState(InsertField(acc[n], d.fields[m]), d, m)
    BY <2>4, InsertTurn
  <2>6. QED
    BY <2>3, <2>5 DEF m
<1>4. Len(d.fields) \in T
  <2> HIDE DEF T
  <2>1. QED
    BY <1>2, <1>3, NatSetInduction
<1>5. QED
  BY <1>4

(* The whole document of an item: refused, or every output once. *)
LEMMA DocumentOutcome ==
  ASSUME NEW d, Len(d.fields) \in Nat
  PROVE  LET r == ToSecretDocument(d) IN
         /\ r.kind \in {"none", "ambiguous_document", "crypto"}
         /\ r.kind = "none" => HasWritten(r.document, d, Len(d.fields))
<1>1. PICK acc : IsInsertion(acc, d) /\ ToSecretDocument(d) = Checked(acc[Len(d.fields)])
  BY ToSecretDocumentShape
<1> DEFINE a == acc[Len(d.fields)]
           n == Len(d.fields)
<1>2. InsertState(a, d, n)
  BY <1>1, InsertInduction
<1> HIDE DEF a, n
<1>3. ToSecretDocument(d) = Checked(a)
  BY <1>1 DEF a
<1>4. CASE a.kind = "none" /\ DOMAIN a.document = {}
  BY <1>3, <1>4 DEF Checked, Err
<1>5. CASE ~(a.kind = "none" /\ DOMAIN a.document = {})
  BY <1>2, <1>3, <1>5 DEF Checked, InsertState, n
<1>6. QED
  BY <1>4, <1>5

-----------------------------------------------------------------------------
(* From the selector to the answer *)

AnswerKinds ==
    {"none", "property_not_found", "ambiguous_document", "validation",
     "unsupported_attachment", "crypto"}

(* A single property is found or refused, with these errors. *)
LEMMA ExtractKinds ==
  ASSUME NEW d, NEW property
  PROVE  Extract(d, property).kind \in AnswerKinds
<1>1. \A value : Existing(value).kind \in AnswerKinds
  BY DEF Existing, Ok, Err, AnswerKinds
<1>2. \A name : ExtractCustom(d, name).kind \in AnswerKinds
  BY <1>1 DEF ExtractCustom, Err, AnswerKinds
<1>3. /\ Err("validation").kind \in AnswerKinds
      /\ Err("unsupported_attachment").kind \in AnswerKinds
  BY DEF Err, AnswerKinds
<1>4. QED
  BY <1>1, <1>2, <1>3 DEF Extract

(* An item that was found is never answered as one that is missing. *)
LEMMA AnswerOutcome ==
  ASSUME NEW d, Len(d.fields) \in Nat, NEW property
  PROVE  Answer(d, property).kind \in AnswerKinds
<1>1. ToSecretDocument(d).kind \in AnswerKinds
  BY DocumentOutcome DEF AnswerKinds
<1>2. \A document : Ok(document).kind \in AnswerKinds
  BY DEF Ok, AnswerKinds
<1>3. QED
  BY <1>1, <1>2, ExtractKinds DEF Answer

(* A selector is one of the two forms, or refused before any lookup. *)
LEMMA SelectorOutcome ==
  ASSUME NEW q
  PROVE  /\ SelectorError(q) \in {"none", "validation", "unsupported_version"}
         /\ SelectorError(q) = "none" =>
               /\ ValidKey(Trim(q.key))
               /\ q.property # None => Trim(q.property) # <<>>
BY DEF SelectorError

(* Fields of the items of a vault. *)
ProperFields(v) ==
    \A i \in DOMAIN v :
        /\ IsSequence(v[i].fields)
        /\ \A f \in Range(v[i].fields) :
              /\ f # None /\ PlainRecord(f, ItemKey(v[i])) # None
              /\ DOMAIN f = {"name", "value"}
              /\ f.name # None => IsSequence(f.name.text)

(* The fields of a decrypted item are a sequence. *)
LEMMA DecryptedFields ==
  ASSUME NEW v, ProperFields(v), NEW i \in DOMAIN v, Decrypt(v[i]) # Bad
  PROVE  LET fields == Decrypt(v[i]).fields IN
         Len(fields) \in Nat /\ DOMAIN fields = 1..Len(fields)
<1>1. Decrypt(v[i]).fields = [j \in DOMAIN v[i].fields |-> PlainRecord(v[i].fields[j], ItemKey(v[i]))]
  BY DecryptShape
<1>2. Len(v[i].fields) \in Nat /\ DOMAIN v[i].fields = 1..Len(v[i].fields)
  BY SequenceShape DEF ProperFields
<1> DEFINE f == Decrypt(v[i]).fields
           n == Len(v[i].fields)
<1>3. f \in [1..n -> {f[j] : j \in 1..n}]
  BY <1>1, <1>2
<1> HIDE DEF f, n
<1>4. n \in Nat
  BY <1>2 DEF n
<1>5. f \in Seq({f[j] : j \in 1..n}) /\ Len(f) = n
  BY <1>3, <1>4
<1>6. Len(f) \in Nat /\ DOMAIN f = 1..Len(f)
  BY <1>5
<1>7. QED
  BY <1>6 DEF f

(* What a selector names: the items a lookup may answer with. *)
Selected(v, key, i) ==
    /\ ~v[i].deleted /\ ~v[i].org /\ Decrypt(v[i]) # Bad
    /\ IF StartsWith(key, {"id:"}) THEN v[i].id = Tail(key)
       ELSE Decrypt(v[i]).name = Tail(key)

Absent(v, key) ==
    IF StartsWith(key, {"id:"}) THEN \A i \in DOMAIN v : v[i].id = Tail(key) => v[i].deleted
    ELSE \A i \in DOMAIN v :
            ~Unreadable(v[i]) /\ ~SharedItem(v[i]) /\ ~Matches(v[i], Tail(key))

LookupErrors ==
    {"none", "crypto", "ambiguous_selector", "unsupported_shared_item", "item_not_found"}

LookupSays(v, key, hit) ==
    /\ hit.error \in LookupErrors
    /\ hit.error = "item_not_found" => Absent(v, key)
    /\ hit.error = "none" =>
          \E i \in DOMAIN v :
             /\ Selected(v, key, i) /\ hit = Found(Decrypt(v[i]))
             /\ \A j \in DOMAIN v : Selected(v, key, j) => j = i
             /\ ~StartsWith(key, {"id:"}) => \A j \in DOMAIN v : ~Unreadable(v[j])

(* The outcomes of a lookup, and what each says about the vault. *)
LEMMA LookupOutcome ==
  ASSUME NEW v, NEW key, ProperVault(v), ValidKey(key)
  PROVE  LookupSays(v, key, Lookup(v, key))
<1> DEFINE hit == Lookup(v, key)
<1>1. CASE StartsWith(key, {"id:"})
  <2>1. hit = ResolveById(v, Tail(key))
    BY <1>1 DEF Lookup, StartsWith
  <2>2. CASE \A i \in DOMAIN v : v[i].id = Tail(key) => v[i].deleted
    <3>1. hit = Failed("item_not_found")
      BY <2>1, <2>2, ByIdOutcome
    <3>2. QED
      BY <1>1, <2>2, <3>1 DEF Failed, Absent, LookupErrors, LookupSays
  <2>3. ASSUME NEW i \in DOMAIN v, v[i].id = Tail(key), ~v[i].deleted PROVE LookupSays(v, key, hit)
    <3>1. hit = OutcomeOf(v[i])
      BY <2>1, <2>3, ByIdOutcome
    <3>2. hit.error \in {"none", "crypto", "unsupported_shared_item"}
      BY <3>1 DEF OutcomeOf, Failed, Found
    <3>3. hit.error = "none" => ~v[i].org /\ Decrypt(v[i]) # Bad /\ hit = Found(Decrypt(v[i]))
      BY <3>1 DEF OutcomeOf, Failed, Found
    <3>4. hit.error = "none" => Selected(v, key, i)
      BY <1>1, <2>3, <3>3 DEF Selected
    <3>5. \A j \in DOMAIN v : Selected(v, key, j) => j = i
      BY <1>1, <2>3 DEF Selected, ProperVault
    <3>6. QED
      BY <1>1, <3>2, <3>3, <3>4, <3>5 DEF LookupErrors, LookupSays
  <2>4. QED
    BY <2>2, <2>3
<1>2. CASE ~StartsWith(key, {"id:"})
  <2>1. StartsWith(key, {"name:"})
    BY <1>2 DEF ValidKey, StartsWith
  <2>2. hit = ResolveByName(v, Tail(key))
    BY <1>2, <2>1 DEF Lookup
  <2>3. \A j : Selected(v, key, j) <=> Matches(v[j], Tail(key))
    BY <1>2 DEF Selected, Matches
  <2>4. QED
    BY <1>2, <2>2, <2>3, ByNameOutcome DEF Absent, LookupErrors, LookupSays
<1>3. QED
  BY <1>1, <1>2

(* Every call ends in one of three ways. *)
LEMMA ResolveOutcome ==
  ASSUME NEW v, NEW q, ProperVault(v), ProperFields(v)
  PROVE  LET r == Resolve(v, q)
             key == Trim(q.key)
             hit == Lookup(v, key)
         IN  \/ /\ SelectorError(q) # "none" /\ r = Err(SelectorError(q))
                /\ r.kind \in {"validation", "unsupported_version"}
             \/ /\ SelectorError(q) = "none" /\ ValidKey(key)
                /\ hit.error # "none" /\ r = Err(hit.error) /\ hit.error \in LookupErrors
             \/ /\ SelectorError(q) = "none" /\ ValidKey(key)
                /\ hit.error = "none"
                /\ r = Answer(hit.item, Property(q)) /\ r.kind \in AnswerKinds
<1> DEFINE r == Resolve(v, q)
           key == Trim(q.key)
           hit == Lookup(v, key)
<1>1. CASE SelectorError(q) # "none"
  <2>1. r = Err(SelectorError(q))
    BY <1>1 DEF Resolve
  <2>2. r.kind = SelectorError(q)
    BY <2>1 DEF Err
  <2>3. QED
    BY <1>1, <2>1, <2>2, SelectorOutcome
<1>2. CASE SelectorError(q) = "none" /\ hit.error # "none"
  <2>1. r = Err(hit.error)
    BY <1>2 DEF Resolve
  <2>2. ValidKey(key)
    BY <1>2, SelectorOutcome
  <2>3. hit.error \in LookupErrors
    BY <2>2, LookupOutcome DEF LookupSays
  <2>4. QED
    BY <1>2, <2>1, <2>2, <2>3
<1>3. CASE SelectorError(q) = "none" /\ hit.error = "none"
  <2>1. ValidKey(key)
    BY <1>3, SelectorOutcome
  <2>2. PICK i \in DOMAIN v : Selected(v, key, i) /\ hit = Found(Decrypt(v[i]))
    BY <1>3, <2>1, LookupOutcome DEF LookupSays
  <2>3. hit.item = Decrypt(v[i]) /\ Decrypt(v[i]) # Bad /\ ~v[i].org
    BY <2>2 DEF Found, Selected
  <2>4. ~hit.item.org
    BY <2>3, DecryptShape
  <2>5. r = Answer(hit.item, Property(q))
    BY <1>3, <2>4 DEF Resolve
  <2>6. r.kind \in AnswerKinds
    BY <2>3, <2>5, DecryptedFields, AnswerOutcome
  <2>7. QED
    BY <1>3, <2>1, <2>5, <2>6
<1>4. QED
  BY <1>1, <1>2, <1>3

-----------------------------------------------------------------------------
(* The invariant: a case, and its answer once there is one. *)

CaseInv ==
    /\ ProperVault(vault) /\ ProperFields(vault)
    /\ ref.property # None => IsSequence(ref.property) /\ Trim(ref.property) # None
    /\ result = None \/ result = Resolve(vault, ref)

(* The invariant holds of every case and its answer. *)
LEMMA CaseInvariant == Spec => []CaseInv
<1>1. Init => CaseInv
  BY CasesAssumption DEF Init, CaseInv, ProperVault, ProperFields
<1>2. CaseInv /\ [Next]_vars => CaseInv'
  <2> SUFFICES ASSUME CaseInv, [Next]_vars PROVE CaseInv'
    OBVIOUS
  <2>1. CASE Call
    BY <2>1 DEF CaseInv, Call
  <2>2. CASE UNCHANGED vars
    BY <2>2 DEF CaseInv, vars
  <2>3. QED
    BY <2>1, <2>2 DEF Next
<1>3. QED
  BY <1>1, <1>2, PTL DEF Spec

AllKinds == {"validation", "unsupported_version"} \cup LookupErrors \cup AnswerKinds

(* The status of the errors there are. *)
LEMMA OnlyNotFoundIs404 ==
  ASSUME NEW kind \in AllKinds
  PROVE  /\ HttpStatus(kind) = 404 => kind = "item_not_found"
         /\ HttpStatus(kind) = 200 => kind = "none"
BY DEF HttpStatus, AllKinds, LookupErrors, AnswerKinds

(* A 404 implies that the item is absent (resolve_synced_cipher_by_id and  *)
(* _by_name, provider_status_and_kind): External Secrets deletes what is   *)
(* answered with 404, so no vault and no selector may lead to one unless   *)
(* the vault shows that no such live item exists.                          *)
THEOREM NotFoundMeansAbsentHolds == Spec => []NotFoundMeansAbsent
<1>1. CaseInv => NotFoundMeansAbsent
  <2> SUFFICES ASSUME CaseInv, result # None, HttpStatus(result.kind) = 404
               PROVE  /\ ValidKey(Key)
                      /\ IF ById THEN \A i \in Live : vault[i].id # Tail(Key)
                         ELSE Readable = Live /\ Named = {}
    BY DEF NotFoundMeansAbsent, Answered
  <2>1. ProperVault(vault) /\ ProperFields(vault) /\ result = Resolve(vault, ref)
    BY DEF CaseInv
  <2>2. result.kind \in AllKinds
    BY <2>1, ResolveOutcome DEF Err, AllKinds
  <2>3. result.kind = "item_not_found"
    BY <2>2, OnlyNotFoundIs404
  <2>4. ValidKey(Key) /\ Lookup(vault, Key).error = "item_not_found"
    BY <2>1, <2>3, ResolveOutcome DEF Err, Key, AnswerKinds
  <2>5. Absent(vault, Key)
    BY <2>1, <2>4, LookupOutcome DEF LookupSays
  <2>6. CASE ById
    BY <2>4, <2>5, <2>6 DEF ById, Absent, Live
  <2>7. CASE ~ById
    <3>1. ~StartsWith(Key, {"id:"})
      BY <2>7 DEF ById
    <3>2. \A i \in DOMAIN vault :
             ~Unreadable(vault[i]) /\ ~SharedItem(vault[i]) /\ ~Matches(vault[i], Tail(Key))
      BY <2>5, <3>1 DEF Absent
    <3>3. Readable = Live
      BY <3>2 DEF Unreadable, SharedItem, Readable, Personal, Live
    <3>4. Named = {}
      BY <2>7, <3>2 DEF Named, Matches, Readable, Personal, Live
    <3>5. QED
      BY <2>4, <2>7, <3>3, <3>4
  <2>8. QED
    BY <2>6, <2>7
<1>2. QED
  BY <1>1, CaseInvariant, PTL

(* A document is that of the only live personal item the selector names;   *)
(* a name selects only when every live personal item decrypts.             *)
THEOREM DocumentFromTheItemHolds == Spec => []DocumentFromTheItem
<1>1. CaseInv => DocumentFromTheItem
  <2> SUFFICES ASSUME CaseInv, result # None, result.kind = "none"
               PROVE  \E i \in Named :
                         /\ result = Answer(Decrypt(vault[i]), Property(ref))
                         /\ Named = {i}
                         /\ ~ById => Readable = Personal
    BY DEF DocumentFromTheItem, Succeeded, Answered
  <2>1. ProperVault(vault) /\ ProperFields(vault) /\ result = Resolve(vault, ref)
    BY DEF CaseInv
  <2>2. /\ ValidKey(Key) /\ Lookup(vault, Key).error = "none"
        /\ result = Answer(Lookup(vault, Key).item, Property(ref))
    BY <2>1, ResolveOutcome DEF Err, Key
  <2>3. PICK i \in DOMAIN vault :
           /\ Selected(vault, Key, i) /\ Lookup(vault, Key) = Found(Decrypt(vault[i]))
           /\ \A j \in DOMAIN vault : Selected(vault, Key, j) => j = i
           /\ ~StartsWith(Key, {"id:"}) => \A j \in DOMAIN vault : ~Unreadable(vault[j])
    BY <2>1, <2>2, LookupOutcome DEF LookupSays
  <2>4. \A j : j \in Named <=> j \in DOMAIN vault /\ Selected(vault, Key, j)
    BY DEF Named, Selected, ById, Readable, Personal, Live
  <2>5. Named = {i}
    BY <2>3, <2>4
  <2>6. result = Answer(Decrypt(vault[i]), Property(ref))
    BY <2>2, <2>3 DEF Found
  <2>7. ~ById => Readable = Personal
    BY <2>3 DEF ById, Unreadable, Readable, Personal, Live
  <2>8. QED
    BY <2>5, <2>6, <2>7
<1>2. QED
  BY <1>1, CaseInvariant, PTL

-----------------------------------------------------------------------------
(* The order of the ciphers *)

(* Where an item is absent the lookup says so, whatever the order. *)
LEMMA LookupOfAbsent ==
  ASSUME NEW v, NEW key, ProperVault(v), ValidKey(key), Absent(v, key)
  PROVE  Lookup(v, key) = Failed("item_not_found")
<1>1. CASE StartsWith(key, {"id:"})
  <2>1. Lookup(v, key) = ResolveById(v, Tail(key))
    BY <1>1 DEF Lookup, StartsWith
  <2>2. \A i \in DOMAIN v : v[i].id = Tail(key) => v[i].deleted
    BY <1>1 DEF Absent
  <2>3. QED
    BY <2>1, <2>2, ByIdOutcome
<1>2. CASE ~StartsWith(key, {"id:"})
  <2>1. Lookup(v, key) = ResolveByName(v, Tail(key))
    BY <1>2 DEF Lookup, ValidKey, StartsWith
  <2>2. \A i \in DOMAIN v :
           ~Unreadable(v[i]) /\ ~SharedItem(v[i]) /\ ~Matches(v[i], Tail(key))
    BY <1>2 DEF Absent
  <2>3. QED
    BY <2>1, <2>2, ByNameDetermined
<1>3. QED
  BY <1>1, <1>2

(* The only item that is selected is found, whatever the order. *)
LEMMA LookupOfOnly ==
  ASSUME NEW v, NEW key, ProperVault(v), ValidKey(key),
         NEW i \in DOMAIN v, Selected(v, key, i),
         \A j \in DOMAIN v : Selected(v, key, j) => j = i,
         ~StartsWith(key, {"id:"}) => \A j \in DOMAIN v : ~Unreadable(v[j])
  PROVE  Lookup(v, key) = Found(Decrypt(v[i]))
<1>1. CASE StartsWith(key, {"id:"})
  <2>1. Lookup(v, key) = ResolveById(v, Tail(key))
    BY <1>1 DEF Lookup, StartsWith
  <2>2. v[i].id = Tail(key) /\ ~v[i].deleted /\ ~v[i].org /\ Decrypt(v[i]) # Bad
    BY <1>1 DEF Selected
  <2>3. ResolveById(v, Tail(key)) = OutcomeOf(v[i])
    BY <2>2, ByIdOutcome
  <2>4. QED
    BY <2>1, <2>2, <2>3 DEF OutcomeOf
<1>2. CASE ~StartsWith(key, {"id:"})
  <2>1. Lookup(v, key) = ResolveByName(v, Tail(key))
    BY <1>2 DEF Lookup, ValidKey, StartsWith
  <2>2. \A j : Selected(v, key, j) <=> Matches(v[j], Tail(key))
    BY <1>2 DEF Selected, Matches
  <2>3. /\ Matches(v[i], Tail(key))
        /\ \A j \in DOMAIN v : Matches(v[j], Tail(key)) => j = i
        /\ \A j \in DOMAIN v : ~Unreadable(v[j])
    BY <1>2, <2>2
  <2>4. QED
    BY <2>1, <2>3, ByNameDetermined
<1>3. QED
  BY <1>1, <1>2

(* A vault read backwards: the same ciphers, at mirrored places. *)
LEMMA ReverseShape ==
  ASSUME NEW v, ProperVault(v), ProperFields(v)
  PROVE  LET w == Reverse(v)
             mirror(i) == (Len(v) - i) + 1
         IN  /\ ProperVault(w) /\ ProperFields(w) /\ DOMAIN w = DOMAIN v
             /\ \A i \in DOMAIN v : /\ mirror(i) \in DOMAIN v /\ mirror(mirror(i)) = i
                                    /\ w[i] = v[mirror(i)]
<1> DEFINE w == Reverse(v)
           n == Len(v)
           mirror(i) == (n - i) + 1
<1>1. n \in Nat /\ DOMAIN v = 1..n
  BY SequenceShape DEF ProperVault
<1>2. w = [i \in 1..n |-> v[mirror(i)]]
  BY DEF Reverse
<1> HIDE DEF w, n
<1>3. DOMAIN w = DOMAIN v /\ \A i \in 1..n : w[i] = v[mirror(i)]
  BY <1>1, <1>2
<1>4. \A i \in 1..n : mirror(i) \in 1..n /\ mirror(mirror(i)) = i
  BY <1>1
<1> HIDE DEF mirror
<1>5. IsSequence(w)
  <2>1. w \in [1..n -> Range(w)]
    BY <1>1, <1>2 DEF Range
  <2>2. QED
    BY <1>1, <2>1 DEF IsSequence
<1>6. \A i, j \in DOMAIN w : w[i].id = w[j].id => i = j
  <2> SUFFICES ASSUME NEW i \in 1..n, NEW j \in 1..n, w[i].id = w[j].id PROVE i = j
    BY <1>1, <1>3
  <2>1. v[mirror(i)].id = v[mirror(j)].id /\ mirror(i) \in DOMAIN v /\ mirror(j) \in DOMAIN v
    BY <1>1, <1>3, <1>4
  <2>2. mirror(i) = mirror(j)
    BY <2>1 DEF ProperVault
  <2>3. mirror(mirror(i)) = mirror(mirror(j))
    BY <2>2
  <2>4. QED
    BY <1>4, <2>3
<1>7. ProperVault(w) /\ ProperFields(w)
  <2>1. ProperVault(w)
    BY <1>1, <1>3, <1>4, <1>5, <1>6 DEF ProperVault
  <2>2. \A i \in DOMAIN w : \E j \in DOMAIN v : w[i] = v[j]
    BY <1>1, <1>3, <1>4
  <2>3. ProperFields(w)
    BY <2>2, Zenon DEF ProperFields
  <2>4. QED
    BY <2>1, <2>3
<1>8. QED
  BY <1>1, <1>3, <1>4, <1>7 DEF w, n, mirror

(* Neither a document nor a 404 depends on the order of the ciphers in the *)
(* sync response: of the lookups' early returns only errors are left that  *)
(* could be others (resolve_synced_cipher_by_name).                        *)
THEOREM OrderIrrelevantHolds == Spec => []OrderIrrelevant
<1>1. CaseInv => OrderIrrelevant
  <2> SUFFICES ASSUME CaseInv, result # None, HttpStatus(result.kind) \in {200, 404}
               PROVE  Resolve(Reverse(vault), ref) = result
    BY DEF OrderIrrelevant, Answered
  <2> DEFINE v == vault
             w == Reverse(vault)
             mirror(i) == (Len(v) - i) + 1
  <2>1. ProperVault(v) /\ ProperFields(v) /\ result = Resolve(v, ref)
    BY DEF CaseInv
  <2>2. /\ ProperVault(w) /\ ProperFields(w) /\ DOMAIN w = DOMAIN v
        /\ \A i \in DOMAIN v : /\ mirror(i) \in DOMAIN v /\ mirror(mirror(i)) = i
                               /\ w[i] = v[mirror(i)]
    BY <2>1, ReverseShape
  <2> HIDE DEF w, mirror
  <2>3. result.kind \in AllKinds
    BY <2>1, ResolveOutcome DEF Err, AllKinds
  <2>4. CASE result.kind = "item_not_found"
    <3>1. SelectorError(ref) = "none" /\ ValidKey(Key) /\ Lookup(v, Key).error = "item_not_found"
      BY <2>1, <2>4, ResolveOutcome DEF Err, Key, AnswerKinds
    <3>2. Absent(v, Key)
      BY <2>1, <3>1, LookupOutcome DEF LookupSays
    <3>3. Absent(w, Key)
      BY <2>2, <3>2 DEF Absent
    <3>4. Lookup(w, Key).error = "item_not_found"
      BY <2>2, <3>1, <3>3, LookupOfAbsent DEF Failed
    <3>5. Resolve(w, ref) = Err("item_not_found")
      BY <2>2, <3>1, <3>4, ResolveOutcome DEF Key
    <3>6. result = Err("item_not_found")
      BY <2>1, <3>1, ResolveOutcome DEF Key
    <3>7. QED
      BY <3>5, <3>6 DEF w
  <2>5. CASE result.kind = "none"
    <3>1. /\ SelectorError(ref) = "none" /\ ValidKey(Key) /\ Lookup(v, Key).error = "none"
          /\ result = Answer(Lookup(v, Key).item, Property(ref))
      BY <2>1, <2>5, ResolveOutcome DEF Err, Key
    <3>2. PICK i \in DOMAIN v :
             /\ Selected(v, Key, i) /\ Lookup(v, Key) = Found(Decrypt(v[i]))
             /\ \A j \in DOMAIN v : Selected(v, Key, j) => j = i
             /\ ~StartsWith(Key, {"id:"}) => \A j \in DOMAIN v : ~Unreadable(v[j])
      BY <2>1, <3>1, LookupOutcome DEF LookupSays
    <3>3. \A j \in DOMAIN v : Selected(w, Key, j) <=> Selected(v, Key, mirror(j))
      BY <2>2 DEF Selected
    <3>4. mirror(i) \in DOMAIN w /\ w[mirror(i)] = v[i] /\ Selected(w, Key, mirror(i))
      BY <2>2, <3>2, <3>3
    <3>5. \A j \in DOMAIN w : Selected(w, Key, j) => j = mirror(i)
      BY <2>2, <3>2, <3>3
    <3>6. ~StartsWith(Key, {"id:"}) => \A j \in DOMAIN w : ~Unreadable(w[j])
      BY <2>2, <3>2
    <3>7. Lookup(w, Key) = Found(Decrypt(v[i]))
      BY <2>2, <3>1, <3>4, <3>5, <3>6, LookupOfOnly
    <3>8. Lookup(w, Key).error = "none" /\ Lookup(w, Key).item = Lookup(v, Key).item
      BY <3>2, <3>7 DEF Found
    <3>9. Resolve(w, ref) = Answer(Lookup(w, Key).item, Property(ref))
      BY <2>2, <3>1, <3>8, ResolveOutcome DEF Key
    <3>10. QED
      BY <3>1, <3>8, <3>9 DEF w
  <2>6. QED
    BY <2>3, <2>4, <2>5, OnlyNotFoundIs404
<1>2. QED
  BY <1>1, CaseInvariant, PTL

-----------------------------------------------------------------------------
(* Whole documents *)

(* The members a document starts with are finitely many. *)
LEMMA BaseFinite ==
  ASSUME NEW d
  PROVE  IsFiniteSet(DOMAIN BaseDocument(d))
<1> DEFINE names == {<<"notes">>, <<"username">>, <<"password">>, <<"totp">>,
                     <<"privateKey">>, <<"publicKey">>, <<"keyFingerprint">>}
<1>1. DOMAIN BaseDocument(d) \subseteq names
  BY DEF BaseDocument
<1>2. IsFiniteSet({<<"notes">>})
  BY FS_Singleton
<1>3. IsFiniteSet({<<"notes">>} \cup {<<"username">>})
  BY <1>2, FS_AddElement
<1>4. IsFiniteSet({<<"notes">>} \cup {<<"username">>} \cup {<<"password">>})
  BY <1>3, FS_AddElement
<1>5. IsFiniteSet({<<"notes">>} \cup {<<"username">>} \cup {<<"password">>} \cup {<<"totp">>})
  BY <1>4, FS_AddElement
<1>6. IsFiniteSet({<<"notes">>} \cup {<<"username">>} \cup {<<"password">>} \cup {<<"totp">>}
                  \cup {<<"privateKey">>})
  BY <1>5, FS_AddElement
<1>7. IsFiniteSet({<<"notes">>} \cup {<<"username">>} \cup {<<"password">>} \cup {<<"totp">>}
                  \cup {<<"privateKey">>} \cup {<<"publicKey">>})
  BY <1>6, FS_AddElement
<1>8. IsFiniteSet({<<"notes">>} \cup {<<"username">>} \cup {<<"password">>} \cup {<<"totp">>}
                  \cup {<<"privateKey">>} \cup {<<"publicKey">>} \cup {<<"keyFingerprint">>})
  BY <1>7, FS_AddElement
<1>9. names = {<<"notes">>} \cup {<<"username">>} \cup {<<"password">>} \cup {<<"totp">>}
                  \cup {<<"privateKey">>} \cup {<<"publicKey">>} \cup {<<"keyFingerprint">>}
  BY Zenon
<1>10. IsFiniteSet(names)
  BY <1>8, <1>9
<1>11. QED
  <2> HIDE DEF names
  <2>1. QED
    BY <1>1, <1>10, FS_Subset

BaseOutput(d, o, k) == o = <<k, BaseDocument(d)[k], 0>>
FieldOutput(d, o, i) == o = <<d.fields[i].name, d.fields[i].value, i>>

(* An output is a member of the start or a custom field. *)
LEMMA OutputShape ==
  ASSUME NEW d, DOMAIN d.fields = 1..Len(d.fields), NEW o
  PROVE  o \in Outputs(d) <=>
            \/ \E k \in DOMAIN BaseDocument(d) : BaseOutput(d, o, k)
            \/ \E i \in Writing(d, Len(d.fields)) : FieldOutput(d, o, i)
<1>1. Writing(d, Len(d.fields)) = {j \in DOMAIN d.fields : HasOutput(d.fields[j])}
  BY DEF Writing
<1>2. QED
  BY <1>1 DEF Outputs, BaseOutput, FieldOutput

(* An item has finitely many outputs. *)
LEMMA OutputsFinite ==
  ASSUME NEW d, Len(d.fields) \in Nat, DOMAIN d.fields = 1..Len(d.fields)
  PROVE  IsFiniteSet(Outputs(d))
<1> DEFINE base == [k \in DOMAIN BaseDocument(d) |-> <<k, BaseDocument(d)[k], 0>>]
           custom == [i \in DOMAIN d.fields |-> <<d.fields[i].name, d.fields[i].value, i>>]
           W == {j \in DOMAIN d.fields : HasOutput(d.fields[j])}
           A == {base[k] : k \in DOMAIN BaseDocument(d)}
           B == {custom[i] : i \in W}
<1>1. IsFiniteSet(A)
  BY BaseFinite, ImageFinite
<1>2. IsFiniteSet(W)
  <2>1. IsFiniteSet(1..Len(d.fields))
    <3> DEFINE m == Len(d.fields)
    <3>1. m \in Int
      OBVIOUS
    <3> HIDE DEF m, base, custom, W, A, B
    <3>2. IsFiniteSet(1..m)
      BY <3>1, IndicesFinite
    <3>3. QED
      BY <3>2 DEF m
  <2>2. W \in SUBSET (1..Len(d.fields))
    OBVIOUS
  <2>3. QED
    BY <2>1, <2>2, FS_Subset
<1>3. IsFiniteSet(B)
  <2> HIDE DEF W, custom
  <2>1. QED
    BY <1>2, ImageFinite
<1>4. Outputs(d) = A \cup B
  BY DEF Outputs
<1>5. QED
  <2> HIDE DEF A, B
  <2>1. QED
    BY <1>1, <1>3, <1>4, FS_Union

(* In a document, outputs and members are one to one. *)
LEMMA OutputsAreMembers ==
  ASSUME NEW d, Len(d.fields) \in Nat, DOMAIN d.fields = 1..Len(d.fields),
         NEW document, HasWritten(document, d, Len(d.fields))
  PROVE  /\ DOMAIN document = {o[1] : o \in Outputs(d)}
         /\ Cardinality(Outputs(d)) = Cardinality(DOMAIN document)
         /\ \A o \in Outputs(d) : document[o[1]] = o[2]
<1> DEFINE n == Len(d.fields)
           base == BaseDocument(d)
<1>1. ASSUME NEW o \in Outputs(d)
      PROVE  o[1] \in DOMAIN document /\ document[o[1]] = o[2]
  <2>1. CASE \E k \in DOMAIN base : BaseOutput(d, o, k)
    BY <2>1 DEF BaseOutput, HasWritten
  <2>2. CASE \E i \in Writing(d, n) : FieldOutput(d, o, i)
    BY <2>2 DEF FieldOutput, HasWritten
  <2>3. QED
    BY <2>1, <2>2, OutputShape
<1>2. ASSUME NEW k \in DOMAIN document
      PROVE  \E o \in Outputs(d) : o[1] = k
  <2>1. CASE k \in DOMAIN base
    <3>1. <<k, base[k], 0>> \in Outputs(d)
      BY <2>1, OutputShape DEF BaseOutput
    <3>2. QED
      BY <3>1
  <2>2. CASE k \notin DOMAIN base
    <3>1. PICK i \in Writing(d, n) : k = d.fields[i].name
      BY <2>2 DEF HasWritten
    <3>2. <<d.fields[i].name, d.fields[i].value, i>> \in Outputs(d)
      BY <3>1, OutputShape DEF FieldOutput
    <3>3. QED
      BY <3>1, <3>2
  <2>3. QED
    BY <2>1, <2>2
<1>3. ASSUME NEW o \in Outputs(d), NEW p \in Outputs(d), o[1] = p[1]
      PROVE  o = p
  <2>1. ASSUME NEW k \in DOMAIN base, BaseOutput(d, o, k),
               NEW l \in DOMAIN base, BaseOutput(d, p, l)
        PROVE  o = p
    BY <1>3, <2>1 DEF BaseOutput
  <2>2. ASSUME NEW k \in DOMAIN base, NEW i \in Writing(d, n)
        PROVE  ~(BaseOutput(d, o, k) /\ FieldOutput(d, p, i)) /\ ~(BaseOutput(d, p, k) /\ FieldOutput(d, o, i))
    BY <1>3, <2>2 DEF BaseOutput, FieldOutput, HasWritten
  <2>3. ASSUME NEW i \in Writing(d, n), FieldOutput(d, o, i),
               NEW j \in Writing(d, n), FieldOutput(d, p, j)
        PROVE  o = p
    <3>1. d.fields[i].name = d.fields[j].name
      BY <1>3, <2>3 DEF FieldOutput
    <3>2. i = j
      BY <3>1 DEF HasWritten
    <3>3. QED
      BY <2>3, <3>2 DEF FieldOutput
  <2>4. QED
    BY <2>1, <2>2, <2>3, OutputShape
<1>4. DOMAIN document = {o[1] : o \in Outputs(d)}
  BY <1>1, <1>2
<1>5. Cardinality(Outputs(d)) = Cardinality(DOMAIN document)
  <2> DEFINE f == [o \in Outputs(d) |-> o[1]]
  <2>1. f \in Bijection(Outputs(d), DOMAIN document)
    BY <1>1, <1>2, <1>3 DEF Bijection, Injection, Surjection, IsInjective
  <2>2. ExistsBijection(Outputs(d), DOMAIN document)
    <3> HIDE DEF f
    <3>1. QED
      BY <2>1 DEF ExistsBijection
  <2>3. QED
    BY <2>2, OutputsFinite, FS_Bijection
<1>6. QED
  BY <1>1, <1>4, <1>5

(* What follows a success: the one item, and the answer made of it. *)
LEMMA SuccessShape ==
  ASSUME CaseInv, Succeeded
  PROVE  \A i \in Named :
            LET d == Decrypt(vault[i]) IN
            /\ result = Answer(d, Property(ref))
            /\ Len(d.fields) \in Nat /\ DOMAIN d.fields = 1..Len(d.fields)
            /\ i \in DOMAIN vault /\ d # Bad
            /\ SelectorError(ref) = "none"
<1>1. ProperVault(vault) /\ ProperFields(vault) /\ result = Resolve(vault, ref) /\ result.kind = "none"
  BY DEF CaseInv, Succeeded, Answered
<1>2. /\ ValidKey(Key) /\ Lookup(vault, Key).error = "none" /\ SelectorError(ref) = "none"
      /\ result = Answer(Lookup(vault, Key).item, Property(ref))
  BY <1>1, ResolveOutcome DEF Err, Key
<1>3. PICK i \in DOMAIN vault :
         /\ Selected(vault, Key, i) /\ Lookup(vault, Key) = Found(Decrypt(vault[i]))
         /\ \A j \in DOMAIN vault : Selected(vault, Key, j) => j = i
  BY <1>1, <1>2, LookupOutcome DEF LookupSays
<1>4. \A j : j \in Named => j \in DOMAIN vault /\ Selected(vault, Key, j)
  BY DEF Named, Selected, ById, Readable, Personal, Live
<1>5. result = Answer(Decrypt(vault[i]), Property(ref)) /\ Decrypt(vault[i]) # Bad
  BY <1>2, <1>3 DEF Found, Selected
<1>6. LET fields == Decrypt(vault[i]).fields IN
      Len(fields) \in Nat /\ DOMAIN fields = 1..Len(fields)
  BY <1>1, <1>5, DecryptedFields
<1>7. QED
  BY <1>2, <1>3, <1>4, <1>5, <1>6

(* A whole-item document has every output of the item under its name, and  *)
(* two outputs never share one (to_secret_document).                       *)
THEOREM WholeDocumentHolds == Spec => []WholeDocument
<1>1. CaseInv => WholeDocument
  <2> SUFFICES ASSUME CaseInv, Succeeded, ref.property = None, NEW i \in Named
               PROVE  LET outputs == Outputs(Decrypt(vault[i])) IN
                      /\ DOMAIN result.document = {o[1] : o \in outputs}
                      /\ Cardinality(outputs) = Cardinality(DOMAIN result.document)
                      /\ \A o \in outputs : result.document[o[1]] = o[2]
    BY DEF WholeDocument
  <2> DEFINE d == Decrypt(vault[i])
  <2>1. /\ result = Answer(d, Property(ref))
        /\ Len(d.fields) \in Nat /\ DOMAIN d.fields = 1..Len(d.fields)
    BY SuccessShape
  <2>2. result = ToSecretDocument(d) /\ result.kind = "none"
    BY <2>1 DEF Answer, Property, Succeeded
  <2> HIDE DEF d
  <2>3. HasWritten(result.document, d, Len(d.fields))
    BY <2>1, <2>2, DocumentOutcome
  <2>4. QED
    BY <2>1, <2>3, OutputsAreMembers DEF d
<1>2. QED
  BY <1>1, CaseInvariant, PTL

-----------------------------------------------------------------------------
(* Trimming *)

(* A text that neither starts nor ends with a blank is trimmed. *)
LEMMA TrimFixed ==
  ASSUME NEW s, IsSequence(s), s # <<>>, s[1] # "sp", s[Len(s)] # "sp"
  PROVE  Trim(s) = s
<1> DEFINE solid == {i \in DOMAIN s : s[i] # "sp"}
           n == Len(s)
<1>1. s \in Seq(Range(s))
  BY DEF IsSequence
<1>2. n \in Nat \ {0} /\ DOMAIN s = 1..n
  BY <1>1, EmptySeq
<1>3. 1 \in solid /\ n \in solid /\ solid \subseteq 1..n
  BY <1>2
<1>4. Min(solid) \in solid /\ \A m \in solid : Min(solid) <= m
  <2> HIDE DEF solid
  <2>1. solid \subseteq Nat /\ solid # {}
    BY <1>2, <1>3
  <2>2. QED
    BY <2>1, MinIsLeast
<1>5. Max(solid) \in solid /\ \A m \in solid : m <= Max(solid)
  <2> HIDE DEF solid, n
  <2>1. n \in Nat /\ solid \subseteq 0..n /\ solid # {}
    BY <1>2, <1>3
  <2>2. QED
    BY <2>1, MaxIsGreatest
<1>6. Min(solid) = 1 /\ Max(solid) = n
  <2> HIDE DEF solid, n
  <2> DEFINE a == Min(solid)
             b == Max(solid)
  <2>1. a \in 1..n /\ b \in 1..n /\ a <= 1 /\ n <= b
    BY <1>3, <1>4, <1>5
  <2> HIDE DEF a, b
  <2>2. a = 1 /\ b = n
    BY <1>2, <2>1
  <2>3. QED
    BY <2>2 DEF a, b
<1>7. Trim(s) = SubSeq(s, 1, n)
  BY <1>3, <1>6 DEF Trim
<1>8. QED
  BY <1>1, <1>7, SubSeqFull

(* A trimmed text neither starts nor ends with a blank. *)
LEMMA TrimEnds ==
  ASSUME NEW s, IsSequence(s), Trim(s) # <<>>
  PROVE  /\ IsSequence(Trim(s))
         /\ Trim(s)[1] # "sp" /\ Trim(s)[Len(Trim(s))] # "sp"
<1> DEFINE solid == {i \in DOMAIN s : s[i] # "sp"}
           n == Len(s)
           a == Min(solid)
           b == Max(solid)
           t == SubSeq(s, a, b)
<1>1. s \in Seq(Range(s))
  BY DEF IsSequence
<1>2. n \in Nat /\ DOMAIN s = 1..n
  BY <1>1
<1>3. solid # {} /\ Trim(s) = t
  BY DEF Trim
<1>4. a \in solid /\ \A m \in solid : a <= m
  <2> HIDE DEF solid
  <2>1. solid \subseteq Nat
    BY <1>2 DEF solid
  <2>2. QED
    BY <1>3, <2>1, MinIsLeast
<1>5. b \in solid
  <2>1. solid \subseteq 0..n
    BY <1>2
  <2> HIDE DEF solid, n
  <2>2. QED
    BY <1>2, <1>3, <2>1, MaxIsGreatest
<1>6. a \in 1..n /\ b \in 1..n /\ s[a] # "sp" /\ s[b] # "sp" /\ a <= b
  BY <1>2, <1>4, <1>5
<1> HIDE DEF solid, n, a, b
<1>7. /\ t \in Seq(Range(s)) /\ Len(t) = b - a + 1
      /\ \A i \in 1..(b - a + 1) : t[i] = s[a + i - 1]
  <2>1. a \in Int /\ b \in Int /\ \A i \in a..b : s[i] \in Range(s)
    BY <1>2, <1>6 DEF Range
  <2>2. QED
    BY <1>6, <2>1, SubSeqProperties
<1>8. t[1] = s[a] /\ t[Len(t)] = s[b]
  <2>1. 1 \in 1..(b - a + 1) /\ a + 1 - 1 = a
    BY <1>2, <1>6
  <2>2. Len(t) \in 1..(b - a + 1) /\ a + Len(t) - 1 = b
    BY <1>2, <1>6, <1>7
  <2> HIDE DEF t
  <2>3. QED
    BY <1>7, <2>1, <2>2
<1>9. IsSequence(t)
  BY <1>7, SeqOfRange DEF IsSequence
<1>10. QED
  BY <1>3, <1>6, <1>8, <1>9

(* Trimming twice is trimming once. *)
LEMMA TrimIdempotent ==
  ASSUME NEW s, IsSequence(s), Trim(s) # <<>>
  PROVE  Trim(Trim(s)) = Trim(s)
BY TrimEnds, TrimFixed

-----------------------------------------------------------------------------
(* Single properties *)

(* The fields with a name are finitely many. *)
LEMMA FieldsNamedFinite ==
  ASSUME NEW d, Len(d.fields) \in Nat, DOMAIN d.fields = 1..Len(d.fields), NEW name
  PROVE  /\ IsFiniteSet(FieldsNamed(d, name))
         /\ FieldsNamed(d, name) \subseteq Nat
         /\ Cardinality(FieldsNamed(d, name)) \in Nat
<1> DEFINE m == Len(d.fields)
           hits == FieldsNamed(d, name)
<1>1. m \in Int /\ hits \in SUBSET (1..m)
  BY DEF FieldsNamed
<1> HIDE DEF m, hits
<1>2. IsFiniteSet(1..m)
  BY <1>1, IndicesFinite
<1>3. IsFiniteSet(hits)
  BY <1>1, <1>2, FS_Subset
<1>4. hits \subseteq Nat /\ Cardinality(hits) \in Nat
  BY <1>1, <1>3, FS_CardinalityType
<1>5. QED
  BY <1>3, <1>4 DEF hits

(* A custom field is answered only when it is the only one of its name,    *)
(* and then it is its value.                                               *)
LEMMA CustomOutcome ==
  ASSUME NEW d, Len(d.fields) \in Nat, DOMAIN d.fields = 1..Len(d.fields), NEW name
  PROVE  LET hits == FieldsNamed(d, name)
             r == ExtractCustom(d, name)
         IN  /\ r.kind = "none" => Cardinality(hits) = 1
             /\ \A h \in hits : Cardinality(hits) = 1 => r = Existing(d.fields[h].value)
<1> DEFINE hits == FieldsNamed(d, name)
           r == ExtractCustom(d, name)
<1>1. IsFiniteSet(hits) /\ hits \subseteq Nat /\ Cardinality(hits) \in Nat
  BY FieldsNamedFinite
<1>2. CASE hits = {}
  <2>1. ~(Cardinality(hits) > 1)
    BY <1>2, FS_EmptySet
  <2>2. r = Err("property_not_found")
    BY <1>2, <2>1 DEF ExtractCustom
  <2>3. QED
    BY <1>2, <2>2 DEF Err
<1>3. CASE hits # {} /\ Cardinality(hits) > 1
  <2>1. r = Err("ambiguous_document")
    BY <1>3 DEF ExtractCustom
  <2>2. Cardinality(hits) # 1
    BY <1>3
  <2>3. QED
    BY <2>1, <2>2 DEF Err
<1>4. CASE hits # {} /\ ~(Cardinality(hits) > 1)
  <2>1. r = Existing(d.fields[Min(hits)].value)
    BY <1>4 DEF ExtractCustom
  <2> HIDE DEF hits, r
  <2>2. Cardinality(hits) # 0
    BY <1>1, <1>4, FS_EmptySet
  <2>3. Cardinality(hits) = 1
    BY <1>1, <1>4, <2>2
  <2>4. PICK x : hits = {x}
    BY <1>1, <2>3, FS_Singleton
  <2>5. Min(hits) \in hits
    BY <1>1, <1>4, MinIsLeast
  <2>6. \A h \in hits : Min(hits) = h
    BY <2>4, <2>5
  <2>7. \A h \in hits : r = Existing(d.fields[h].value)
    BY <2>1, <2>6
  <2>8. QED
    BY <2>3, <2>7 DEF hits, r
<1>5. QED
  BY <1>2, <1>3, <1>4

(* A property is never guessed: it is conventional, or the only custom     *)
(* field of its name (extract_property).                                   *)
THEOREM PropertyUnambiguousHolds == Spec => []PropertyUnambiguous
<1>1. CaseInv => PropertyUnambiguous
  <2> SUFFICES ASSUME CaseInv, Succeeded, ref.property # None, NEW i \in Named,
                      Trim(ref.property) \notin DOMAIN Conventional(Decrypt(vault[i]))
               PROVE  LET d    == Decrypt(vault[i])
                          hits == FieldsNamed(d, Strip(Trim(ref.property), {"field.", "custom."}))
                      IN  /\ Cardinality(hits) = 1
                          /\ \A h \in hits : d.fields[h].value = result.document[<<"value">>]
    BY DEF PropertyUnambiguous
  <2> DEFINE d == Decrypt(vault[i])
             p == Trim(ref.property)
             name == Strip(p, {"field.", "custom."})
             hits == FieldsNamed(d, name)
             value == Extract(d, p)
  <2>1. /\ result = Answer(d, Property(ref)) /\ result.kind = "none"
        /\ Len(d.fields) \in Nat /\ DOMAIN d.fields = 1..Len(d.fields)
        /\ SelectorError(ref) = "none"
    BY SuccessShape DEF Succeeded
  <2>2. IsSequence(ref.property) /\ p # None /\ p # <<>>
    BY <2>1, SelectorOutcome DEF CaseInv
  <2>3. Property(ref) = p
    BY DEF Property
  <2>4. Trim(p) = p
    BY <2>2, TrimIdempotent
  <2> HIDE DEF d, p
  <2>5. value.kind = "none" /\ result = Ok([k \in {<<"value">>, p} |-> value.document])
    BY <2>1, <2>2, <2>3 DEF Answer
  <2>6. result.document[<<"value">>] = value.document
    BY <2>5 DEF Ok
  <2>7. p \notin DOMAIN Conventional(d)
    BY DEF d, p
  <2>8. value = ExtractCustom(d, name)
    <3>1. ~StartsWith(p, {"attachment.", "attachments."})
      BY <2>2, <2>4, <2>5, <2>7 DEF Extract, Err
    <3>2. QED
      BY <2>2, <2>4, <2>7, <3>1 DEF Extract
  <2> HIDE DEF name, value
  <2>9. Cardinality(hits) = 1
    BY <2>1, <2>5, <2>8, CustomOutcome
  <2>10. ASSUME NEW h \in hits PROVE d.fields[h].value = result.document[<<"value">>]
    <3>1. value = Existing(d.fields[h].value)
      BY <2>1, <2>8, <2>9, CustomOutcome
    <3>2. value.document = d.fields[h].value
      BY <2>5, <3>1 DEF Existing, Err, Ok
    <3>3. QED
      BY <2>6, <3>2
  <2>11. QED
    BY <2>9, <2>10 DEF d, p, name
<1>2. QED
  BY <1>1, CaseInvariant, PTL

(* A member a document starts with is what its name selects. *)
LEMMA BaseAgrees ==
  ASSUME NEW d, NEW k \in DOMAIN BaseDocument(d)
  PROVE  Extract(d, k) = Ok(BaseDocument(d)[k])
<1> DEFINE names == {"notes", "username", "password", "totp", "privateKey", "publicKey",
                     "keyFingerprint"}
<1>1. PICK n \in names : k = <<n>>
  BY DEF BaseDocument
<1>2. k \in ConventionalNames /\ BaseDocument(d)[k] = Conventional(d)[k] /\ Conventional(d)[k] # None
  <2>1. k \in ConventionalNames
    BY <1>1 DEF ConventionalNames, Username, Password, Totp, PrivateKey, PublicKey, Fingerprint
  <2>2. QED
    BY <2>1 DEF BaseDocument
<1>3. n # "sp" /\ n \notin {"attachment.", "attachments."}
  OBVIOUS
<1>4. Trim(k) = k /\ k # <<>>
  <2>1. k \in Seq({n}) /\ k # <<>> /\ k[1] = n /\ k[Len(k)] = n
    BY <1>1
  <2>2. IsSequence(k)
    BY <2>1, SeqOfRange DEF IsSequence
  <2>3. QED
    BY <1>3, <2>1, <2>2, TrimFixed
<1>5. ~StartsWith(k, {"attachment.", "attachments."})
  BY <1>1, <1>3 DEF StartsWith
<1>6. k \in DOMAIN Conventional(d)
  BY <1>2 DEF Conventional
<1>7. Extract(d, k) = Existing(Conventional(d)[k])
  BY <1>4, <1>5, <1>6 DEF Extract
<1>8. QED
  BY <1>2, <1>7 DEF Existing

(* A text with "field." or "custom." in front. *)
LEMMA PrefixedName ==
  ASSUME NEW name, IsSequence(name), name # <<>>, Trim(name) = name,
         NEW prefix \in {"field.", "custom."}
  PROVE  LET p == <<prefix>> \o name IN
         /\ Trim(p) = p /\ p # <<>>
         /\ ~StartsWith(p, {"attachment.", "attachments."})
         /\ p \notin ConventionalNames
         /\ Strip(p, {"field.", "custom."}) = name
<1> DEFINE p == <<prefix>> \o name
           S == {prefix} \cup Range(name)
<1>1. name \in Seq(S) /\ <<prefix>> \in Seq(S) /\ Len(<<prefix>>) = 1
  <2>1. name \in Seq(Range(name)) /\ Range(name) \subseteq S
    BY DEF IsSequence
  <2>2. name \in Seq(S)
    <3> HIDE DEF S
    <3>1. QED
      BY <2>1, SeqMonotonic
  <2>3. QED
    BY <2>2
<1>2. Len(name) \in Nat \ {0}
  <2> HIDE DEF S
  <2>1. QED
    BY <1>1, EmptySeq
<1>3. /\ p \in Seq(S) /\ Len(p) = 1 + Len(name)
      /\ \A i \in 1..(1 + Len(name)) : p[i] = IF i <= 1 THEN <<prefix>>[i] ELSE name[i - 1]
  <2> HIDE DEF S
  <2>1. QED
    BY <1>1, ConcatProperties
<1>4. p[1] = prefix /\ p[Len(p)] = name[Len(name)]
  <2> HIDE DEF S, p
  <2> DEFINE n == Len(name)
  <2>1. 1 + n \in 1..(1 + n) /\ 1 \in 1..(1 + n) /\ ~(1 + n <= 1) /\ (1 + n) - 1 = n
    BY <1>2
  <2>2. p[1] = <<prefix>>[1] /\ p[1 + n] = name[(1 + n) - 1]
    BY <1>2, <1>3, <2>1
  <2>3. QED
    BY <1>3, <2>1, <2>2
<1>5. name[Len(name)] # "sp"
  BY TrimEnds
<1>6. p # <<>> /\ IsSequence(p)
  <2>1. IsSequence(p)
    <3> HIDE DEF S, p
    <3>1. QED
      BY <1>3, SeqOfRange DEF IsSequence
  <2>2. p # <<>>
    <3> HIDE DEF S, p
    <3>1. Len(p) # 0
      BY <1>2, <1>3
    <3>2. QED
      BY <3>1
  <2>3. QED
    BY <2>1, <2>2
<1>7. Trim(p) = p
  <2> HIDE DEF p
  <2>1. p[1] # "sp" /\ p[Len(p)] # "sp"
    BY <1>4, <1>5
  <2>2. QED
    BY <1>6, <2>1, TrimFixed
<1>8. Head(p) = prefix
  <2> HIDE DEF S, p
  <2>1. QED
    BY <1>3, <1>4, <1>6
<1>9. ~StartsWith(p, {"attachment.", "attachments."})
  <2> HIDE DEF p
  <2>1. QED
    BY <1>8 DEF StartsWith
<1>10. p \notin ConventionalNames
  <2>1. \A q \in ConventionalNames : Len(q) = 1
    BY DEF ConventionalNames, Username, Password, Totp, PrivateKey, PublicKey, Fingerprint
  <2>2. Len(p) # 1
    <3> HIDE DEF S, p
    <3>1. QED
      BY <1>2, <1>3
  <2>3. QED
    <3> HIDE DEF p
    <3>1. QED
      BY <2>1, <2>2
<1>11. Tail(p) = name
  <2> HIDE DEF S, p
  <2>1. /\ Tail(p) \in Seq(S) /\ Len(Tail(p)) = Len(p) - 1
        /\ \A i \in 1..Len(Tail(p)) : Tail(p)[i] = p[i + 1]
    BY <1>3, <1>6, HeadTailProperties
  <2>2. Len(Tail(p)) = Len(name)
    BY <1>2, <1>3, <2>1
  <2>3. ASSUME NEW i \in 1..Len(name) PROVE Tail(p)[i] = name[i]
    <3>1. i + 1 \in 1..(1 + Len(name)) /\ ~(i + 1 <= 1) /\ (i + 1) - 1 = i
      BY <1>2
    <3>2. p[i + 1] = name[(i + 1) - 1]
      BY <1>3, <3>1
    <3>3. QED
      BY <2>1, <2>2, <3>1, <3>2
  <2>4. QED
    BY <1>1, <2>1, <2>2, <2>3, SeqEqual
<1>12. Strip(p, {"field.", "custom."}) = name
  <2> HIDE DEF p
  <2>1. StartsWith(p, {"field.", "custom."})
    BY <1>6, <1>8 DEF StartsWith
  <2>2. QED
    BY <1>11, <2>1 DEF Strip
<1>13. QED
  BY <1>6, <1>7, <1>9, <1>10, <1>12

(* The names of the custom fields of a decrypted item are texts. *)
LEMMA DecryptedNames ==
  ASSUME NEW v, ProperFields(v), NEW i \in DOMAIN v, Decrypt(v[i]) # Bad,
         NEW j \in DOMAIN v[i].fields, Decrypt(v[i]).fields[j].name # None
  PROVE  IsSequence(Decrypt(v[i]).fields[j].name)
<1> DEFINE c == v[i]
           f == c.fields[j]
           key == ItemKey(c)
           plain == PlainRecord(f, key)
<1>1. f \in Range(c.fields)
  BY DEF Range
<1>2. /\ f # None /\ plain # None /\ DOMAIN f = {"name", "value"}
      /\ f.name # None => IsSequence(f.name.text)
  BY <1>1 DEF ProperFields
<1>3. Decrypt(c).fields[j] = plain
  <2>1. Decrypt(c) # Bad /\ j \in DOMAIN c.fields
    OBVIOUS
  <2> HIDE DEF c
  <2>2. Decrypt(c).fields = [l \in DOMAIN c.fields |-> PlainRecord(c.fields[l], ItemKey(c))]
    BY <2>1, DecryptShape
  <2>3. QED
    BY <2>1, <2>2
<1>4. plain = [x \in {"name", "value"} |-> Plain(f[x], key)]
  BY <1>2 DEF PlainRecord
<1>5. ~HasBad(plain)
  BY <1>3 DEF Decrypt
<1>6. plain.name = Plain(f.name, key) /\ plain.name # Bad
  BY <1>4, <1>5, <1>2 DEF HasBad, PlainRecord
<1>7. f.name # None /\ plain.name = f.name.text
  BY <1>3, <1>6 DEF Plain
<1>8. QED
  BY <1>2, <1>3, <1>7

(* A custom field of a document is what its name selects with a prefix. *)
LEMMA FieldAgrees ==
  ASSUME NEW d, Len(d.fields) \in Nat, DOMAIN d.fields = 1..Len(d.fields),
         NEW i \in Writing(d, Len(d.fields)), IsSequence(d.fields[i].name),
         Trim(d.fields[i].name) = d.fields[i].name,
         Cardinality(FieldsNamed(d, d.fields[i].name)) = 1,
         NEW prefix \in {"field.", "custom."}
  PROVE  Extract(d, <<prefix>> \o d.fields[i].name) = Ok(d.fields[i].value)
<1> DEFINE name == d.fields[i].name
           p == <<prefix>> \o name
<1>1. HasOutput(d.fields[i]) /\ i \in DOMAIN d.fields
  BY DEF Writing
<1>2. name # <<>> /\ d.fields[i].value # None
  BY <1>1 DEF HasOutput
<1> HIDE DEF name
<1>3. /\ Trim(p) = p /\ p # <<>>
      /\ ~StartsWith(p, {"attachment.", "attachments."})
      /\ p \notin ConventionalNames
      /\ Strip(p, {"field.", "custom."}) = name
  BY <1>2, PrefixedName DEF name
<1> HIDE DEF p
<1>4. p \notin DOMAIN Conventional(d)
  BY <1>3 DEF Conventional
<1>5. Extract(d, p) = ExtractCustom(d, name)
  BY <1>3, <1>4 DEF Extract
<1>6. i \in FieldsNamed(d, name)
  BY <1>1 DEF FieldsNamed, name
<1>7. ExtractCustom(d, name) = Existing(d.fields[i].value)
  BY <1>6, CustomOutcome DEF name
<1>8. QED
  BY <1>2, <1>5, <1>7 DEF Existing, p, name

(* Whole-item and single-property extraction agree (to_secret_document and *)
(* extract_property): what a document has under a name is what the name    *)
(* selects.                                                                *)
THEOREM PropertyAgreesWithDocumentHolds == Spec => []PropertyAgreesWithDocument
<1>1. CaseInv => PropertyAgreesWithDocument
  <2> SUFFICES ASSUME CaseInv, Succeeded, NEW i \in Named, NEW o \in Outputs(Decrypt(vault[i]))
               PROVE  LET d == Decrypt(vault[i]) IN
                      IF o[3] = 0 THEN Extract(d, o[1]) = Ok(o[2])
                      ELSE Trim(o[1]) = o[1] /\ Cardinality(FieldsNamed(d, o[1])) = 1 =>
                              \A prefix \in {"field.", "custom."} :
                                  Extract(d, <<prefix>> \o o[1]) = Ok(o[2])
    BY DEF PropertyAgreesWithDocument
  <2> DEFINE d == Decrypt(vault[i])
             n == Len(d.fields)
  <2>1. /\ n \in Nat /\ DOMAIN d.fields = 1..n /\ i \in DOMAIN vault /\ d # Bad
        /\ ProperFields(vault)
    BY SuccessShape DEF CaseInv
  <2>2. CASE \E k \in DOMAIN BaseDocument(d) : BaseOutput(d, o, k)
    <3>1. PICK k \in DOMAIN BaseDocument(d) : BaseOutput(d, o, k)
      BY <2>2
    <3>2. o[1] = k /\ o[2] = BaseDocument(d)[k] /\ o[3] = 0
      BY <3>1 DEF BaseOutput
    <3>3. QED
      BY <3>2, BaseAgrees
  <2>3. CASE \E j \in Writing(d, n) : FieldOutput(d, o, j)
    <3>1. PICK j \in Writing(d, n) : FieldOutput(d, o, j)
      BY <2>3
    <3>2. o[1] = d.fields[j].name /\ o[2] = d.fields[j].value /\ o[3] = j
      BY <3>1 DEF FieldOutput
    <3>3. j \in 1..n /\ HasOutput(d.fields[j])
      BY <3>1 DEF Writing
    <3>4. j # 0
      BY <2>1, <3>3
    <3>5. j \in DOMAIN vault[i].fields
      BY <2>1, <3>3, DecryptShape
    <3>6. IsSequence(d.fields[j].name)
      BY <2>1, <3>3, <3>5, DecryptedNames DEF HasOutput
    <3>7. ASSUME Trim(o[1]) = o[1], Cardinality(FieldsNamed(d, o[1])) = 1,
                 NEW prefix \in {"field.", "custom."}
          PROVE  Extract(d, <<prefix>> \o o[1]) = Ok(o[2])
      <4> HIDE DEF d
      <4>1. Trim(d.fields[j].name) = d.fields[j].name /\ Cardinality(FieldsNamed(d, d.fields[j].name)) = 1
        BY <3>2, <3>7
      <4>2. Extract(d, <<prefix>> \o d.fields[j].name) = Ok(d.fields[j].value)
        BY <2>1, <3>1, <3>6, <4>1, FieldAgrees
      <4>3. QED
        BY <3>2, <4>2
    <3>8. QED
      BY <3>2, <3>4, <3>7
  <2>4. QED
    BY <2>1, <2>2, <2>3, OutputShape
<1>2. QED
  BY <1>1, CaseInvariant, PTL

=============================================================================
