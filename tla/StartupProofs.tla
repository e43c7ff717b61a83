----------------------------- MODULE StartupProofs -----------------------------
(***************************************************************************)
(* Theorems about Startup, for every set of pods and of file states and    *)
(* any number of projections, crashes and restarts.                        *)
(***************************************************************************)
EXTENDS Startup, SetInduction

-----------------------------------------------------------------------------
(* Texts *)

(* The domain of a sequence. *)
LEMMA SequenceShape ==
  ASSUME NEW s, IsSequence(s)
  PROVE  /\ Len(s) \in Nat /\ DOMAIN s = 1..Len(s)
         /\ s = <<>> <=> Len(s) = 0
BY DEF IsSequence

(* A sequence over any set is a sequence. *)
LEMMA SequenceOver ==
  ASSUME NEW S, NEW s \in Seq(S)
  PROVE  IsSequence(s)
BY SeqOfRange DEF IsSequence

(* A text is accepted as not empty if it has something but white space. *)
LEMMA NonEmptyIffPiece ==
  ASSUME NEW s, IsSequence(s)
  PROVE  RequireNonEmpty(s) <=> \E i \in DOMAIN s : s[i] \notin {"sp", "nl"}
<1> DEFINE keep == {i \in DOMAIN s : s[i] \notin {"sp", "nl"}}
<1>1. Len(s) \in Nat /\ DOMAIN s = 1..Len(s)
  BY SequenceShape
<1>2. CASE keep = {}
  BY <1>2 DEF RequireNonEmpty, Trim, Between
<1>3. CASE keep # {}
  <2> DEFINE a == Min(keep)
             b == Max(keep)
             n == Len(s)
  <2>1. Trim(s) = SubSeq(s, a, b)
    BY <1>3 DEF Trim, Between
  <2>2. keep \subseteq 1..n
    BY <1>1
  <2> HIDE DEF keep, n
  <2>3. n \in Nat /\ keep \subseteq Nat /\ keep \subseteq 0..n
    BY <1>1, <2>2 DEF n
  <2>4. a \in keep /\ \A m \in keep : a <= m
    BY <1>3, <2>3, MinIsLeast
  <2>5. b \in keep
    BY <1>3, <2>3, MaxIsGreatest
  <2>6. a \in 1..n /\ b \in 1..n /\ a <= b
    BY <2>2, <2>4, <2>5
  <2> HIDE DEF a, b
  <2>7. Len(SubSeq(s, a, b)) = b - a + 1
    <3>1. a \in Int /\ b \in Int /\ \A i \in a..b : s[i] \in Range(s)
      BY <1>1, <2>3, <2>6 DEF Range, n
    <3>2. QED
      BY <2>6, <3>1, SubSeqProperties
  <2>8. Trim(s) # <<>>
    <3>1. Len(Trim(s)) # 0
      BY <2>1, <2>3, <2>6, <2>7
    <3>2. QED
      BY <3>1
  <2>9. QED
    BY <1>3, <2>8 DEF RequireNonEmpty, keep
<1>4. QED
  BY <1>2, <1>3

(* What is left of s without the x at its end. *)
Without(s, x) ==
    LET keep == {i \in DOMAIN s : s[i] # x}
    IN  IF keep = {} THEN <<>> ELSE SubSeq(s, 1, Max(keep))

(* The prefix of s that p is, and nothing but x after it. *)
IsWithout(p, s, x) ==
    /\ p \in Seq(Range(s)) /\ Len(p) \in 0..Len(s)
    /\ \A i \in 1..Len(p) : p[i] = s[i]
    /\ p # <<>> => p[Len(p)] # x
    /\ \A i \in (Len(p) + 1)..Len(s) : s[i] = x

(* What cutting off trailing characters leaves. *)
LEMMA WithoutIs ==
  ASSUME NEW s, IsSequence(s), NEW x
  PROVE  IsWithout(Without(s, x), s, x)
<1> DEFINE keep == {i \in DOMAIN s : s[i] # x}
           n == Len(s)
<1>1. n \in Nat /\ DOMAIN s = 1..n
  BY SequenceShape
<1>2. CASE keep = {}
  <2>1. Without(s, x) = <<>>
    BY <1>2 DEF Without
  <2>2. \A i \in 1..n : s[i] = x
    BY <1>1, <1>2
  <2>3. <<>> \in Seq(Range(s)) /\ Len(<<>>) = 0
    BY EmptySeq
  <2>4. QED
    BY <1>1, <2>1, <2>2, <2>3 DEF IsWithout
<1>3. CASE keep # {}
  <2> DEFINE b == Max(keep)
             p == SubSeq(s, 1, b)
  <2>1. Without(s, x) = p
    BY <1>3 DEF Without
  <2>2. keep \subseteq 1..n
    BY <1>1
  <2> HIDE DEF keep, n
  <2>3. keep \subseteq 0..n
    BY <2>2
  <2>4. b \in keep /\ \A m \in keep : m <= b
    BY <1>1, <1>3, <2>3, MaxIsGreatest
  <2>5. b \in 1..n /\ s[b] # x
    BY <2>2, <2>4 DEF keep
  <2>6. \A i \in (b + 1)..n : s[i] = x
    <3> SUFFICES ASSUME NEW i \in (b + 1)..n, s[i] # x PROVE FALSE
      OBVIOUS
    <3>1. i \in 1..n /\ ~(i <= b)
      BY <1>1, <2>5
    <3>2. i \in keep
      BY <1>1, <3>1 DEF keep
    <3>3. QED
      BY <2>4, <3>1, <3>2
  <2> HIDE DEF b
  <2>7. p \in Seq(Range(s)) /\ Len(p) = b /\ \A i \in 1..b : p[i] = s[i]
    <3>1. 1 \in Int /\ b \in Int /\ \A i \in 1..b : s[i] \in Range(s)
      BY <1>1, <2>5 DEF Range
    <3>2. /\ p \in Seq(Range(s)) /\ Len(p) = IF 1 <= b THEN b - 1 + 1 ELSE 0
          /\ \A i \in 1..(b - 1 + 1) : p[i] = s[1 + i - 1]
      BY <3>1, SubSeqProperties
    <3>3. b - 1 + 1 = b /\ 1 <= b /\ \A i \in 1..b : 1 + i - 1 = i
      BY <1>1, <2>5
    <3> HIDE DEF p
    <3>4. QED
      BY <3>2, <3>3
  <2> HIDE DEF p
  <2>8. IsWithout(p, s, x)
    BY <1>1, <2>5, <2>6, <2>7 DEF IsWithout, n
  <2>9. QED
    BY <2>1, <2>8
<1>4. QED
  BY <1>2, <1>3

(* There is one such prefix. *)
LEMMA WithoutUnique ==
  ASSUME NEW s, IsSequence(s), NEW x, NEW p, IsWithout(p, s, x), NEW q, IsWithout(q, s, x)
  PROVE  p = q
<1> DEFINE n == Len(s)
           a == Len(p)
           b == Len(q)
<1>1. n \in Nat /\ a \in 0..n /\ b \in 0..n
  BY SequenceShape DEF IsWithout
<1>2. ASSUME NEW t, NEW u, IsWithout(t, s, x), IsWithout(u, s, x), Len(t) < Len(u) PROVE FALSE
  <2> DEFINE c == Len(t)
             d == Len(u)
  <2>1. c \in 0..n /\ d \in 0..n /\ c < d
    BY <1>2 DEF IsWithout
  <2>2. u # <<>>
    BY <2>1
  <2>3. u[d] # x /\ u[d] = s[d]
    <3>1. d \in 1..d
      BY <1>1, <2>1
    <3>2. QED
      BY <1>2, <2>2, <3>1 DEF IsWithout
  <2>4. d \in (c + 1)..n
    BY <1>1, <2>1
  <2>5. s[d] = x
    BY <1>2, <2>4 DEF IsWithout
  <2>6. QED
    BY <2>3, <2>5
<1>3. a = b
  <2>1. ~(a < b) /\ ~(b < a)
    BY <1>2
  <2> HIDE DEF a, b, n
  <2>2. QED
    BY <1>1, <2>1
<1>4. \A i \in 1..Len(p) : p[i] = q[i]
  BY <1>3 DEF IsWithout
<1>5. p \in Seq(Range(s)) /\ q \in Seq(Range(s))
  BY DEF IsWithout
<1>6. QED
  BY <1>3, <1>4, <1>5, SeqEqual

Filler(n, x) == [i \in 1..n |-> x]

(* The same, said with a concatenation. *)
LEMMA WithoutConcat ==
  ASSUME NEW s, IsSequence(s), NEW x, NEW p, IsSequence(p)
  PROVE  IsWithout(p, s, x) <=>
            /\ p # <<>> => p[Len(p)] # x
            /\ \E n \in 0..Len(s) : s = p \o Filler(n, x)
<1> DEFINE l == Len(s)
           k == Len(p)
           S == Range(s) \cup Range(p) \cup {x}
<1>1. l \in Nat /\ k \in Nat /\ DOMAIN s = 1..l /\ DOMAIN p = 1..k
  BY SequenceShape
<1>2. s \in Seq(S) /\ p \in Seq(S)
  <2>1. s \in Seq(Range(s)) /\ p \in Seq(Range(p)) /\ Range(s) \subseteq S /\ Range(p) \subseteq S
    BY DEF IsSequence
  <2> HIDE DEF S
  <2>2. QED
    BY <2>1, SeqMonotonic
<1>3. \A n \in Nat : Filler(n, x) \in Seq(S) /\ Len(Filler(n, x)) = n /\ \A i \in 1..n : Filler(n, x)[i] = x
  <2> SUFFICES ASSUME NEW n \in Nat
               PROVE  Filler(n, x) \in Seq(S) /\ Len(Filler(n, x)) = n /\ \A i \in 1..n : Filler(n, x)[i] = x
    OBVIOUS
  <2>1. Filler(n, x) \in [1..n -> S]
    BY DEF Filler
  <2> HIDE DEF S
  <2>2. QED
    BY <2>1 DEF Filler
<1> HIDE DEF S
<1>4. ASSUME NEW n \in Nat
      PROVE  /\ p \o Filler(n, x) \in Seq(S) /\ Len(p \o Filler(n, x)) = k + n
             /\ \A i \in 1..(k + n) : (p \o Filler(n, x))[i] = IF i <= k THEN p[i] ELSE x
  <2> DEFINE f == Filler(n, x)
  <2>1. f \in Seq(S) /\ Len(f) = n /\ \A i \in 1..n : f[i] = x
    BY <1>3
  <2> HIDE DEF f
  <2>2. /\ p \o f \in Seq(S) /\ Len(p \o f) = Len(p) + Len(f)
        /\ \A i \in 1..(Len(p) + Len(f)) : (p \o f)[i] = IF i <= Len(p) THEN p[i] ELSE f[i - Len(p)]
    BY <1>2, <2>1, ConcatProperties
  <2>3. \A i \in 1..(k + n) : ~(i <= k) => i - k \in 1..n
    BY <1>1
  <2>4. QED
    BY <1>1, <2>1, <2>2, <2>3 DEF f
<1>5. ASSUME IsWithout(p, s, x)
      PROVE  \E n \in 0..l : s = p \o Filler(n, x)
  <2> DEFINE n == l - k
             t == p \o Filler(n, x)
  <2>1. n \in Nat /\ n \in 0..l /\ k + n = l
    BY <1>1, <1>5 DEF IsWithout
  <2>2. t \in Seq(S) /\ Len(t) = l /\ \A i \in 1..l : t[i] = IF i <= k THEN p[i] ELSE x
    <3> HIDE DEF n
    <3>1. QED
      BY <1>4, <2>1
  <2>3. ASSUME NEW i \in 1..l PROVE s[i] = t[i]
    <3>1. CASE i <= k
      <4>1. i \in 1..k
        BY <1>1, <3>1
      <4>2. QED
        BY <1>5, <2>2, <3>1, <4>1 DEF IsWithout
    <3>2. CASE ~(i <= k)
      <4>1. i \in (k + 1)..l
        BY <1>1, <3>2
      <4>2. s[i] = x
        BY <1>5, <4>1 DEF IsWithout
      <4>3. QED
        BY <2>2, <3>2, <4>2
    <3>3. QED
      BY <3>1, <3>2
  <2> HIDE DEF t
  <2>4. s = t
    BY <1>2, <2>2, <2>3, SeqEqual
  <2>5. QED
    BY <2>1, <2>4 DEF t
<1>6. ASSUME NEW n \in 0..l, s = p \o Filler(n, x), p # <<>> => p[Len(p)] # x
      PROVE  IsWithout(p, s, x)
  <2>1. n \in Nat
    BY <1>1
  <2>2. l = k + n /\ \A i \in 1..(k + n) : s[i] = IF i <= k THEN p[i] ELSE x
    BY <1>4, <1>6, <2>1
  <2>3. k \in 0..l
    BY <1>1, <2>1, <2>2
  <2>4. \A i \in 1..k : p[i] = s[i] /\ i \in DOMAIN s
    BY <1>1, <2>1, <2>2
  <2>5. \A i \in (k + 1)..l : s[i] = x
    BY <1>1, <2>1, <2>2
  <2>6. p \in Seq(Range(s))
    <3>1. p \in [1..k -> Range(s)]
      <4>1. \A i \in 1..k : p[i] \in Range(s)
        BY <2>4 DEF Range
      <4>2. p \in [1..k -> S]
        BY <1>2, LenProperties
      <4>3. QED
        BY <4>1, <4>2
    <3>2. QED
      BY <1>1, <3>1
  <2>7. QED
    BY <1>6, <2>3, <2>4, <2>5, <2>6 DEF IsWithout
<1>7. QED
  BY <1>5, <1>6 DEF IsWithout

-----------------------------------------------------------------------------
(* Secrets *)

ProperArg(arg) == arg.file \in BOOLEAN /\ (arg.inline # None => IsSequence(arg.inline))

ProperText(content) == content # None => IsSequence(content) /\ TrimNewlines(content) # None

Given(arg) == arg.inline # None \/ arg.file

(* What is read from a file is the file up to the newlines at its end. *)
LEMMA FileSecret ==
  ASSUME NEW arg, arg.inline = None, arg.file, NEW content, content # None, IsSequence(content), NEW t
  PROVE  IsSequence(t) => (IsSecret(t, arg, content) <=> t = TrimNewlines(content))
<1> DEFINE s == TrimNewlines(content)
<1>1. s = Without(content, "nl")
  BY DEF TrimNewlines, Without
<1>2. IsWithout(s, content, "nl")
  BY <1>1, WithoutIs
<1> HIDE DEF s
<1> SUFFICES ASSUME IsSequence(t) PROVE IsSecret(t, arg, content) <=> t = s
  BY DEF s
<1>3. IsSecret(t, arg, content) <=>
         /\ t # <<>> => t[Len(t)] # "nl"
         /\ \E n \in 0..Len(content) : content = t \o Filler(n, "nl")
  BY DEF IsSecret, Filler
<1>4. IsSecret(t, arg, content) <=> IsWithout(t, content, "nl")
  BY <1>3, WithoutConcat
<1>5. QED
  BY <1>2, <1>4, WithoutUnique

(* A prefix is a text. *)
LEMMA PrefixShape ==
  ASSUME NEW s, IsSequence(s), NEW n \in 0..Len(s)
  PROVE  /\ SubSeq(s, 1, n) \in Seq(Range(s)) /\ IsSequence(SubSeq(s, 1, n))
         /\ Len(SubSeq(s, 1, n)) = n
         /\ \A i \in 1..n : SubSeq(s, 1, n)[i] = s[i]
<1> DEFINE p == SubSeq(s, 1, n)
<1>1. Len(s) \in Nat /\ DOMAIN s = 1..Len(s)
  BY SequenceShape
<1>2. 1 \in Int /\ n \in Int /\ \A i \in 1..n : s[i] \in Range(s)
  BY <1>1 DEF Range
<1>3. /\ p \in Seq(Range(s)) /\ Len(p) = IF 1 <= n THEN n - 1 + 1 ELSE 0
      /\ \A i \in 1..(n - 1 + 1) : p[i] = s[1 + i - 1]
  BY <1>2, SubSeqProperties
<1>4. /\ n - 1 + 1 = n /\ (IF 1 <= n THEN n - 1 + 1 ELSE 0) = n
      /\ \A i \in 1..n : 1 + i - 1 = i
  BY <1>1
<1> HIDE DEF p
<1>5. p \in Seq(Range(s)) /\ Len(p) = n /\ \A i \in 1..n : p[i] = s[i]
  BY <1>3, <1>4
<1>6. IsSequence(p)
  BY <1>5, SequenceOver
<1>7. QED
  BY <1>5, <1>6 DEF p

(* What is left without trailing characters is a prefix. *)
LEMMA WithoutIsPrefix ==
  ASSUME NEW s, IsSequence(s), NEW x, NEW p, IsWithout(p, s, x)
  PROVE  p = SubSeq(s, 1, Len(p))
<1> DEFINE n == Len(p)
           q == SubSeq(s, 1, n)
<1>1. q \in Seq(Range(s)) /\ Len(q) = n /\ \A i \in 1..n : q[i] = s[i]
  <2> HIDE DEF n
  <2>1. n \in 0..Len(s)
    BY DEF n, IsWithout
  <2>2. QED
    BY <2>1, PrefixShape
<1>2. p \in Seq(Range(s)) /\ \A i \in 1..n : p[i] = q[i]
  BY <1>1 DEF IsWithout
<1> HIDE DEF q
<1>3. p = q
  BY <1>1, <1>2, SeqEqual
<1>4. QED
  BY <1>3 DEF q

HasPiece(t) == \E i \in DOMAIN t : t[i] \notin {"sp", "nl"}

(* A secret that is given is read if the arguments and the file have one,  *)
(* and then it is that one.                                                *)
LEMMA GivenSecret ==
  ASSUME NEW arg, ProperArg(arg), NEW content, ProperText(content), Given(arg)
  PROVE  LET r == OptionalSecret(arg, content) IN
         /\ r.ok \in BOOLEAN
         /\ r.ok => r.value # None /\ IsSecret(r.value, arg, content)
         /\ r.ok <=> Texts(arg, content) # {}
<1> DEFINE r == OptionalSecret(arg, content)
<1>0. arg.file \in BOOLEAN
  BY DEF ProperArg
<1>1. CASE arg.inline # None /\ arg.file
  <2>1. r = Err("both")
    BY <1>1 DEF OptionalSecret
  <2>2. \A t : ~IsSecret(t, arg, content)
    BY <1>1 DEF IsSecret
  <2>3. Texts(arg, content) = {}
    BY <2>2 DEF Texts
  <2>4. QED
    BY <2>1, <2>3 DEF Err
<1>2. CASE arg.inline # None /\ ~arg.file
  <2> DEFINE s == arg.inline
  <2>1. IsSequence(s)
    BY <1>2 DEF ProperArg
  <2>2. r = IF RequireNonEmpty(s) THEN Ok(s) ELSE Err("empty")
    BY <1>2 DEF OptionalSecret
  <2>3. \A t : IsSecret(t, arg, content) <=> t = s
    BY <1>2 DEF IsSecret
  <2>4. SubSeq(s, 1, Len(s)) = s
    BY <2>1, SubSeqFull DEF IsSequence
  <2>5. s \in {SubSeq(s, 1, n) : n \in 0..Len(s)}
    <3>1. Len(s) \in 0..Len(s)
      BY <2>1, SequenceShape
    <3>2. QED
      BY <2>4, <3>1
  <2>6. Texts(arg, content) = {t \in {SubSeq(s, 1, n) : n \in 0..Len(s)} :
                                  IsSecret(t, arg, content) /\ HasPiece(t)}
    BY <1>2 DEF Texts, HasPiece
  <2>7. Texts(arg, content) # {} <=> HasPiece(s)
    BY <2>3, <2>5, <2>6
  <2>8. Texts(arg, content) # {} <=> RequireNonEmpty(s)
    BY <2>1, <2>7, NonEmptyIffPiece DEF HasPiece
  <2>9. QED
    BY <1>2, <2>2, <2>3, <2>8 DEF Ok, Err
<1>3. CASE arg.inline = None /\ arg.file /\ content = None
  <2>1. r = Err("unreadable")
    BY <1>3 DEF OptionalSecret
  <2>2. Texts(arg, content) = {}
    BY <1>3 DEF Texts
  <2>3. QED
    BY <2>1, <2>2 DEF Err
<1>4. CASE arg.inline = None /\ arg.file /\ content # None
  <2> DEFINE s == TrimNewlines(content)
  <2>1. IsSequence(content) /\ s # None
    BY <1>4 DEF ProperText
  <2>2. r = IF RequireNonEmpty(s) THEN Ok(s) ELSE Err("empty")
    BY <1>4 DEF OptionalSecret
  <2>3. IsWithout(s, content, "nl")
    <3>1. s = Without(content, "nl")
      BY DEF TrimNewlines, Without
    <3>2. QED
      BY <2>1, <3>1, WithoutIs
  <2> HIDE DEF s
  <2>4. IsSequence(s) /\ Len(s) \in 0..Len(content)
    BY <2>3, SequenceOver DEF IsWithout
  <2>5. IsSecret(s, arg, content)
    BY <1>4, <2>1, <2>4, FileSecret DEF s
  <2>6. s = SubSeq(content, 1, Len(s))
    BY <2>1, <2>3, WithoutIsPrefix
  <2>7. Texts(arg, content) = {t \in {SubSeq(content, 1, n) : n \in 0..Len(content)} :
                                  IsSecret(t, arg, content) /\ HasPiece(t)}
    BY <1>4 DEF Texts, HasPiece
  <2>8. \A t \in Texts(arg, content) : t = s /\ HasPiece(t)
    <3> SUFFICES ASSUME NEW t \in Texts(arg, content) PROVE t = s /\ HasPiece(t)
      OBVIOUS
    <3>1. PICK n \in 0..Len(content) : t = SubSeq(content, 1, n)
      BY <2>7
    <3>2. IsSecret(t, arg, content) /\ HasPiece(t)
      BY <2>7
    <3>3. IsSequence(t)
      BY <2>1, <3>1, PrefixShape
    <3>4. QED
      BY <1>4, <2>1, <3>2, <3>3, FileSecret DEF s
  <2>9. HasPiece(s) => s \in Texts(arg, content)
    BY <2>4, <2>5, <2>6, <2>7
  <2>10. Texts(arg, content) # {} <=> RequireNonEmpty(s)
    BY <2>4, <2>8, <2>9, NonEmptyIffPiece DEF HasPiece
  <2>11. QED
    BY <2>1, <2>2, <2>5, <2>10 DEF Ok, Err
<1>5. QED
  BY <1>0, <1>1, <1>2, <1>3, <1>4 DEF Given

(* A required secret. *)
LEMMA RequiredSecret ==
  ASSUME NEW arg, ProperArg(arg), NEW content, ProperText(content)
  PROVE  LET r == SensitiveArg(arg, content) IN
         /\ r.ok \in BOOLEAN
         /\ r.ok => IsSecret(r.value, arg, content)
         /\ r.ok <=> Texts(arg, content) # {}
<1>1. CASE Given(arg)
  BY <1>1, GivenSecret DEF SensitiveArg, Given
<1>2. CASE ~Given(arg)
  <2>1. SensitiveArg(arg, content) = Err("missing")
    BY <1>2 DEF SensitiveArg, Given
  <2>2. \A t : ~IsSecret(t, arg, content)
    BY <1>2 DEF IsSecret, Given
  <2>3. Texts(arg, content) = {}
    BY <2>2 DEF Texts
  <2>4. QED
    BY <2>1, <2>3 DEF Err
<1>3. QED
  BY <1>1, <1>2

-----------------------------------------------------------------------------
(* Endpoints *)

(* The prefix of s that ends where x begins to be all there is. *)
Cut(s, x) ==
    CHOOSE q \in {SubSeq(s, 1, n) : n \in 0..Len(s)} :
        /\ q # <<>> => q[Len(q)] # x
        /\ \E n \in 0..Len(s) : s = q \o Filler(n, x)

(* It is what is left without the x at the end. *)
LEMMA CutIs ==
  ASSUME NEW s, IsSequence(s), NEW x
  PROVE  Cut(s, x) = Without(s, x)
<1> DEFINE p == Without(s, x)
           P(q) == /\ q # <<>> => q[Len(q)] # x
                   /\ \E n \in 0..Len(s) : s = q \o Filler(n, x)
           S == {SubSeq(s, 1, n) : n \in 0..Len(s)}
<1>1. IsWithout(p, s, x)
  BY WithoutIs
<1> HIDE DEF p
<1>2. IsSequence(p) /\ Len(p) \in 0..Len(s) /\ p = SubSeq(s, 1, Len(p))
  <2>1. p \in Seq(Range(s)) /\ Len(p) \in 0..Len(s)
    BY <1>1 DEF IsWithout
  <2>2. IsSequence(p)
    BY <2>1, SequenceOver
  <2>3. p = SubSeq(s, 1, Len(p))
    BY <1>1, WithoutIsPrefix
  <2>4. QED
    BY <2>1, <2>2, <2>3
<1>3. p \in S /\ P(p)
  <2>1. P(p)
    <3>1. IsSequence(p)
      BY <1>2
    <3>2. QED
      BY <1>1, <3>1, WithoutConcat
  <2>2. p \in S
    BY <1>2
  <2>3. QED
    BY <2>1, <2>2
<1>4. \A q \in S : P(q) => q = p
  <2> SUFFICES ASSUME NEW q \in S, P(q) PROVE q = p
    OBVIOUS
  <2>1. IsSequence(q)
    BY PrefixShape
  <2>2. IsWithout(q, s, x)
    BY <2>1, WithoutConcat
  <2>3. QED
    BY <1>1, <2>2, WithoutUnique
<1>5. Cut(s, x) = CHOOSE q \in S : P(q)
  BY DEF Cut
<1> HIDE DEF S, P
<1>6. QED
  BY <1>3, <1>4, <1>5 DEF p

(* Cutting off all slashes leaves the base. *)
LEMMA BaseIs ==
  ASSUME NEW url, IsSequence(url.path)
  PROVE  Base(url) = Without(url.path, EmptySegment)
<1>1. Base(url) = Cut(url.path, EmptySegment)
  BY DEF Base, Cut, Filler
<1>2. QED
  BY <1>1, CutIs

IsUrl(url) == DOMAIN url = {"scheme", "host", "path", "query"} /\ IsSequence(url.path)

(* A path that does not end with a slash. *)
Ends(path) == IsSequence(path) /\ (path # <<>> => path[Len(path)] # EmptySegment)

(* The endpoint of a base with segments appended. *)
LEMMA AppendedPath ==
  ASSUME NEW url, IsUrl(url), NEW segments
  PROVE  LET u == AppendPathSegments(url, segments) IN
         /\ u.path = Base(url) \o segments
         /\ "path" \in DOMAIN u /\ "query" \in DOMAIN u
<1>1. Base(url) = Without(url.path, EmptySegment)
  BY BaseIs DEF IsUrl
<1>2. AppendPathSegments(url, segments) =
         [url EXCEPT !.path = Without(url.path, EmptySegment) \o segments, !.query = None]
  BY DEF AppendPathSegments, Without
<1> DEFINE p == Without(url.path, EmptySegment) \o segments
<1> HIDE DEF p
<1>3. AppendPathSegments(url, segments) = [url EXCEPT !.path = p, !.query = None]
  BY <1>2 DEF p
<1>4. QED
  BY <1>1, <1>3 DEF IsUrl, p

(* A base does not end with a slash. *)
LEMMA BaseEnds ==
  ASSUME NEW url, IsUrl(url)
  PROVE  Ends(Base(url))
<1>1. Base(url) = Without(url.path, EmptySegment) /\ IsSequence(url.path)
  BY BaseIs DEF IsUrl
<1>2. IsWithout(Base(url), url.path, EmptySegment)
  BY <1>1, WithoutIs
<1>3. QED
  BY <1>2, SequenceOver DEF Ends, IsWithout

(* Nor does one with a segment after it. *)
LEMMA SegmentEnds ==
  ASSUME NEW path, IsSequence(path), NEW segment, segment # EmptySegment
  PROVE  Ends(path \o <<segment>>)
<1> DEFINE S == Range(path) \cup {segment}
           p == path \o <<segment>>
<1>1. path \in Seq(S) /\ <<segment>> \in Seq(S) /\ Len(<<segment>>) = 1 /\ <<segment>>[1] = segment
  <2>1. path \in Seq(Range(path)) /\ Range(path) \subseteq S
    BY DEF IsSequence
  <2>2. path \in Seq(S)
    <3> HIDE DEF S
    <3>1. QED
      BY <2>1, SeqMonotonic
  <2>3. QED
    BY <2>2
<1>2. Len(path) \in Nat
  BY SequenceShape
<1> HIDE DEF S
<1>3. /\ p \in Seq(S) /\ Len(p) = Len(path) + 1
      /\ \A i \in 1..(Len(path) + 1) : p[i] = IF i <= Len(path) THEN path[i] ELSE <<segment>>[i - Len(path)]
  BY <1>1, ConcatProperties
<1> HIDE DEF p
<1>4. p[Len(p)] = segment
  <2> DEFINE k == Len(path)
  <2>1. k + 1 \in 1..(k + 1) /\ ~(k + 1 <= k) /\ (k + 1) - k = 1
    BY <1>2
  <2>2. p[k + 1] = <<segment>>[(k + 1) - k]
    BY <1>3, <2>1
  <2>3. QED
    BY <1>1, <1>3, <2>1, <2>2
<1>5. IsSequence(p)
  BY <1>3, SequenceOver
<1>6. QED
  BY <1>4, <1>5 DEF Ends, p

(* A request goes right below an endpoint that does not end with a slash. *)
LEMMA RequestPath ==
  ASSUME NEW url, Ends(url.path), "path" \in DOMAIN url, "query" \in DOMAIN url, NEW segments
  PROVE  LET u == EndpointUrl(url, segments) IN
         u.path = url.path \o segments /\ u.query = None /\ "query" \in DOMAIN u /\ "path" \in DOMAIN u
<1>1. Len(url.path) \in Nat /\ (url.path = <<>> <=> Len(url.path) = 0)
  BY SequenceShape DEF Ends
<1>2. ~(Len(url.path) > 0 /\ url.path[Len(url.path)] = EmptySegment)
  BY <1>1 DEF Ends
<1> DEFINE p == url.path \o segments
<1>3. EndpointUrl(url, segments) = [url EXCEPT !.path = p, !.query = None]
  BY <1>2 DEF EndpointUrl
<1> HIDE DEF p
<1>4. QED
  BY <1>3 DEF p

Root(a, url, name) ==
    IF a.single_origin_url # None THEN Base(a.single_origin_url) \o <<name>> ELSE Base(url)

(* The two endpoints of an accepted pair of URLs, or of one. *)
LEMMA EndpointPaths ==
  ASSUME NEW a, Endpoints(a).ok,
         \A url \in {a.single_origin_url, a.identity_url, a.api_url} : WellFormedUrl(url)
  PROVE  LET e == Endpoints(a).value IN
         /\ e.identity.path = Root(a, a.identity_url, "identity") /\ Ends(e.identity.path)
         /\ e.api.path = Root(a, a.api_url, "api") /\ Ends(e.api.path)
         /\ \A u \in {e.identity, e.api} : "path" \in DOMAIN u /\ "query" \in DOMAIN u
<1>0. "identity" # EmptySegment /\ "api" # EmptySegment
  BY Zenon DEF EmptySegment
<1>1. CASE a.single_origin_url # None /\ a.identity_url = None /\ a.api_url = None
  <2> DEFINE url == a.single_origin_url
             i == AppendPathSegments(url, <<"identity">>)
             p == AppendPathSegments(url, <<"api">>)
  <2>1. IsUrl(url)
    BY <1>1 DEF WellFormedUrl, IsUrl
  <2>2. Endpoints(a) = Ok([identity |-> i, api |-> p])
    BY <1>1 DEF Endpoints, Err
  <2>3. /\ i.path = Base(url) \o <<"identity">> /\ "path" \in DOMAIN i /\ "query" \in DOMAIN i
        /\ p.path = Base(url) \o <<"api">> /\ "path" \in DOMAIN p /\ "query" \in DOMAIN p
    BY <2>1, AppendedPath
  <2>4. Ends(Base(url))
    BY <2>1, BaseEnds
  <2>5. Ends(Base(url) \o <<"identity">>) /\ Ends(Base(url) \o <<"api">>)
    BY <1>0, <2>4, SegmentEnds DEF Ends
  <2> HIDE DEF i, p
  <2>6. Endpoints(a).value.identity = i /\ Endpoints(a).value.api = p
    BY <2>2 DEF Ok
  <2>7. QED
    BY <1>1, <2>3, <2>5, <2>6 DEF Root
<1>2. CASE a.single_origin_url = None /\ a.identity_url # None /\ a.api_url # None
  <2> DEFINE i == AppendPathSegments(a.identity_url, <<>>)
             p == AppendPathSegments(a.api_url, <<>>)
  <2>1. IsUrl(a.identity_url) /\ IsUrl(a.api_url)
    BY <1>2 DEF WellFormedUrl, IsUrl
  <2>2. Endpoints(a) = Ok([identity |-> i, api |-> p])
    BY <1>2 DEF Endpoints, Err
  <2>3. /\ i.path = Base(a.identity_url) \o <<>> /\ "path" \in DOMAIN i /\ "query" \in DOMAIN i
        /\ p.path = Base(a.api_url) \o <<>> /\ "path" \in DOMAIN p /\ "query" \in DOMAIN p
    BY <2>1, AppendedPath
  <2>4. Ends(Base(a.identity_url)) /\ Ends(Base(a.api_url))
    BY <2>1, BaseEnds
  <2>5. i.path = Base(a.identity_url) /\ p.path = Base(a.api_url)
    BY <2>3, <2>4, ConcatEmptySeq DEF Ends, IsSequence
  <2> HIDE DEF i, p
  <2>6. Endpoints(a).value.identity = i /\ Endpoints(a).value.api = p
    BY <2>2 DEF Ok
  <2>7. QED
    BY <1>2, <2>3, <2>4, <2>5, <2>6 DEF Root
<1>3. CASE /\ ~(a.single_origin_url # None /\ a.identity_url = None /\ a.api_url = None)
           /\ ~(a.single_origin_url = None /\ a.identity_url # None /\ a.api_url # None)
  <2>1. Endpoints(a) = Err("endpoint_mode")
    BY <1>3 DEF Endpoints
  <2>2. QED
    BY <2>1 DEF Err
<1>4. QED
  BY <1>1, <1>2, <1>3

-----------------------------------------------------------------------------
(* Unlocking *)

(* The limits, by type. *)
LEMMA PbkdfLimits ==
  ASSUME NEW k, k.type = "pbkdf2", ValidateForPrelogin(k)
  PROVE  k.iterations \in 5000..PBKDF2_PRELOGIN_ITERATIONS_MAX
<1>1. \A p \in DOMAIN KdfBounds.pbkdf2 : k[p] \in KdfBounds.pbkdf2[p]
  BY DEF ValidateForPrelogin
<1>2. KdfBounds.pbkdf2 = [iterations |-> 5000..PBKDF2_PRELOGIN_ITERATIONS_MAX]
  BY DEF KdfBounds
<1>3. "iterations" \in DOMAIN KdfBounds.pbkdf2
  BY <1>2
<1>4. k["iterations"] \in KdfBounds.pbkdf2["iterations"]
  BY <1>1, <1>3, Zenon
<1>5. QED
  BY <1>2, <1>4

(* The same for Argon2id. *)
LEMMA ArgonLimits ==
  ASSUME NEW k, k.type = "argon2id", ValidateForPrelogin(k)
  PROVE  k.iterations \in 2..10 /\ k.memory \in 16..1024 /\ k.parallelism \in 1..16
<1>1. \A p \in DOMAIN KdfBounds.argon2id : k[p] \in KdfBounds.argon2id[p]
  BY DEF ValidateForPrelogin
<1>2. KdfBounds.argon2id = [iterations |-> 2..10, memory |-> 16..1024, parallelism |-> 1..16]
  BY DEF KdfBounds
<1>3. QED
  BY <1>1, <1>2

(* What is within the limits and not over the budget is supported. *)
LEMMA SupportedIsValid ==
  ASSUME NEW k, k.type \in {"pbkdf2", "argon2id"}, ValidateForPrelogin(k),
         NEW limit \in Nat, k.type = "argon2id" => ~(k.memory > limit)
  PROVE  Supported(k, limit)
<1>1. CASE k.type = "pbkdf2"
  <2>1. k.iterations \in 5000..PBKDF2_PRELOGIN_ITERATIONS_MAX
    BY <1>1, PbkdfLimits
  <2>2. k.iterations >= 5000 /\ k.iterations <= PBKDF2_PRELOGIN_ITERATIONS_MAX
    BY <2>1
  <2>3. QED
    BY <1>1, <2>2 DEF Supported
<1>2. CASE k.type = "argon2id"
  <2>1. k.iterations \in 2..10 /\ k.memory \in 16..1024 /\ k.parallelism \in 1..16
    BY <1>2, ArgonLimits
  <2>2. k.memory <= limit
    BY <1>2, <2>1
  <2>3. /\ k.iterations >= 2 /\ k.iterations <= 10
        /\ k.memory >= 16 /\ k.memory <= 1024
        /\ k.parallelism >= 1 /\ k.parallelism <= 16
    BY <2>1
  <2>4. QED
    BY <1>2, <2>2, <2>3 DEF Supported
<1>3. QED
  BY <1>1, <1>2

(* The parameters of a key that was derived are the ones the server sent,  *)
(* within the bounds and the budget.                                       *)
LEMMA DerivedSupported ==
  ASSUME NEW unlock, NEW password, NEW limit \in Nat,
         UnlockSession(unlock, password, limit).ran # None
  PROVE  Supported(UnlockSession(unlock, password, limit).ran, limit)
<1> DEFINE kdf == KdfFromParts(unlock.kdf)
           u == UnlockSession(unlock, password, limit)
           d == Derived(unlock, WrappedUserKey(unlock), kdf.value, password)
<1>1. \A kind : Refused(kind).ran = None
  BY DEF Refused
<1>2. unlock # None /\ WrappedUserKey(unlock) # None
  BY <1>1 DEF UnlockSession
<1>3. /\ ~kdf.ok => u = Refused(kdf.value)
      /\ kdf.ok /\ OverBudget(kdf.value, limit) => u = Refused("kdf_too_expensive")
      /\ kdf.ok /\ ~OverBudget(kdf.value, limit) => u = d
  <2>1. CASE ~kdf.ok
    BY <1>2, <2>1 DEF UnlockSession
  <2>2. CASE kdf.ok /\ OverBudget(kdf.value, limit)
    BY <1>2, <2>2 DEF UnlockSession
  <2>3. CASE kdf.ok /\ ~OverBudget(kdf.value, limit)
    BY <1>2, <2>3 DEF UnlockSession
  <2>4. QED
    BY <2>1, <2>2, <2>3
<1> HIDE DEF kdf, d, u
<1>4. kdf.ok /\ ~OverBudget(kdf.value, limit) /\ u = d
  BY <1>1, <1>3 DEF u
<1>5. DeriveMasterKey(password, unlock.salt, kdf.value).ok /\ u.ran = kdf.value
  BY <1>1, <1>4 DEF d, Derived, u
<1>6. ValidateForPrelogin(kdf.value)
  BY <1>5 DEF DeriveMasterKey, Err
<1>7. kdf.value.type \in {"pbkdf2", "argon2id"}
  BY <1>4 DEF kdf, KdfFromParts, Ok, Err
<1> DEFINE k == kdf.value
<1>8. k.type = "argon2id" => ~(k.memory > limit)
  BY <1>4 DEF OverBudget
<1>9. Supported(k, limit)
  BY <1>6, <1>7, <1>8, SupportedIsValid
<1>10. QED
  BY <1>5, <1>9 DEF u

-----------------------------------------------------------------------------
(* Policy files *)

(* entries[n] is what the loop over a line has after n turns. *)
IsLineLoop(entries, line) ==
    entries = [n \in 0..Len(line) |->
                  IF n = 0 THEN <<>>
                  ELSE IF Trim(line[n]) = <<>> THEN entries[n - 1]
                  ELSE Append(entries[n - 1], Trim(line[n]))]

(* The same for the loop over the lines of a file. *)
IsFileLoop(entries, lines) ==
    entries = [n \in 0..Len(lines) |->
                  IF n = 0 THEN <<>>
                  ELSE IF Commented(lines[n]) THEN entries[n - 1]
                  ELSE entries[n - 1] \o LineEntries(lines[n])]

(* What is written on the first n places of a line, and in n lines. *)
OnLine(line, n) == {Trim(line[i]) : i \in 1..n} \ {<<>>}

InLines(lines, n) ==
    UNION {OnLine(lines[i], Len(lines[i])) : i \in {j \in 1..n : ~Commented(lines[j])}}

(* A loop that appends runs to its end. *)
LEMMA LineLoopExists ==
  ASSUME NEW line, IsSequence(line)
  PROVE  \E entries : IsLineLoop(entries, line)
<1> DEFINE l == Len(line)
           B(g, n) == IF n = 0 THEN <<>>
                      ELSE IF Trim(line[n]) = <<>> THEN g[n - 1]
                      ELSE Append(g[n - 1], Trim(line[n]))
           T == {n \in Nat : \E g : \A m \in 0..n : g[m] = B(g, m)}
<1>1. l \in Nat
  BY SequenceShape
<1>2. 0 \in T
  <2> DEFINE g == [m \in 0..0 |-> <<>>]
  <2>1. \A m \in 0..0 : g[m] = B(g, m)
    OBVIOUS
  <2>2. QED
    BY <2>1
<1>3. ASSUME NEW n \in Nat, n \in T PROVE n + 1 \in T
  <2>1. PICK g : \A m \in 0..n : g[m] = B(g, m)
    BY <1>3
  <2> DEFINE h == [m \in 0..(n + 1) |-> IF m <= n THEN g[m] ELSE B(g, m)]
  <2>2. ASSUME NEW m \in 0..(n + 1) PROVE h[m] = B(h, m)
    <3>1. h[m] = B(g, m)
      BY <2>1
    <3>2. m # 0 => h[m - 1] = g[m - 1]
      OBVIOUS
    <3> HIDE DEF h
    <3>3. QED
      BY <3>1, <3>2
  <2>3. \A m \in 0..(n + 1) : h[m] = B(h, m)
    BY <2>2
  <2> HIDE DEF h
  <2>4. \E k : \A m \in 0..(n + 1) : k[m] = B(k, m)
    BY <2>3
  <2> HIDE DEF B
  <2>5. QED
    BY <2>4
<1> HIDE DEF T
<1>4. l \in T
  BY <1>1, <1>2, <1>3, NatSetInduction
<1>5. PICK g : \A m \in 0..l : g[m] = B(g, m)
  BY <1>4 DEF T
<1> DEFINE h == [m \in 0..l |-> g[m]]
<1>6. ASSUME NEW m \in 0..l PROVE h[m] = B(h, m)
  <2>1. h[m] = B(g, m)
    BY <1>5
  <2>2. m # 0 => h[m - 1] = g[m - 1]
    BY <1>1
  <2> HIDE DEF h
  <2>3. QED
    BY <2>1, <2>2
<1>7. h = [m \in 0..l |-> B(h, m)]
  BY <1>6
<1>8. IsLineLoop(h, line)
  <2> HIDE DEF h
  <2>1. QED
    BY <1>7 DEF IsLineLoop
<1>9. QED
  BY <1>8

(* The entries of a line are what is written on it, without what is empty. *)
LEMMA LineEntriesAre ==
  ASSUME NEW line, IsSequence(line)
  PROVE  IsSequence(LineEntries(line)) /\ Range(LineEntries(line)) = OnLine(line, Len(line))
<1> DEFINE l == Len(line)
           e == CHOOSE entries : IsLineLoop(entries, line)
<1>1. l \in Nat
  BY SequenceShape
<1>2. IsLineLoop(e, line)
  BY LineLoopExists
<1>3. LineEntries(line) = e[l]
  BY DEF LineEntries, IsLineLoop
<1> HIDE DEF e
<1> DEFINE T == {n \in Nat : n <= l => IsSequence(e[n]) /\ Range(e[n]) = OnLine(line, n)}
<1>4. 0 \in T
  <2>1. e[0] = <<>>
    BY <1>1, <1>2 DEF IsLineLoop
  <2>2. Range(<<>>) = {} /\ OnLine(line, 0) = {}
    BY DEF Range, OnLine
  <2>3. IsSequence(<<>>)
    BY DEF IsSequence
  <2>4. QED
    BY <2>1, <2>2, <2>3
<1>5. ASSUME NEW n \in Nat, n \in T PROVE n + 1 \in T
  <2> SUFFICES ASSUME n + 1 <= l PROVE IsSequence(e[n + 1]) /\ Range(e[n + 1]) = OnLine(line, n + 1)
    OBVIOUS
  <2>1. n <= l /\ n + 1 \in 0..l /\ (n + 1) - 1 = n /\ n + 1 # 0
    BY <1>1
  <2>2. IsSequence(e[n]) /\ Range(e[n]) = OnLine(line, n)
    BY <1>5, <2>1
  <2>3. OnLine(line, n + 1) = (OnLine(line, n) \cup {Trim(line[n + 1])}) \ {<<>>}
    <3>1. 1..(n + 1) = (1..n) \cup {n + 1}
      OBVIOUS
    <3>2. QED
      BY <3>1 DEF OnLine
  <2>4. e[n + 1] = IF Trim(line[n + 1]) = <<>> THEN e[n] ELSE Append(e[n], Trim(line[n + 1]))
    BY <1>2, <2>1 DEF IsLineLoop
  <2>5. CASE Trim(line[n + 1]) = <<>>
    BY <2>2, <2>3, <2>4, <2>5 DEF OnLine
  <2>6. CASE Trim(line[n + 1]) # <<>>
    <3> DEFINE t == Trim(line[n + 1])
               s == e[n]
               S == Range(s) \cup {t}
    <3> HIDE DEF t, s
    <3>1. s \in Seq(Range(s)) /\ Range(s) \subseteq S
      BY <2>2 DEF IsSequence, s
    <3>2. s \in Seq(S)
      <4> HIDE DEF S
      <4>1. QED
        BY <3>1, SeqMonotonic
    <3>3. Append(s, t) \in Seq(S) /\ Range(Append(s, t)) = Range(s) \cup {t}
      <4>1. t \in S
        OBVIOUS
      <4> HIDE DEF S
      <4>2. Append(s, t) \in Seq(S)
        BY <3>2, <4>1
      <4>3. /\ Len(Append(s, t)) = Len(s) + 1 /\ Append(s, t)[Len(s) + 1] = t
            /\ \A i \in 1..Len(s) : Append(s, t)[i] = s[i]
        BY <3>2, <4>1, AppendProperties
      <4>4. Len(s) \in Nat /\ DOMAIN s = 1..Len(s) /\ DOMAIN Append(s, t) = 1..(Len(s) + 1)
        BY <3>2, <4>2, <4>3
      <4>5. 1..(Len(s) + 1) = (1..Len(s)) \cup {Len(s) + 1}
        BY <4>4
      <4>6. QED
        BY <4>2, <4>3, <4>4, <4>5 DEF Range
    <3>4. IsSequence(Append(s, t))
      <4> HIDE DEF S
      <4>1. QED
        BY <3>3, SequenceOver
    <3>5. e[n + 1] = Append(s, t) /\ t # <<>>
      BY <2>4, <2>6 DEF s, t
    <3>6. OnLine(line, n + 1) = OnLine(line, n) \cup {t}
      BY <2>3, <3>5 DEF t, OnLine
    <3>7. QED
      BY <2>2, <3>3, <3>4, <3>5, <3>6 DEF s
  <2>7. QED
    BY <2>5, <2>6
<1> HIDE DEF T
<1>6. l \in T
  BY <1>1, <1>4, <1>5, NatSetInduction
<1>7. QED
  BY <1>1, <1>3, <1>6 DEF T

(* The loop over the lines of a file runs to its end, too. *)
LEMMA FileLoopExists ==
  ASSUME NEW lines, IsSequence(lines)
  PROVE  \E entries : IsFileLoop(entries, lines)
<1> DEFINE l == Len(lines)
           B(g, n) == IF n = 0 THEN <<>>
                      ELSE IF Commented(lines[n]) THEN g[n - 1]
                      ELSE g[n - 1] \o LineEntries(lines[n])
           T == {n \in Nat : \E g : \A m \in 0..n : g[m] = B(g, m)}
<1>1. l \in Nat
  BY SequenceShape
<1>2. 0 \in T
  <2> DEFINE g == [m \in 0..0 |-> <<>>]
  <2>1. \A m \in 0..0 : g[m] = B(g, m)
    OBVIOUS
  <2>2. QED
    BY <2>1
<1>3. ASSUME NEW n \in Nat, n \in T PROVE n + 1 \in T
  <2>1. PICK g : \A m \in 0..n : g[m] = B(g, m)
    BY <1>3
  <2> DEFINE h == [m \in 0..(n + 1) |-> IF m <= n THEN g[m] ELSE B(g, m)]
  <2>2. ASSUME NEW m \in 0..(n + 1) PROVE h[m] = B(h, m)
    <3>1. h[m] = B(g, m)
      BY <2>1
    <3>2. m # 0 => h[m - 1] = g[m - 1]
      OBVIOUS
    <3> HIDE DEF h
    <3>3. QED
      BY <3>1, <3>2
  <2>3. \A m \in 0..(n + 1) : h[m] = B(h, m)
    BY <2>2
  <2> HIDE DEF h
  <2>4. \E k : \A m \in 0..(n + 1) : k[m] = B(k, m)
    BY <2>3
  <2> HIDE DEF B
  <2>5. QED
    BY <2>4
<1> HIDE DEF T
<1>4. l \in T
  BY <1>1, <1>2, <1>3, NatSetInduction
<1>5. PICK g : \A m \in 0..l : g[m] = B(g, m)
  BY <1>4 DEF T
<1> DEFINE h == [m \in 0..l |-> g[m]]
<1>6. ASSUME NEW m \in 0..l PROVE h[m] = B(h, m)
  <2>1. h[m] = B(g, m)
    BY <1>5
  <2>2. m # 0 => h[m - 1] = g[m - 1]
    BY <1>1
  <2> HIDE DEF h
  <2>3. QED
    BY <2>1, <2>2
<1>7. h = [m \in 0..l |-> B(h, m)]
  BY <1>6
<1>8. IsFileLoop(h, lines)
  <2> HIDE DEF h
  <2>1. QED
    BY <1>7 DEF IsFileLoop
<1>9. QED
  BY <1>8

(* What stands in two sequences, one after the other. *)
LEMMA ConcatShape ==
  ASSUME NEW s, IsSequence(s), NEW t, IsSequence(t)
  PROVE  /\ IsSequence(s \o t) /\ Range(s \o t) = Range(s) \cup Range(t)
         /\ s \o t = <<>> <=> s = <<>> /\ t = <<>>
<1> DEFINE S == Range(s) \cup Range(t)
           c == s \o t
<1>1. s \in Seq(S) /\ t \in Seq(S)
  <2>1. s \in Seq(Range(s)) /\ t \in Seq(Range(t)) /\ Range(s) \subseteq S /\ Range(t) \subseteq S
    BY DEF IsSequence
  <2> HIDE DEF S
  <2>2. QED
    BY <2>1, SeqMonotonic
<1>2. Len(s) \in Nat /\ Len(t) \in Nat /\ DOMAIN s = 1..Len(s) /\ DOMAIN t = 1..Len(t)
      /\ (s = <<>> <=> Len(s) = 0) /\ (t = <<>> <=> Len(t) = 0)
  BY SequenceShape
<1> HIDE DEF S
<1>3. /\ c \in Seq(S) /\ Len(c) = Len(s) + Len(t)
      /\ \A i \in 1..(Len(s) + Len(t)) : c[i] = IF i <= Len(s) THEN s[i] ELSE t[i - Len(s)]
  BY <1>1, ConcatProperties
<1> HIDE DEF c
<1>4. IsSequence(c)
  BY <1>3, SequenceOver
<1>5. DOMAIN c = 1..(Len(s) + Len(t)) /\ (c = <<>> <=> Len(c) = 0)
  BY <1>3, <1>4, SequenceShape
<1>6. Range(c) \subseteq Range(s) \cup Range(t)
  <2> SUFFICES ASSUME NEW i \in DOMAIN c PROVE c[i] \in Range(s) \cup Range(t)
    BY DEF Range
  <2>1. CASE i <= Len(s)
    <3>1. i \in DOMAIN s /\ c[i] = s[i]
      BY <1>2, <1>3, <1>5, <2>1
    <3>2. QED
      BY <3>1 DEF Range
  <2>2. CASE ~(i <= Len(s))
    <3>1. i - Len(s) \in DOMAIN t /\ c[i] = t[i - Len(s)]
      BY <1>2, <1>3, <1>5, <2>2
    <3>2. QED
      BY <3>1 DEF Range
  <2>3. QED
    BY <2>1, <2>2
<1>7. Range(s) \subseteq Range(c)
  <2> SUFFICES ASSUME NEW i \in DOMAIN s PROVE s[i] \in Range(c)
    BY DEF Range
  <2>1. i \in DOMAIN c /\ c[i] = s[i]
    BY <1>2, <1>3, <1>5
  <2>2. QED
    BY <2>1 DEF Range
<1>8. Range(t) \subseteq Range(c)
  <2> SUFFICES ASSUME NEW i \in DOMAIN t PROVE t[i] \in Range(c)
    BY DEF Range
  <2> DEFINE j == Len(s) + i
  <2>1. j \in DOMAIN c /\ ~(j <= Len(s)) /\ j - Len(s) = i
    BY <1>2, <1>5
  <2>2. c[j] = t[i]
    <3> HIDE DEF j
    <3>1. QED
      BY <1>3, <1>5, <2>1
  <2> HIDE DEF j
  <2>3. QED
    BY <2>1, <2>2 DEF Range
<1>9. c = <<>> <=> s = <<>> /\ t = <<>>
  BY <1>2, <1>3, <1>5
<1>10. QED
  BY <1>4, <1>6, <1>7, <1>8, <1>9 DEF c

(* A sequence without elements is empty. *)
LEMMA EmptyRange ==
  ASSUME NEW s, IsSequence(s)
  PROVE  s = <<>> <=> Range(s) = {}
<1>1. Len(s) \in Nat /\ DOMAIN s = 1..Len(s) /\ (s = <<>> <=> Len(s) = 0)
  BY SequenceShape
<1>2. CASE Len(s) = 0
  <2>1. DOMAIN s = {}
    BY <1>1, <1>2
  <2>2. QED
    BY <1>1, <1>2, <2>1 DEF Range
<1>3. CASE Len(s) # 0
  <2>1. 1 \in DOMAIN s
    BY <1>1, <1>3
  <2>2. s[1] \in Range(s)
    BY <2>1 DEF Range
  <2>3. QED
    BY <1>1, <1>3, <2>2
<1>4. QED
  BY <1>2, <1>3

ProperLines(lines) ==
    lines # None => IsSequence(lines) /\ \A line \in Range(lines) : IsSequence(line)

(* What is read from a policy file is what is written in it. *)
LEMMA PolicyEntriesAre ==
  ASSUME NEW lines, lines # None, ProperLines(lines)
  PROVE  /\ IsSequence(PolicyEntries(lines)) /\ Range(PolicyEntries(lines)) = Written(lines)
         /\ PolicyEntries(lines) = <<>> <=> Written(lines) = {}
<1> DEFINE l == Len(lines)
           e == CHOOSE entries : IsFileLoop(entries, lines)
<1>0. IsSequence(lines) /\ \A line \in Range(lines) : IsSequence(line)
  BY DEF ProperLines
<1>1. l \in Nat /\ DOMAIN lines = 1..l
  BY <1>0, SequenceShape
<1>2. IsFileLoop(e, lines)
  BY <1>0, FileLoopExists
<1>3. PolicyEntries(lines) = e[l]
  BY DEF PolicyEntries, IsFileLoop
<1> HIDE DEF e
<1> DEFINE T == {n \in Nat : n <= l => IsSequence(e[n]) /\ Range(e[n]) = InLines(lines, n)}
<1>4. 0 \in T
  <2>1. e[0] = <<>>
    BY <1>1, <1>2 DEF IsFileLoop
  <2>2. Range(<<>>) = {}
    BY DEF Range
  <2>3. InLines(lines, 0) = {}
    <3>1. 1..0 = {}
      OBVIOUS
    <3>2. QED
      BY <3>1, Zenon DEF InLines
  <2>4. IsSequence(<<>>)
    BY DEF IsSequence
  <2>5. QED
    BY <2>1, <2>2, <2>3, <2>4
<1>5. ASSUME NEW n \in Nat, n \in T PROVE n + 1 \in T
  <2> SUFFICES ASSUME n + 1 <= l PROVE IsSequence(e[n + 1]) /\ Range(e[n + 1]) = InLines(lines, n + 1)
    OBVIOUS
  <2>1. n <= l /\ n + 1 \in 0..l /\ n + 1 \in 1..l /\ (n + 1) - 1 = n /\ n + 1 # 0
    BY <1>1
  <2>2. IsSequence(e[n]) /\ Range(e[n]) = InLines(lines, n)
    BY <1>5, <2>1
  <2> DEFINE line == lines[n + 1]
  <2>3. 1..(n + 1) = (1..n) \cup {n + 1}
    OBVIOUS
  <2>4. e[n + 1] = IF Commented(line) THEN e[n] ELSE e[n] \o LineEntries(line)
    BY <1>2, <2>1 DEF IsFileLoop
  <2>5. CASE Commented(line)
    <3>1. InLines(lines, n + 1) = InLines(lines, n)
      BY <2>3, <2>5 DEF InLines
    <3>2. QED
      BY <2>2, <2>4, <2>5, <3>1
  <2>6. CASE ~Commented(line)
    <3>1. InLines(lines, n + 1) = InLines(lines, n) \cup OnLine(line, Len(line))
      <4> DEFINE A == {j \in 1..n : ~Commented(lines[j])}
                 B == {j \in 1..(n + 1) : ~Commented(lines[j])}
                 E(j) == OnLine(lines[j], Len(lines[j]))
      <4>1. B = A \cup {n + 1}
        BY <2>3, <2>6
      <4>2. UNION {E(j) : j \in B} = (UNION {E(j) : j \in A}) \cup E(n + 1)
        <5> HIDE DEF A, B, E
        <5>1. QED
          BY <4>1
      <4>3. QED
        BY <4>2 DEF InLines
    <3>2. IsSequence(line)
      <4>1. line \in Range(lines)
        BY <1>1, <2>1 DEF Range
      <4>2. QED
        BY <1>0, <4>1
    <3> HIDE DEF line
    <3>3. IsSequence(LineEntries(line)) /\ Range(LineEntries(line)) = OnLine(line, Len(line))
      BY <3>2, LineEntriesAre
    <3>4. IsSequence(e[n] \o LineEntries(line)) /\
             Range(e[n] \o LineEntries(line)) = Range(e[n]) \cup Range(LineEntries(line))
      BY <2>2, <3>3, ConcatShape
    <3>5. e[n + 1] = e[n] \o LineEntries(line)
      BY <2>4, <2>6 DEF line
    <3>6. QED
      BY <2>2, <3>1, <3>3, <3>4, <3>5
  <2>7. QED
    BY <2>5, <2>6
<1> HIDE DEF T
<1>6. l \in T
  BY <1>1, <1>4, <1>5, NatSetInduction
<1>7. IsSequence(e[l]) /\ Range(e[l]) = InLines(lines, l)
  BY <1>1, <1>6 DEF T
<1>8. InLines(lines, l) = Written(lines)
  <2>1. ASSUME NEW i \in 1..l
        PROVE  OnLine(lines[i], Len(lines[i])) = {Trim(lines[i][j]) : j \in DOMAIN lines[i]} \ {<<>>}
    <3>1. IsSequence(lines[i])
      BY <1>0, <1>1 DEF Range
    <3>2. DOMAIN lines[i] = 1..Len(lines[i])
      BY <3>1, SequenceShape
    <3>3. QED
      BY <3>2 DEF OnLine
  <2>2. ASSUME NEW x PROVE x \in InLines(lines, l) <=> x \in Written(lines)
    <3>1. x \in InLines(lines, l) <=>
             \E i \in 1..l : ~Commented(lines[i]) /\ x \in OnLine(lines[i], Len(lines[i]))
      BY DEF InLines
    <3>2. x \in InLines(lines, l) <=>
             \E i \in 1..l : /\ ~Commented(lines[i]) /\ x # <<>>
                             /\ \E j \in DOMAIN lines[i] : x = Trim(lines[i][j])
      BY <2>1, <3>1
    <3>3. x \in Written(lines) <=>
             /\ x # <<>>
             /\ \E line \in Range(lines) : ~Commented(line) /\ \E j \in DOMAIN line : x = Trim(line[j])
      BY DEF Written
    <3>4. \A line : line \in Range(lines) <=> \E i \in 1..l : line = lines[i]
      BY <1>1 DEF Range
    <3>5. QED
      BY <3>2, <3>3, <3>4
  <2>3. QED
    BY <2>2
<1>9. e[l] = <<>> <=> Range(e[l]) = {}
  BY <1>7, EmptyRange
<1>10. QED
  BY <1>3, <1>7, <1>8, <1>9

-----------------------------------------------------------------------------
(* The process.  What it has checked when it has come past a stage *)

PastAuth == {"spawn", "bind", "serving"}
PastPolicies == {"auth"} \cup PastAuth
PastSelector == PolicyFiles \cup PastPolicies
PastClient == {"selector"} \cup PastSelector
PastCertificates == {"client"} \cup PastClient
PastOptions == {"certificates"} \cup PastCertificates

PastCredential(name) ==
    CASE name = "master_password" -> {"options"} \cup PastOptions
      [] name = "client_secret" -> {"options", "master_password"} \cup PastOptions
      [] name = "client_id" -> {"options", "master_password", "client_secret"} \cup PastOptions

PastPolicy(name) ==
    IF name = "allowed_keys" THEN {"allowed_key_prefixes"} \cup PastPolicies ELSE PastPolicies

(* The files are proper, now and since the start, and so are the arguments. *)
FilesInv ==
    /\ WellFormedArgs(pod.args)
    /\ files \in held
    /\ \A f \in held : WellFormedFiles(f)

(* The arguments of the process are the pod's until they are wiped. *)
ArgsInv ==
    /\ pc \notin {"exited", "healthy", "bind", "serving"} => args = pod.args
    /\ pc \in {"bind", "serving"} => args = ZeroizeSensitive(pod.args)
    /\ pc = "healthcheck" => pod.args.healthcheck_url # None

AppInv == DOMAIN app = DOMAIN NoApp /\ DOMAIN app.credentials = Credentials

CredentialsInv ==
    \A n \in Credentials : pc \in PastCredential(n) =>
        \E f \in held :
            /\ SensitiveArg(pod.args[n], f[n]).ok
            /\ app.credentials[n] = SensitiveArg(pod.args[n], f[n]).value

ClientInv ==
    /\ pc \in PastOptions =>
          ValidOptions(pod.args) /\ app.endpoints = Endpoints(pod.args).value
    /\ pc \in PastCertificates /\ pod.args.ca_bundle_file =>
          \E f \in held : f.ca_bundle \notin {None, 0}
    /\ pc \in PastClient =>
          /\ ValidMemoryLimit(pod.args.argon2_memory_limit_mib)
          /\ app.budget = pod.args.argon2_memory_limit_mib

(* What an allow-list has: the arguments and, once it is read, the file. *)
Listed(name, rules, f, read) ==
    IF ~read THEN rules = Normalized(pod.args[name].inline)
    ELSE /\ pod.args[name].file => f[name] # None
         /\ rules = Normalized(pod.args[name].inline) \o
                       (IF pod.args[name].file THEN PolicyEntries(f[name]) ELSE <<>>)

RulesInv ==
    /\ pc \in PastSelector => OneSelectorMode(pod.args) /\ ValidInline(pod.args)
    /\ pc \in PolicyFiles => ~pod.args.allow_all_selectors
    /\ pc \in PastSelector /\ ~pod.args.allow_all_selectors =>
          /\ DOMAIN app.rules = PolicyFiles
          /\ \A n \in PolicyFiles : \E f \in held :
                Listed(n, app.rules[n], f, pc \in PastPolicy(n))
    /\ pc \in PastPolicies /\ ~pod.args.allow_all_selectors =>
          \E n \in PolicyFiles : app.rules[n] # <<>>

AuthInv == pc \in PastAuth => \E f \in held : WebhookAuth(pod.args, f).ok

SessionInv ==
    session # None =>
        /\ pc = "serving"
        /\ session.login = EndpointUrl(app.endpoints.identity, <<"connect", "token">>)
        /\ session.sync = [EndpointUrl(app.endpoints.api, <<"sync">>) EXCEPT
                              !.query = "excludeDomains=true"]
        /\ session.unlock = UnlockSession(pod.unlock, app.credentials.master_password, app.budget)

(* The inductive invariant *)
ProcessInv ==
    /\ FilesInv /\ ArgsInv /\ AppInv /\ CredentialsInv /\ ClientInv
    /\ RulesInv /\ AuthInv /\ SessionInv

Early == {"start", "client_id", "healthcheck", "healthy", "exited"}

(* Where nothing is checked yet, nothing is claimed. *)
LEMMA NothingChecked ==
  FilesInv /\ AppInv /\ ArgsInv /\ session = None /\ pc \in Early => ProcessInv
<1> SUFFICES ASSUME FilesInv, AppInv, ArgsInv, session = None, pc \in Early PROVE ProcessInv
  OBVIOUS
<1>1. CredentialsInv
  BY DEF CredentialsInv, Credentials, PastCredential, PastOptions, PastCertificates, PastClient,
         PastSelector, PastPolicies, PastAuth, PolicyFiles, Early
<1>2. ClientInv
  BY DEF ClientInv, PastOptions, PastCertificates, PastClient, PastSelector, PastPolicies,
         PastAuth, PolicyFiles, Early
<1>3. RulesInv
  BY DEF RulesInv, PastSelector, PastPolicies, PastAuth, PolicyFiles, Early
<1>4. AuthInv
  BY DEF AuthInv, PastAuth, Early
<1>5. SessionInv
  BY DEF SessionInv
<1>6. QED
  BY <1>1, <1>2, <1>3, <1>4, <1>5 DEF ProcessInv

(* The same for the state after a step. *)
LEMMA NothingCheckedNext ==
  (FilesInv /\ AppInv /\ ArgsInv /\ session = None /\ pc \in Early => ProcessInv)'
BY NothingChecked, PTL

(* A pod starts with proper files and arguments. *)
LEMMA ProcessInit == Init => ProcessInv
<1> SUFFICES ASSUME Init PROVE ProcessInv
  OBVIOUS
<1>1. FilesInv
  <2>1. PICK case \in Cases :
           /\ pod = [args |-> case.args, account |-> case.account, unlock |-> case.unlock]
           /\ files = case.files
    BY DEF Init
  <2>2. WellFormedArgs(case.args) /\ WellFormedFiles(case.files)
    BY CasesAssumption
  <2>3. pod.args = case.args
    BY <2>1
  <2>4. held = {files}
    BY DEF Init
  <2>5. QED
    BY <2>1, <2>2, <2>3, <2>4 DEF FilesInv
<1>2. AppInv
  BY DEF Init, AppInv, NoApp
<1>3. pc = "start" /\ args = pod.args /\ session = None
  BY DEF Init
<1>4. ArgsInv
  BY <1>3 DEF ArgsInv
<1>5. QED
  BY <1>1, <1>2, <1>3, <1>4, NothingChecked DEF Early

(* A step that keeps the files and the arguments. *)
LEMMA FilesKept ==
  ASSUME FilesInv, UNCHANGED <<pod, files, held>>
  PROVE  FilesInv'
BY DEF FilesInv

(* A process that ends with an error claims nothing. *)
LEMMA RefusedInv ==
  ASSUME ProcessInv, NEW from, from # "serving", Refuse(from)
  PROVE  ProcessInv'
<1>1. FilesInv'
  BY FilesKept DEF ProcessInv, Refuse
<1>2. AppInv'
  BY DEF Refuse, AppInv, NoApp
<1>3. ArgsInv'
  BY DEF Refuse, ArgsInv
<1>4. session' = None
  BY DEF Refuse, ProcessInv, SessionInv
<1>5. pc' \in Early
  BY DEF Refuse, Early
<1>6. QED
  BY <1>1, <1>2, <1>3, <1>4, <1>5, NothingCheckedNext

(* The steps before anything is read, and the ends of a process. *)
LEMMA EarlySteps ==
  ASSUME ProcessInv, Start \/ Healthcheck \/ Crash \/ Restart
  PROVE  ProcessInv'
<1>1. CASE Start
  <2>1. FilesInv'
    BY <1>1, FilesKept DEF ProcessInv, Start, Continue
  <2>2. AppInv'
    BY <1>1 DEF ProcessInv, AppInv, Start, NoApp
  <2>3. session' = None
    BY <1>1 DEF ProcessInv, SessionInv, Start, Continue
  <2>4. args = pod.args /\ pc = "start"
    BY <1>1 DEF ProcessInv, ArgsInv, Start, Continue
  <2>5. ArgsInv' /\ pc' \in Early
    BY <1>1, <2>4 DEF Start, Continue, ArgsInv, Early
  <2>6. QED
    BY <2>1, <2>2, <2>3, <2>5, NothingCheckedNext
<1>2. CASE Healthcheck
  <2>1. PICK reply \in Replies :
           \/ Continue("healthcheck", "healthy") /\ UNCHANGED <<args, app>>
           \/ Refuse("healthcheck")
    BY <1>2 DEF Healthcheck
  <2>2. CASE Refuse("healthcheck")
    BY <2>2, RefusedInv
  <2>3. CASE Continue("healthcheck", "healthy") /\ UNCHANGED <<args, app>>
    <3>1. FilesInv'
      BY <2>3, FilesKept DEF ProcessInv, Continue
    <3>2. AppInv'
      BY <2>3 DEF ProcessInv, AppInv, NoApp
    <3>3. session' = None
      BY <2>3 DEF ProcessInv, SessionInv, Continue
    <3>4. ArgsInv' /\ pc' \in Early
      BY <2>3 DEF Continue, ArgsInv, Early
    <3>5. QED
      BY <3>1, <3>2, <3>3, <3>4, NothingCheckedNext
  <2>4. QED
    BY <2>1, <2>2, <2>3
<1>3. CASE Crash
  <2>1. FilesInv'
    BY <1>3, FilesKept DEF ProcessInv, Crash
  <2>2. AppInv' /\ ArgsInv' /\ session' = None /\ pc' \in Early
    BY <1>3 DEF AppInv, ArgsInv, NoApp, Crash, Early
  <2>3. QED
    BY <2>1, <2>2, NothingCheckedNext
<1>4. CASE Restart
  <2>1. FilesInv'
    BY <1>4 DEF ProcessInv, FilesInv, Restart
  <2>2. AppInv' /\ ArgsInv' /\ session' = None /\ pc' \in Early
    BY <1>4 DEF AppInv, ArgsInv, NoApp, Restart, Early
  <2>3. QED
    BY <2>1, <2>2, NothingCheckedNext
<1>5. QED
  BY <1>1, <1>2, <1>3, <1>4

(* While it starts, a process has no session. *)
LEMMA AdvanceKeeps ==
  ASSUME ProcessInv, NEW from, from # "serving", NEW to, Continue(from, to)
  PROVE  FilesInv' /\ SessionInv' /\ held' = held /\ pod' = pod
<1>1. FilesInv'
  BY FilesKept DEF ProcessInv, Continue
<1>2. session' = None
  BY DEF Continue, ProcessInv, SessionInv
<1>3. QED
  BY <1>1, <1>2 DEF SessionInv, Continue

(* Reading a credential *)
LEMMA ReadCredentialsInv ==
  ASSUME ProcessInv, ReadCredentials
  PROVE  ProcessInv'
<1> USE DEF PastOptions, PastCertificates, PastClient, PastSelector, PastPolicies, PastAuth, PolicyFiles
<1> DEFINE Follows == {<<"client_id", "client_secret">>, <<"client_secret", "master_password">>,
                       <<"master_password", "options">>}
<1> SUFFICES ASSUME NEW name, NEW next, <<name, next>> \in Follows, ReadCredential(name, next)
             PROVE  ProcessInv'
  BY DEF ReadCredentials
<1>1. name \in Credentials /\ name # "serving"
  BY DEF Credentials
<1> DEFINE secret == SensitiveArg(args[name], files[name])
<1>2. CASE Refuse(name)
  BY <1>1, <1>2, RefusedInv
<1>3. CASE /\ pc = name /\ secret.ok
           /\ Continue(name, next)
           /\ app' = [app EXCEPT !.credentials[name] = secret.value]
           /\ UNCHANGED args
  <2>1. FilesInv' /\ SessionInv' /\ held' = held /\ pod' = pod
    BY <1>1, <1>3, AdvanceKeeps
  <2>2. args = pod.args
    BY <1>3 DEF ProcessInv, ArgsInv
  <2>3. ArgsInv'
    BY <1>3, <2>1, <2>2 DEF ArgsInv, Continue
  <2>4. /\ app' = [app EXCEPT !.credentials = [app.credentials EXCEPT ![name] = secret.value]]
        /\ DOMAIN app = DOMAIN NoApp /\ DOMAIN app.credentials = Credentials
        /\ "credentials" \in DOMAIN app
    BY <1>3 DEF ProcessInv, AppInv, NoApp
  <2> HIDE DEF secret
  <2>5. AppInv'
    BY <2>4 DEF AppInv
  <2>6. CredentialsInv'
    <3> SUFFICES ASSUME NEW n \in Credentials, (pc \in PastCredential(n))'
                 PROVE  \E f \in held' :
                            /\ SensitiveArg(pod'.args[n], f[n]).ok
                            /\ app'.credentials[n] = SensitiveArg(pod'.args[n], f[n]).value
      BY DEF CredentialsInv
    <3>1. CASE n = name
      <4>1. app'.credentials[n] = secret.value
        BY <2>4, <3>1
      <4>2. files \in held
        BY DEF ProcessInv, FilesInv
      <4>3. QED
        BY <1>3, <2>1, <2>2, <3>1, <4>1, <4>2 DEF secret
    <3>2. CASE n # name
      <4>1. app'.credentials[n] = app.credentials[n]
        BY <2>4, <3>2
      <4>2. pc' = next /\ pc = name
        BY <1>3 DEF Continue
      <4>3. pc \in PastCredential(n)
        BY <3>2, <4>2 DEF PastCredential, Credentials
      <4>4. QED
        BY <2>1, <4>1, <4>3 DEF ProcessInv, CredentialsInv
    <3>3. QED
      BY <3>1, <3>2
  <2>7. pc' \in {"client_secret", "master_password", "options"}
    BY <1>3 DEF Continue
  <2>8. ClientInv' /\ RulesInv' /\ AuthInv'
    BY <2>7 DEF ClientInv, RulesInv, AuthInv
  <2>9. QED
    BY <2>1, <2>3, <2>5, <2>6, <2>8 DEF ProcessInv
<1>4. QED
  BY <1>2, <1>3 DEF ReadCredential

(* What was checked stays checked while the results are kept. *)
LEMMA CredentialsKept ==
  ASSUME CredentialsInv, pc \in {"options"} \cup PastOptions,
         pod' = pod, held \subseteq held', app'.credentials = app.credentials
  PROVE  CredentialsInv'
<1> SUFFICES ASSUME NEW n \in Credentials
             PROVE  \E f \in held' :
                        /\ SensitiveArg(pod'.args[n], f[n]).ok
                        /\ app'.credentials[n] = SensitiveArg(pod'.args[n], f[n]).value
  BY DEF CredentialsInv
<1>1. pc \in PastCredential(n)
  BY DEF PastCredential, Credentials
<1>2. QED
  BY <1>1 DEF CredentialsInv

(* The same for the client. *)
LEMMA ClientKept ==
  ASSUME ClientInv, pc \in PastClient, pod' = pod, held \subseteq held',
         app'.endpoints = app.endpoints, app'.budget = app.budget
  PROVE  ClientInv'
<1>1. pc \in PastOptions /\ pc \in PastCertificates
  BY DEF PastOptions, PastCertificates
<1>2. QED
  BY <1>1 DEF ClientInv

(* The same for the allow-lists. *)
LEMMA RulesKept ==
  ASSUME RulesInv, pc \in PastPolicies, pc' \in PastPolicies, pod' = pod, held \subseteq held',
         app'.rules = app.rules
  PROVE  RulesInv'
<1>1. pc \in PastSelector /\ pc' \in PastSelector /\ pc' \notin PolicyFiles
  BY DEF PastSelector, PastPolicies, PastAuth, PolicyFiles
<1>2. \A n \in PolicyFiles : pc \in PastPolicy(n) /\ pc' \in PastPolicy(n)
  BY DEF PastPolicy
<1>3. ASSUME NEW n \in PolicyFiles, ~pod.args.allow_all_selectors
      PROVE  (\E f \in held : Listed(n, app.rules[n], f, pc \in PastPolicy(n)))'
  <2>1. PICK f \in held : Listed(n, app.rules[n], f, pc \in PastPolicy(n))
    BY <1>1, <1>3 DEF RulesInv
  <2>2. Listed(n, app.rules[n], f, pc \in PastPolicy(n))'
    BY <1>2, <2>1 DEF Listed
  <2>3. QED
    BY <2>1, <2>2
<1>4. QED
  BY <1>1, <1>3 DEF RulesInv

(* Device, timeouts and endpoints *)
LEMMA CheckOptionsInv ==
  ASSUME ProcessInv, CheckOptions
  PROVE  ProcessInv'
<1> USE DEF PastOptions, PastCertificates, PastClient, PastSelector, PastPolicies, PastAuth, PolicyFiles
<1>1. CASE Refuse("options")
  BY <1>1, RefusedInv
<1>2. CASE /\ pc = "options" /\ ValidOptions(args)
           /\ Continue("options", "certificates")
           /\ app' = [app EXCEPT !.endpoints = Endpoints(args).value]
           /\ UNCHANGED args
  <2>1. FilesInv' /\ SessionInv' /\ held' = held /\ pod' = pod
    BY <1>2, AdvanceKeeps
  <2>2. args = pod.args /\ pc' = "certificates"
    BY <1>2 DEF ProcessInv, ArgsInv, Continue
  <2>3. ArgsInv'
    BY <1>2, <2>1, <2>2 DEF ArgsInv
  <2>4. AppInv' /\ app'.credentials = app.credentials /\ app'.endpoints = Endpoints(args).value
    BY <1>2 DEF ProcessInv, AppInv, NoApp
  <2>5. CredentialsInv'
    BY <1>2, <2>1, <2>4, CredentialsKept DEF ProcessInv
  <2>6. ClientInv'
    BY <1>2, <2>1, <2>2, <2>4 DEF ClientInv
  <2>7. RulesInv' /\ AuthInv'
    BY <2>2 DEF RulesInv, AuthInv
  <2>8. QED
    BY <2>1, <2>3, <2>4, <2>5, <2>6, <2>7 DEF ProcessInv
<1>3. QED
  BY <1>1, <1>2 DEF CheckOptions

(* The bundle of certificates *)
LEMMA LoadCertificatesInv ==
  ASSUME ProcessInv, LoadCertificates
  PROVE  ProcessInv'
<1> USE DEF PastOptions, PastCertificates, PastClient, PastSelector, PastPolicies, PastAuth, PolicyFiles
<1> DEFINE bundle == IF args.ca_bundle_file THEN files.ca_bundle ELSE 0
<1>1. CASE Refuse("certificates")
  BY <1>1, RefusedInv
<1>2. CASE /\ pc = "certificates" /\ (args.ca_bundle_file => bundle \notin {None, 0})
           /\ Continue("certificates", "client")
           /\ app' = [app EXCEPT !.certificates = bundle]
           /\ UNCHANGED args
  <2>1. FilesInv' /\ SessionInv' /\ held' = held /\ pod' = pod
    BY <1>2, AdvanceKeeps
  <2>2. args = pod.args /\ pc' = "client"
    BY <1>2 DEF ProcessInv, ArgsInv, Continue
  <2>3. ArgsInv'
    BY <1>2, <2>1, <2>2 DEF ArgsInv
  <2>4. AppInv' /\ app'.credentials = app.credentials /\ app'.endpoints = app.endpoints
    <3> HIDE DEF bundle
    <3>1. QED
      BY <1>2 DEF ProcessInv, AppInv, NoApp
  <2>5. CredentialsInv'
    BY <1>2, <2>1, <2>4, CredentialsKept DEF ProcessInv
  <2>6. files \in held
    BY DEF ProcessInv, FilesInv
  <2>7. pod.args.ca_bundle_file => files.ca_bundle \notin {None, 0}
    BY <1>2, <2>2
  <2>8. ClientInv'
    <3> HIDE DEF bundle
    <3>1. ValidOptions(pod.args) /\ app.endpoints = Endpoints(pod.args).value
      BY <1>2 DEF ProcessInv, ClientInv
    <3>2. QED
      BY <2>1, <2>2, <2>4, <2>6, <2>7, <3>1 DEF ClientInv
  <2>9. RulesInv' /\ AuthInv'
    BY <2>2 DEF RulesInv, AuthInv
  <2>10. QED
    BY <2>1, <2>3, <2>4, <2>5, <2>8, <2>9 DEF ProcessInv
<1>3. QED
  BY <1>1, <1>2 DEF LoadCertificates

(* The HTTP client with its memory budget *)
LEMMA BuildClientInv ==
  ASSUME ProcessInv, BuildClient
  PROVE  ProcessInv'
<1> USE DEF PastOptions, PastCertificates, PastClient, PastSelector, PastPolicies, PastAuth, PolicyFiles
<1> DEFINE limit == args.argon2_memory_limit_mib
<1>1. CASE Refuse("client")
  BY <1>1, RefusedInv
<1>2. CASE /\ pc = "client" /\ ValidMemoryLimit(limit)
           /\ Continue("client", "selector")
           /\ app' = [app EXCEPT !.budget = limit]
           /\ UNCHANGED args
  <2>1. FilesInv' /\ SessionInv' /\ held' = held /\ pod' = pod
    BY <1>2, AdvanceKeeps
  <2>2. args = pod.args /\ pc' = "selector"
    BY <1>2 DEF ProcessInv, ArgsInv, Continue
  <2>3. ArgsInv'
    BY <1>2, <2>1, <2>2 DEF ArgsInv
  <2>4. /\ AppInv' /\ app'.credentials = app.credentials /\ app'.endpoints = app.endpoints
        /\ app'.budget = limit
    <3> HIDE DEF limit
    <3>1. QED
      BY <1>2 DEF ProcessInv, AppInv, NoApp
  <2>5. CredentialsInv'
    BY <1>2, <2>1, <2>4, CredentialsKept DEF ProcessInv
  <2>6. ClientInv'
    <3>1. /\ ValidOptions(pod.args) /\ app.endpoints = Endpoints(pod.args).value
          /\ pod.args.ca_bundle_file => \E f \in held : f.ca_bundle \notin {None, 0}
      BY <1>2 DEF ProcessInv, ClientInv
    <3>2. QED
      BY <1>2, <2>1, <2>2, <2>4, <3>1 DEF ClientInv
  <2>7. RulesInv' /\ AuthInv'
    BY <2>2 DEF RulesInv, AuthInv
  <2>8. QED
    BY <2>1, <2>3, <2>4, <2>5, <2>6, <2>7 DEF ProcessInv
<1>3. QED
  BY <1>1, <1>2 DEF BuildClient

(* The arguments about selectors *)
LEMMA SelectorPolicyInv ==
  ASSUME ProcessInv, SelectorPolicy
  PROVE  ProcessInv'
<1> USE DEF PastOptions, PastCertificates, PastClient, PastSelector, PastPolicies, PastAuth
<1> DEFINE lists == [n \in PolicyFiles |-> Normalized(args[n].inline)]
<1>1. CASE Refuse("selector")
  BY <1>1, RefusedInv
<1>2. ASSUME pc = "selector", OneSelectorMode(args), ValidInline(args), UNCHANGED args,
             NEW next, Continue("selector", next), NEW rules, app' = [app EXCEPT !.rules = rules],
             \/ args.allow_all_selectors /\ next = "auth"
             \/ ~args.allow_all_selectors /\ next = "allowed_keys" /\ rules = lists
      PROVE  ProcessInv'
  <2>1. FilesInv' /\ SessionInv' /\ held' = held /\ pod' = pod
    BY <1>2, AdvanceKeeps
  <2>2. args = pod.args /\ pc' = next /\ files \in held
    BY <1>2 DEF ProcessInv, ArgsInv, FilesInv, Continue
  <2>3. ArgsInv'
    BY <1>2, <2>1, <2>2 DEF ArgsInv
  <2>4. /\ AppInv' /\ app'.credentials = app.credentials /\ app'.endpoints = app.endpoints
        /\ app'.budget = app.budget /\ app'.rules = rules
    <3> HIDE DEF lists
    <3>1. QED
      BY <1>2 DEF ProcessInv, AppInv, NoApp
  <2>5. CredentialsInv'
    BY <1>2, <2>1, <2>4, CredentialsKept DEF ProcessInv
  <2>6. ClientInv'
    BY <1>2, <2>1, <2>4, ClientKept DEF ProcessInv
  <2>7. RulesInv'
    <3>1. CASE args.allow_all_selectors /\ next = "auth"
      BY <1>2, <2>1, <2>2, <3>1 DEF RulesInv, PolicyFiles
    <3>2. CASE ~args.allow_all_selectors /\ next = "allowed_keys" /\ rules = lists
      <4>1. DOMAIN app'.rules = PolicyFiles
        BY <2>4, <3>2
      <4>2. \A n \in PolicyFiles : pc' \notin PastPolicy(n)
        BY <2>2, <3>2 DEF PastPolicy, PolicyFiles
      <4>3. \A n \in PolicyFiles : app'.rules[n] = Normalized(pod.args[n].inline)
        BY <2>2, <2>4, <3>2
      <4>4. ASSUME NEW n \in PolicyFiles
            PROVE  (\E f \in held : Listed(n, app.rules[n], f, pc \in PastPolicy(n)))'
        BY <2>1, <2>2, <4>2, <4>3 DEF Listed
      <4> HIDE DEF lists
      <4>5. pc' = "allowed_keys" /\ ~pod'.args.allow_all_selectors
            /\ OneSelectorMode(pod'.args) /\ ValidInline(pod'.args)
        BY <1>2, <2>1, <2>2, <3>2
      <4>6. QED
        BY <4>1, <4>4, <4>5 DEF RulesInv
    <3>3. QED
      BY <1>2, <3>1, <3>2
  <2>8. AuthInv'
    BY <1>2, <2>2 DEF AuthInv
  <2>9. QED
    BY <2>1, <2>3, <2>4, <2>5, <2>6, <2>7, <2>8 DEF ProcessInv
<1>3. CASE /\ pc = "selector" /\ OneSelectorMode(args) /\ ValidInline(args)
           /\ IF args.allow_all_selectors
              THEN /\ Continue("selector", "auth")
                   /\ app' = [app EXCEPT !.rules = "AllowAll"]
              ELSE /\ Continue("selector", "allowed_keys")
                   /\ app' = [app EXCEPT !.rules = lists]
           /\ UNCHANGED args
  <2> HIDE DEF lists
  <2>1. CASE args.allow_all_selectors
    <3>1. Continue("selector", "auth") /\ app' = [app EXCEPT !.rules = "AllowAll"]
      BY <1>3, <2>1
    <3>2. QED
      BY <1>2, <1>3, <2>1, <3>1
  <2>2. CASE ~args.allow_all_selectors
    <3>1. Continue("selector", "allowed_keys") /\ app' = [app EXCEPT !.rules = lists]
      BY <1>3, <2>2
    <3>2. QED
      BY <1>2, <1>3, <2>2, <3>1
  <2>3. QED
    BY <2>1, <2>2
<1>4. QED
  BY <1>1, <1>3 DEF SelectorPolicy

(* The policy files *)
LEMMA ReadPoliciesInv ==
  ASSUME ProcessInv, ReadPolicies
  PROVE  ProcessInv'
<1> USE DEF PastOptions, PastCertificates, PastClient, PastSelector, PastPolicies, PastAuth
<1> DEFINE Follows == {<<"allowed_keys", "allowed_key_prefixes">>, <<"allowed_key_prefixes", "auth">>}
<1> SUFFICES ASSUME NEW name, NEW next, <<name, next>> \in Follows, ReadPolicy(name, next)
             PROVE  ProcessInv'
  BY DEF ReadPolicies
<1>1. name \in PolicyFiles /\ name # "serving"
  BY DEF PolicyFiles
<1> DEFINE readable == args[name].file => files[name] # None
           entries == IF args[name].file THEN PolicyEntries(files[name]) ELSE <<>>
           rules == [app.rules EXCEPT ![name] = @ \o entries]
           valid == readable /\ (next = "auth" => \E n \in PolicyFiles : rules[n] # <<>>)
<1>2. CASE Refuse(name)
  BY <1>1, <1>2, RefusedInv
<1>3. CASE /\ pc = name /\ valid
           /\ Continue(name, next)
           /\ app' = [app EXCEPT !.rules = rules]
           /\ UNCHANGED args
  <2>1. FilesInv' /\ SessionInv' /\ held' = held /\ pod' = pod
    BY <1>1, <1>3, AdvanceKeeps
  <2>2. args = pod.args /\ pc' = next /\ pc = name /\ files \in held
    BY <1>3 DEF ProcessInv, ArgsInv, FilesInv, Continue
  <2>3. ArgsInv'
    BY <1>3, <2>1, <2>2 DEF ArgsInv
  <2>4. /\ AppInv' /\ app'.credentials = app.credentials /\ app'.endpoints = app.endpoints
        /\ app'.budget = app.budget /\ app'.rules = rules
    <3> HIDE DEF rules, valid
    <3>1. QED
      BY <1>3 DEF ProcessInv, AppInv, NoApp
  <2>5. pc \in PastClient /\ pc \in PastSelector /\ pc \in PolicyFiles
    BY <1>1, <2>2
  <2>6. CredentialsInv'
    BY <2>1, <2>4, <2>5, CredentialsKept DEF ProcessInv
  <2>7. ClientInv'
    BY <2>1, <2>4, <2>5, ClientKept DEF ProcessInv
  <2>8. RulesInv'
    <3>1. /\ OneSelectorMode(pod.args) /\ ValidInline(pod.args) /\ ~pod.args.allow_all_selectors
          /\ DOMAIN app.rules = PolicyFiles
          /\ \A n \in PolicyFiles : \E f \in held : Listed(n, app.rules[n], f, pc \in PastPolicy(n))
      BY <2>5 DEF ProcessInv, RulesInv
    <3>2. DOMAIN app'.rules = PolicyFiles /\ app'.rules[name] = app.rules[name] \o entries
      BY <1>1, <2>4, <3>1
    <3>3. \A n \in PolicyFiles : n # name => app'.rules[n] = app.rules[n]
      BY <2>4, <3>1
    <3> HIDE DEF entries, rules
    <3>4. pc \notin PastPolicy(name) /\ pc' \in PastPolicy(name)
          /\ \A n \in PolicyFiles : n # name => (pc \in PastPolicy(n) <=> pc' \in PastPolicy(n))
      BY <1>1, <2>2 DEF PastPolicy, PolicyFiles
    <3>5. app.rules[name] = Normalized(pod.args[name].inline)
      BY <1>1, <3>1, <3>4 DEF Listed
    <3>6. (\E f \in held : Listed(name, app.rules[name], f, pc \in PastPolicy(name)))'
      <4>1. pod.args[name].file => files[name] # None
        BY <1>3, <2>2
      <4>2. entries = IF pod.args[name].file THEN PolicyEntries(files[name]) ELSE <<>>
        BY <2>2 DEF entries
      <4>3. app'.rules[name] = Normalized(pod'.args[name].inline) \o
                (IF pod'.args[name].file THEN PolicyEntries(files[name]) ELSE <<>>)
        BY <2>1, <3>2, <3>5, <4>2
      <4>4. files \in held' /\ (pod'.args[name].file => files[name] # None)
        BY <2>1, <2>2, <4>1
      <4>5. QED
        BY <3>4, <4>3, <4>4 DEF Listed
    <3>7. ASSUME NEW n \in PolicyFiles
          PROVE  (\E f \in held : Listed(n, app.rules[n], f, pc \in PastPolicy(n)))'
      <4>1. CASE n = name
        BY <3>6, <4>1
      <4>2. CASE n # name
        <5>1. PICK f \in held : Listed(n, app.rules[n], f, pc \in PastPolicy(n))
          BY <3>1
        <5>2. app'.rules[n] = app.rules[n] /\ (pc \in PastPolicy(n) <=> pc' \in PastPolicy(n))
          BY <3>3, <3>4, <4>2
        <5>3. Listed(n, app'.rules[n], f, pc' \in PastPolicy(n))
          BY <5>1, <5>2 DEF Listed
        <5>4. f \in held' /\ (Listed(n, app.rules[n], f, pc \in PastPolicy(n)))'
          BY <2>1, <5>1, <5>3 DEF Listed
        <5>5. QED
          BY <5>4
      <4>3. QED
        BY <4>1, <4>2
    <3>8. pc' \in PastPolicies => \E n \in PolicyFiles : app'.rules[n] # <<>>
      <4>1. pc' \in PastPolicies => next = "auth"
        BY <2>2
      <4>2. QED
        BY <1>3, <2>4, <4>1
    <3> HIDE DEF valid
    <3>9. QED
      BY <2>1, <3>1, <3>2, <3>7, <3>8 DEF RulesInv
  <2>9. AuthInv'
    BY <2>2 DEF AuthInv
  <2>10. QED
    BY <2>1, <2>3, <2>4, <2>6, <2>7, <2>8, <2>9 DEF ProcessInv
<1>4. QED
  BY <1>2, <1>3 DEF ReadPolicy

(* The mode of authentication *)
LEMMA ConfigureAuthInv ==
  ASSUME ProcessInv, ConfigureAuth
  PROVE  ProcessInv'
<1> USE DEF PastOptions, PastCertificates, PastClient, PastSelector, PastPolicies, PastAuth
<1> DEFINE auth == WebhookAuth(args, files)
<1>1. CASE Refuse("auth")
  BY <1>1, RefusedInv
<1>2. CASE /\ pc = "auth" /\ auth.ok
           /\ Continue("auth", "spawn")
           /\ app' = [app EXCEPT !.auth = auth.value]
           /\ UNCHANGED args
  <2>1. FilesInv' /\ SessionInv' /\ held' = held /\ pod' = pod
    BY <1>2, AdvanceKeeps
  <2>2. args = pod.args /\ pc' = "spawn" /\ files \in held
    BY <1>2 DEF ProcessInv, ArgsInv, FilesInv, Continue
  <2>3. ArgsInv'
    BY <1>2, <2>1, <2>2 DEF ArgsInv
  <2>4. /\ AppInv' /\ app'.credentials = app.credentials /\ app'.endpoints = app.endpoints
        /\ app'.budget = app.budget /\ app'.rules = app.rules
    <3> HIDE DEF auth
    <3>1. QED
      BY <1>2 DEF ProcessInv, AppInv, NoApp
  <2>5. CredentialsInv'
    BY <1>2, <2>1, <2>4, CredentialsKept DEF ProcessInv
  <2>6. ClientInv'
    BY <1>2, <2>1, <2>4, ClientKept DEF ProcessInv
  <2>7. RulesInv'
    BY <1>2, <2>1, <2>2, <2>4, RulesKept DEF ProcessInv
  <2>8. AuthInv'
    BY <1>2, <2>1, <2>2 DEF AuthInv
  <2>9. QED
    BY <2>1, <2>3, <2>4, <2>5, <2>6, <2>7, <2>8 DEF ProcessInv
<1>3. QED
  BY <1>1, <1>2 DEF ConfigureAuth

(* The rest of main: the secrets are wiped, the results kept. *)
LEMMA FinalSteps ==
  ASSUME ProcessInv, Spawn \/ Bind
  PROVE  ProcessInv'
<1> USE DEF PastOptions, PastCertificates, PastClient, PastSelector, PastPolicies, PastAuth
<1>1. /\ FilesInv' /\ SessionInv' /\ held' = held /\ pod' = pod
      /\ pc \in PastAuth /\ pc' \in PastAuth
  BY AdvanceKeeps DEF Spawn, Bind, Continue
<1>2. ArgsInv'
  <2>1. CASE Spawn
    <3>1. args = pod.args /\ pc' = "bind"
      BY <2>1 DEF Spawn, Continue, ProcessInv, ArgsInv
    <3>2. args' = ZeroizeSensitive(pod'.args)
      BY <1>1, <2>1, <3>1 DEF Spawn
    <3>3. QED
      BY <3>1, <3>2 DEF ArgsInv
  <2>2. CASE Bind
    BY <1>1, <2>2 DEF Bind, Continue, ProcessInv, ArgsInv
  <2>3. QED
    BY <2>1, <2>2
<1>3. /\ AppInv' /\ app'.credentials = app.credentials /\ app'.endpoints = app.endpoints
      /\ app'.budget = app.budget /\ app'.rules = app.rules
  <2>1. CASE Spawn
    <3>1. PICK permits, baselines, tasks :
             app' = [app EXCEPT !.permits = permits, !.baselines = baselines, !.tasks = tasks]
      BY <2>1 DEF Spawn
    <3>2. QED
      BY <3>1 DEF ProcessInv, AppInv, NoApp
  <2>2. CASE Bind
    BY <2>2 DEF Bind, ProcessInv, AppInv, NoApp
  <2>3. QED
    BY <2>1, <2>2
<1>4. CredentialsInv'
  BY <1>1, <1>3, CredentialsKept DEF ProcessInv
<1>5. ClientInv'
  BY <1>1, <1>3, ClientKept DEF ProcessInv
<1>6. RulesInv'
  BY <1>1, <1>3, RulesKept DEF ProcessInv
<1>7. AuthInv'
  BY <1>1 DEF ProcessInv, AuthInv
<1>8. QED
  BY <1>1, <1>2, <1>3, <1>4, <1>5, <1>6, <1>7 DEF ProcessInv

(* The first unlock *)
LEMMA FirstUnlockInv ==
  ASSUME ProcessInv, FirstUnlock
  PROVE  ProcessInv'
<1> USE DEF PastOptions, PastCertificates, PastClient, PastSelector, PastPolicies, PastAuth
<1>1. pc = "serving" /\ UNCHANGED <<pod, files, pc, args, app, held>>
  BY DEF FirstUnlock
<1>2. FilesInv' /\ ArgsInv' /\ AppInv'
  BY <1>1 DEF ProcessInv, FilesInv, ArgsInv, AppInv, NoApp
<1>3. CredentialsInv'
  BY <1>1, CredentialsKept DEF ProcessInv
<1>4. ClientInv'
  BY <1>1, ClientKept DEF ProcessInv
<1>5. RulesInv'
  BY <1>1, RulesKept DEF ProcessInv
<1>6. AuthInv'
  BY <1>1 DEF ProcessInv, AuthInv
<1>7. SessionInv'
  <2> DEFINE login == EndpointUrl(app.endpoints.identity, <<"connect", "token">>)
             sync == [EndpointUrl(app.endpoints.api, <<"sync">>) EXCEPT
                         !.query = "excludeDomains=true"]
             unlock == UnlockSession(pod.unlock, app.credentials.master_password, app.budget)
  <2>1. session' = [login |-> login, sync |-> sync, unlock |-> unlock]
    BY DEF FirstUnlock
  <2>2. session'.login = login /\ session'.sync = sync /\ session'.unlock = unlock
    <3> HIDE DEF login, sync, unlock
    <3>1. QED
      BY <2>1
  <2>3. QED
    BY <1>1, <2>2 DEF SessionInv
<1>8. QED
  BY <1>2, <1>3, <1>4, <1>5, <1>6, <1>7 DEF ProcessInv

(* The files are replaced, or nothing happens. *)
LEMMA EnvironmentInv ==
  ASSUME ProcessInv, Swap \/ UNCHANGED vars
  PROVE  ProcessInv'
<1>1. /\ UNCHANGED <<pod, pc, args, app, session>>
      /\ held \subseteq held' /\ files' \in held'
      /\ \A f \in held' : f \in held \/ f \in FileStates
  <2>1. CASE Swap
    BY <2>1 DEF Swap
  <2>2. CASE UNCHANGED vars
    BY <2>2 DEF vars, ProcessInv, FilesInv
  <2>3. QED
    BY <2>1, <2>2
<1>2. FilesInv'
  BY <1>1, CasesAssumption DEF ProcessInv, FilesInv
<1>3. ArgsInv' /\ AppInv'
  BY <1>1 DEF ProcessInv, ArgsInv, AppInv, NoApp
<1>4. CredentialsInv'
  BY <1>1 DEF ProcessInv, CredentialsInv
<1>5. ClientInv'
  BY <1>1 DEF ProcessInv, ClientInv
<1>6. RulesInv'
  <2>1. ASSUME NEW n \in PolicyFiles, pc \in PastSelector, ~pod.args.allow_all_selectors
        PROVE  (\E f \in held : Listed(n, app.rules[n], f, pc \in PastPolicy(n)))'
    <3>1. PICK f \in held : Listed(n, app.rules[n], f, pc \in PastPolicy(n))
      BY <2>1 DEF ProcessInv, RulesInv
    <3>2. f \in held' /\ Listed(n, app.rules[n], f, pc \in PastPolicy(n))'
      BY <1>1, <3>1 DEF Listed
    <3>3. QED
      BY <3>2
  <2>2. QED
    BY <1>1, <2>1 DEF ProcessInv, RulesInv
<1>7. AuthInv'
  BY <1>1 DEF ProcessInv, AuthInv
<1>8. SessionInv'
  BY <1>1 DEF ProcessInv, SessionInv
<1>9. QED
  BY <1>2, <1>3, <1>4, <1>5, <1>6, <1>7, <1>8 DEF ProcessInv

(* Every step keeps the inductive invariant. *)
LEMMA ProcessStep == ProcessInv /\ [Next]_vars => ProcessInv'
<1> SUFFICES ASSUME ProcessInv, [Next]_vars PROVE ProcessInv'
  OBVIOUS
<1>1. CASE Start \/ Healthcheck \/ Crash \/ Restart
  BY <1>1, EarlySteps
<1>2. CASE ReadCredentials
  BY <1>2, ReadCredentialsInv
<1>3. CASE CheckOptions
  BY <1>3, CheckOptionsInv
<1>4. CASE LoadCertificates
  BY <1>4, LoadCertificatesInv
<1>5. CASE BuildClient
  BY <1>5, BuildClientInv
<1>6. CASE SelectorPolicy
  BY <1>6, SelectorPolicyInv
<1>7. CASE ReadPolicies
  BY <1>7, ReadPoliciesInv
<1>8. CASE ConfigureAuth
  BY <1>8, ConfigureAuthInv
<1>9. CASE Spawn \/ Bind
  BY <1>9, FinalSteps
<1>10. CASE FirstUnlock
  BY <1>10, FirstUnlockInv
<1>11. CASE Swap \/ UNCHANGED vars
  BY <1>11, EnvironmentInv
<1>12. QED
  BY <1>1, <1>2, <1>3, <1>4, <1>5, <1>6, <1>7, <1>8, <1>9, <1>10, <1>11 DEF Next, Step, Idle

(* The inductive invariant holds in every state of every run. *)
LEMMA ProcessInvariant == Spec => []ProcessInv
BY ProcessInit, ProcessStep, PTL DEF Spec

-----------------------------------------------------------------------------
(* What a process that serves has *)

(* No key is derived with more memory than the operator allows or with     *)
(* parameters out of bounds: UnlockSession tests the budget with_options   *)
(* has accepted, and the limits, before it derives.                        *)
THEOREM DerivationBoundedHolds == Spec => []DerivationBounded
<1>1. ASSUME ProcessInv PROVE DerivationBounded
  <2> SUFFICES ASSUME session # None, session.unlock.ran # None
               PROVE  Supported(session.unlock.ran, pod.args.argon2_memory_limit_mib)
    BY DEF DerivationBounded
  <2> DEFINE limit == pod.args.argon2_memory_limit_mib
  <2>1. /\ pc = "serving"
        /\ session.unlock = UnlockSession(pod.unlock, app.credentials.master_password, app.budget)
    BY <1>1 DEF ProcessInv, SessionInv
  <2>2. app.budget = limit
    BY <1>1, <2>1 DEF ProcessInv, ClientInv, PastClient, PastSelector, PastPolicies, PastAuth
  <2>3. limit \in Nat
    BY <1>1 DEF ProcessInv, FilesInv, WellFormedArgs
  <2> HIDE DEF limit
  <2>4. QED
    BY <2>1, <2>2, <2>3, DerivedSupported DEF limit
<1>2. QED
  BY <1>1, ProcessInvariant, PTL

(* Arguments and files are what the lemmas about secrets ask for. *)
LEMMA ProperSecrets ==
  ASSUME NEW a, WellFormedArgs(a), NEW f, WellFormedFiles(f),
         NEW n \in Credentials \cup {"webhook_auth_token"}
  PROVE  ProperArg(a[n]) /\ ProperText(f[n])
<1>1. ProperArg(a[n])
  BY DEF WellFormedArgs, ProperArg
<1>2. ProperText(f[n])
  BY DEF WellFormedFiles, ProperText
<1>3. QED
  BY <1>1, <1>2

(* The credentials were mounted since the start, without the newlines at   *)
(* the end of a file, and the arguments keep none: read_sensitive_arg and  *)
(* zeroize_sensitive, whatever the kubelet replaces in between.            *)
THEOREM CredentialsCurrentHolds == Spec => []CredentialsCurrent
<1>1. ASSUME ProcessInv PROVE CredentialsCurrent
  <2> SUFFICES ASSUME pc = "serving"
               PROVE  /\ \A n \in Credentials : \E f \in held :
                            IsSecret(app.credentials[n], pod.args[n], f[n])
                      /\ \A n \in Credentials \cup {"webhook_auth_token"} : args[n].inline = None
    BY DEF CredentialsCurrent
  <2>1. ASSUME NEW n \in Credentials
        PROVE  \E f \in held : IsSecret(app.credentials[n], pod.args[n], f[n])
    <3>1. pc \in PastCredential(n)
      BY DEF PastCredential, Credentials, PastOptions, PastCertificates, PastClient, PastSelector,
             PastPolicies, PastAuth
    <3>2. PICK f \in held :
             /\ SensitiveArg(pod.args[n], f[n]).ok
             /\ app.credentials[n] = SensitiveArg(pod.args[n], f[n]).value
      BY <1>1, <3>1 DEF ProcessInv, CredentialsInv
    <3>3. WellFormedArgs(pod.args) /\ WellFormedFiles(f)
      BY <1>1 DEF ProcessInv, FilesInv
    <3>4. ProperArg(pod.args[n]) /\ ProperText(f[n])
      BY <3>3, ProperSecrets
    <3>5. IsSecret(SensitiveArg(pod.args[n], f[n]).value, pod.args[n], f[n])
      BY <3>2, <3>4, RequiredSecret
    <3>6. QED
      BY <3>2, <3>5
  <2>2. ASSUME NEW n \in Credentials \cup {"webhook_auth_token"} PROVE args[n].inline = None
    <3>1. args = ZeroizeSensitive(pod.args)
      BY <1>1 DEF ProcessInv, ArgsInv
    <3>2. n \in DOMAIN pod.args /\ "inline" \in DOMAIN pod.args[n]
      BY <1>1 DEF ProcessInv, FilesInv, WellFormedArgs
    <3>3. args[n] = [pod.args[n] EXCEPT !.inline = None]
      BY <3>1, <3>2 DEF ZeroizeSensitive
    <3>4. QED
      BY <3>2, <3>3
  <2>3. QED
    BY <2>1, <2>2
<1>2. QED
  BY <1>1, ProcessInvariant, PTL

(* Every request goes right below the configured base: the slashes that    *)
(* append_path_segments and pop_if_empty cut off add up to all of them.    *)
THEOREM RequestsReachApiHolds == Spec => []RequestsReachApi
<1>1. ASSUME ProcessInv PROVE RequestsReachApi
  <2> DEFINE a == pod.args
             e == Endpoints(a).value
  <2> SUFFICES ASSUME session # None
               PROVE  /\ session.login.path = Root(a, a.identity_url, "identity") \o <<"connect", "token">>
                      /\ session.login.query = None
                      /\ session.sync.path = Root(a, a.api_url, "api") \o <<"sync">>
                      /\ session.sync.query = "excludeDomains=true"
    BY DEF RequestsReachApi, Root
  <2>1. /\ pc = "serving"
        /\ session.login = EndpointUrl(app.endpoints.identity, <<"connect", "token">>)
        /\ session.sync = [EndpointUrl(app.endpoints.api, <<"sync">>) EXCEPT
                              !.query = "excludeDomains=true"]
    BY <1>1 DEF ProcessInv, SessionInv
  <2>2. ValidOptions(a) /\ app.endpoints = e
    BY <1>1, <2>1 DEF ProcessInv, ClientInv, PastOptions, PastCertificates, PastClient,
                      PastSelector, PastPolicies, PastAuth
  <2>3. Endpoints(a).ok
    BY <2>2 DEF ValidOptions
  <2>4. \A url \in {a.single_origin_url, a.identity_url, a.api_url} : WellFormedUrl(url)
    BY <1>1 DEF ProcessInv, FilesInv, WellFormedArgs
  <2> HIDE DEF a
  <2>5. /\ e.identity.path = Root(a, a.identity_url, "identity") /\ Ends(e.identity.path)
        /\ e.api.path = Root(a, a.api_url, "api") /\ Ends(e.api.path)
        /\ "path" \in DOMAIN e.identity /\ "query" \in DOMAIN e.identity
        /\ "path" \in DOMAIN e.api /\ "query" \in DOMAIN e.api
    BY <2>3, <2>4, EndpointPaths
  <2> HIDE DEF e
  <2> DEFINE i == e.identity
             p == e.api
             login == EndpointUrl(i, <<"connect", "token">>)
             sync == EndpointUrl(p, <<"sync">>)
  <2>6. login.path = i.path \o <<"connect", "token">> /\ login.query = None
    <3> HIDE DEF i
    <3>1. Ends(i.path) /\ "path" \in DOMAIN i /\ "query" \in DOMAIN i
      BY <2>5 DEF i
    <3>2. QED
      BY <3>1, RequestPath
  <2>7. sync.path = p.path \o <<"sync">> /\ "path" \in DOMAIN sync /\ "query" \in DOMAIN sync
    <3> HIDE DEF p
    <3>1. Ends(p.path) /\ "path" \in DOMAIN p /\ "query" \in DOMAIN p
      BY <2>5 DEF p
    <3>2. QED
      BY <3>1, RequestPath
  <2>8. session.login = login /\ session.sync = [sync EXCEPT !.query = "excludeDomains=true"]
    BY <2>1, <2>2
  <2> HIDE DEF login, sync
  <2>9. /\ session.sync.path = sync.path
        /\ session.sync.query = "excludeDomains=true"
    BY <2>7, <2>8
  <2>10. QED
    BY <2>5, <2>6, <2>7, <2>8, <2>9
<1>2. QED
  BY <1>1, ProcessInvariant, PTL

(* The inline entries of an allow-list, trimmed. *)
LEMMA NormalizedShape ==
  ASSUME NEW entries, IsSequence(entries)
  PROVE  /\ IsSequence(Normalized(entries))
         /\ Range(Normalized(entries)) = {Trim(text) : text \in Range(entries)}
         /\ Normalized(entries) = <<>> <=> entries = <<>>
<1> DEFINE s == Normalized(entries)
           S == {Trim(text) : text \in Range(entries)}
<1>1. Len(entries) \in Nat /\ DOMAIN entries = 1..Len(entries) /\ (entries = <<>> <=> Len(entries) = 0)
  BY SequenceShape
<1>2. DOMAIN s = 1..Len(entries) /\ \A i \in 1..Len(entries) : s[i] = Trim(entries[i])
  BY <1>1 DEF Normalized
<1>3. Range(s) = S
  BY <1>1, <1>2 DEF Range
<1>4. s \in Seq(S)
  <2>1. s \in [1..Len(entries) -> S]
    <3>1. s = [i \in 1..Len(entries) |-> Trim(entries[i])]
      BY <1>1 DEF Normalized
    <3>2. \A i \in 1..Len(entries) : Trim(entries[i]) \in S
      BY <1>1 DEF Range
    <3>3. QED
      BY <3>1, <3>2
  <2>2. QED
    BY <1>1, <2>1
<1> HIDE DEF s, S
<1>5. IsSequence(s)
  BY <1>4, SequenceOver
<1>6. Len(s) = Len(entries) /\ (s = <<>> <=> Len(s) = 0)
  BY <1>1, <1>2, <1>5, SequenceShape
<1>7. QED
  BY <1>1, <1>3, <1>5, <1>6 DEF s, S

(* The policy files are proper, too. *)
LEMMA ProperPolicies ==
  ASSUME NEW a, WellFormedArgs(a), NEW f, WellFormedFiles(f), NEW n \in PolicyFiles
  PROVE  IsSequence(a[n].inline) /\ ProperLines(f[n]) /\ a[n].file \in BOOLEAN
BY DEF WellFormedArgs, WellFormedFiles, ProperLines

(* An allow-list whose file is read has what is written, and is empty only *)
(* if nothing is.                                                          *)
LEMMA ListedIs ==
  ASSUME FilesInv, NEW n \in PolicyFiles, NEW f \in held, NEW rules, Listed(n, rules, f, TRUE)
  PROVE  LET a == pod.args[n] IN
         /\ Range(rules) = {Trim(text) : text \in Range(a.inline)}
                              \cup (IF a.file THEN Written(f[n]) ELSE {})
         /\ a.file => f[n] # None
         /\ rules = <<>> <=> a.inline = <<>> /\ (a.file => Written(f[n]) = {})
<1> DEFINE a == pod.args[n]
           s == Normalized(a.inline)
           t == IF a.file THEN PolicyEntries(f[n]) ELSE <<>>
<1>1. IsSequence(a.inline) /\ ProperLines(f[n]) /\ a.file \in BOOLEAN
  BY ProperPolicies DEF FilesInv
<1>2. (a.file => f[n] # None) /\ rules = s \o t
  BY DEF Listed
<1>3. /\ IsSequence(s) /\ Range(s) = {Trim(text) : text \in Range(a.inline)}
      /\ s = <<>> <=> a.inline = <<>>
  <2>1. IsSequence(a.inline)
    BY <1>1
  <2> HIDE DEF a
  <2>2. QED
    BY <2>1, NormalizedShape
<1>4. /\ IsSequence(t) /\ Range(t) = IF a.file THEN Written(f[n]) ELSE {}
      /\ t = <<>> <=> (a.file => Written(f[n]) = {})
  <2>1. CASE a.file
    BY <1>1, <1>2, <2>1, PolicyEntriesAre
  <2>2. CASE ~a.file
    <3>1. t = <<>>
      BY <2>2
    <3>2. IsSequence(<<>>) /\ Range(<<>>) = {}
      BY DEF IsSequence, Range
    <3>3. QED
      BY <2>2, <3>1, <3>2
  <2>3. QED
    BY <2>1, <2>2
<1> HIDE DEF s, t, a
<1>5. Range(s \o t) = Range(s) \cup Range(t) /\ (s \o t = <<>> <=> s = <<>> /\ t = <<>>)
  BY <1>3, <1>4, ConcatShape
<1>6. QED
  BY <1>2, <1>3, <1>4, <1>5 DEF a

(* The allow-list grants what is written and nothing else: what            *)
(* read_policy_file and normalize_policy_entries leave has no comment and  *)
(* no empty entry.                                                         *)
THEOREM GrantsOnlyWhatIsWrittenHolds == Spec => []GrantsOnlyWhatIsWritten
<1>1. ASSUME ProcessInv PROVE GrantsOnlyWhatIsWritten
  <2> SUFFICES ASSUME pc = "serving", ~pod.args.allow_all_selectors,
                      NEW n \in PolicyFiles, NEW entry \in Range(app.rules[n])
               PROVE  /\ entry # <<>>
                      /\ \/ \E text \in Range(pod.args[n].inline) : entry = Trim(text)
                         \/ pod.args[n].file /\ \E f \in held : f[n] # None /\ entry \in Written(f[n])
    BY DEF GrantsOnlyWhatIsWritten
  <2> USE DEF PastSelector, PastPolicies, PastAuth
  <2>1. ValidInline(pod.args) /\ \E f \in held : Listed(n, app.rules[n], f, pc \in PastPolicy(n))
    BY <1>1 DEF ProcessInv, RulesInv
  <2>2. PICK f \in held : Listed(n, app.rules[n], f, TRUE)
    BY <2>1 DEF PastPolicy, Listed
  <2>3. /\ Range(app.rules[n]) = {Trim(text) : text \in Range(pod.args[n].inline)}
                                    \cup (IF pod.args[n].file THEN Written(f[n]) ELSE {})
        /\ pod.args[n].file => f[n] # None
    BY <1>1, <2>2, ListedIs DEF ProcessInv
  <2>4. CASE \E text \in Range(pod.args[n].inline) : entry = Trim(text)
    <3>1. PICK i \in DOMAIN pod.args[n].inline : entry = Trim(pod.args[n].inline[i])
      BY <2>4 DEF Range
    <3>2. entry # <<>>
      BY <2>1, <3>1 DEF ValidInline, RequireNonEmpty
    <3>3. QED
      BY <2>4, <3>2
  <2>5. CASE pod.args[n].file /\ entry \in Written(f[n])
    <3>1. entry # <<>>
      BY <2>5 DEF Written
    <3>2. QED
      BY <2>3, <2>5, <3>1
  <2>6. QED
    BY <2>3, <2>4, <2>5
<1>2. QED
  BY <1>1, ProcessInvariant, PTL

-----------------------------------------------------------------------------
(* What is acceptable, stage by stage *)

(* One of two *)
LEMMA ExactlyOneOfTwo ==
  ASSUME NEW p \in BOOLEAN, NEW q \in BOOLEAN
  PROVE  Exactly(1, <<p, q>>) <=> (p # q)
<1> DEFINE D == {m \in DOMAIN <<p, q>> : <<p, q>>[m]}
<1>1. DOMAIN <<p, q>> = {1, 2} /\ <<p, q>>[1] = p /\ <<p, q>>[2] = q
  OBVIOUS
<1>2. D \subseteq {1, 2} /\ (1 \in D <=> p) /\ (2 \in D <=> q)
  BY <1>1
<1>3. Exactly(1, <<p, q>>) <=> Cardinality(D) = 1
  BY DEF Exactly
<1> HIDE DEF D
<1>4. IsFiniteSet(D)
  <2>1. IsFiniteSet({1, 2})
    <3>1. IsFiniteSet({1}) /\ {1, 2} = {1} \cup {2}
      BY FS_Singleton
    <3>2. QED
      BY <3>1, FS_AddElement
  <2>2. QED
    BY <1>2, <2>1, FS_Subset
<1>5. Cardinality(D) = 1 <=> \E x : D = {x}
  BY <1>4, FS_Singleton
<1>6. (\E x : D = {x}) <=> (p # q)
  <2>1. CASE p /\ q
    BY <1>2, <2>1
  <2>2. CASE p /\ ~q
    <3>1. D = {1}
      BY <1>2, <2>2
    <3>2. QED
      BY <2>2, <3>1
  <2>3. CASE ~p /\ q
    <3>1. D = {2}
      BY <1>2, <2>3
    <3>2. QED
      BY <2>3, <3>1
  <2>4. CASE ~p /\ ~q
    <3>1. D = {}
      BY <1>2, <2>4
    <3>2. QED
      BY <2>4, <3>1
  <2>5. QED
    BY <2>1, <2>2, <2>3, <2>4
<1>7. QED
  BY <1>3, <1>5, <1>6

(* One of three *)
LEMMA ExactlyOneOfThree ==
  ASSUME NEW p \in BOOLEAN, NEW q \in BOOLEAN, NEW r \in BOOLEAN
  PROVE  Exactly(1, <<p, q, r>>) <=>
            (p /\ ~q /\ ~r) \/ (~p /\ q /\ ~r) \/ (~p /\ ~q /\ r)
<1> DEFINE D == {m \in DOMAIN <<p, q, r>> : <<p, q, r>>[m]}
<1>1. /\ DOMAIN <<p, q, r>> = {1, 2, 3}
      /\ <<p, q, r>>[1] = p /\ <<p, q, r>>[2] = q /\ <<p, q, r>>[3] = r
  OBVIOUS
<1>2. D \subseteq {1, 2, 3} /\ (1 \in D <=> p) /\ (2 \in D <=> q) /\ (3 \in D <=> r)
  BY <1>1
<1>3. Exactly(1, <<p, q, r>>) <=> Cardinality(D) = 1
  BY DEF Exactly
<1> HIDE DEF D
<1>4. IsFiniteSet(D)
  <2>1. IsFiniteSet({1, 2, 3})
    <3>1. IsFiniteSet({1}) /\ {1, 2} = {1} \cup {2} /\ {1, 2, 3} = {1, 2} \cup {3}
      BY FS_Singleton
    <3>2. IsFiniteSet({1, 2})
      BY <3>1, FS_AddElement
    <3>3. QED
      BY <3>1, <3>2, FS_AddElement
  <2>2. QED
    BY <1>2, <2>1, FS_Subset
<1>5. Cardinality(D) = 1 <=> \E x : D = {x}
  BY <1>4, FS_Singleton
<1>6. ASSUME p /\ ~q /\ ~r PROVE D = {1}
  BY <1>2, <1>6
<1>7. ASSUME ~p /\ q /\ ~r PROVE D = {2}
  BY <1>2, <1>7
<1>8. ASSUME ~p /\ ~q /\ r PROVE D = {3}
  BY <1>2, <1>8
<1>9. ASSUME NEW x, D = {x} PROVE (p /\ ~q /\ ~r) \/ (~p /\ q /\ ~r) \/ (~p /\ ~q /\ r)
  <2>1. x \in {1, 2, 3}
    BY <1>2, <1>9
  <2>2. QED
    BY <1>2, <1>9, <2>1
<1>10. QED
  BY <1>3, <1>5, <1>6, <1>7, <1>8, <1>9

SecretsPart(a, f) == \A n \in Credentials : Texts(a[n], f[n]) # {}

EndpointsPart(a) ==
    /\ Exactly(1, <<a.single_origin_url # None, a.identity_url # None \/ a.api_url # None>>)
    /\ Usable(a.single_origin_url) \/ (Usable(a.identity_url) /\ Usable(a.api_url))

OptionsPart(a) ==
    /\ HasPiece(a.device_identifier) /\ HasPiece(a.device_name)
    /\ a.http_connect_timeout_seconds > 0 /\ a.http_request_timeout_seconds > 0
    /\ EndpointsPart(a)

CertificatesPart(a, f) == a.ca_bundle_file => f.ca_bundle \notin {None, 0}

MemoryPart(a) == 16 <= a.argon2_memory_limit_mib /\ a.argon2_memory_limit_mib <= 1024

SelectorPart(a) ==
    /\ Exactly(1, <<a.allow_all_selectors,
                    \E n \in PolicyFiles : a[n].file \/ a[n].inline # <<>> >>)
    /\ \A n \in PolicyFiles : \A i \in DOMAIN a[n].inline : HasPiece(a[n].inline[i])

PoliciesPart(a, f) ==
    /\ \A n \in PolicyFiles : a[n].file => f[n] # None
    /\ \/ a.allow_all_selectors
       \/ \E n \in PolicyFiles : a[n].inline # <<>> \/ (a[n].file /\ Written(f[n]) # {})

AuthPart(a, f) ==
    /\ Exactly(1, <<a.webhook_auth_token.inline # None \/ a.webhook_auth_token.file,
                    a.auth_policy_file, a.insecure_allow_unauthenticated>>)
    /\ \/ a.webhook_auth_token.inline = None /\ ~a.webhook_auth_token.file
       \/ Texts(a.webhook_auth_token, f.webhook_auth_token) # {}
    /\ a.auth_policy_file => f.auth_policy # None

(* The limit that with_options accepts. *)
LEMMA MemoryAcceptable ==
  ASSUME NEW a, a.argon2_memory_limit_mib \in Nat
  PROVE  ValidMemoryLimit(a.argon2_memory_limit_mib) <=> MemoryPart(a)
<1> DEFINE m == a.argon2_memory_limit_mib
<1>1. m \in Nat
  OBVIOUS
<1> HIDE DEF m
<1>2. m \in 16..1024 <=> 16 <= m /\ m <= 1024
  BY <1>1
<1>3. QED
  BY <1>2 DEF ValidMemoryLimit, MemoryPart, m

(* The parts are all there is. *)
LEMMA AcceptableParts ==
  ASSUME NEW a, NEW f
  PROVE  Acceptable(a, f) <=>
            /\ SecretsPart(a, f) /\ OptionsPart(a) /\ CertificatesPart(a, f) /\ MemoryPart(a)
            /\ SelectorPart(a) /\ PoliciesPart(a, f) /\ AuthPart(a, f)
BY ZenonT(60) DEF Acceptable, SecretsPart, OptionsPart, EndpointsPart, CertificatesPart,
                  MemoryPart, SelectorPart, PoliciesPart, AuthPart, HasPiece

(* A URL that is accepted is usable, and a usable one is accepted but for  *)
(* the loopback address of IPv6.                                           *)
LEMMA ValidAndUsable ==
  ASSUME NEW url, url # None
  PROVE  /\ ValidEndpoint(url) => Usable(url)
         /\ Usable(url) /\ ~(url.scheme = "http" /\ url.host = "::1") => ValidEndpoint(url)
<1>1. HostStr(url) \in {"localhost", "127.0.0.1", "::1"} <=> url.host \in {"localhost", "127.0.0.1"}
  BY DEF HostStr
<1>2. QED
  BY <1>1 DEF ValidEndpoint, Usable

(* The endpoints *)
LEMMA EndpointsAcceptable ==
  ASSUME NEW a
  PROVE  /\ Endpoints(a).ok \in BOOLEAN
         /\ Endpoints(a).ok => EndpointsPart(a)
         /\ EndpointsPart(a) /\ ~Ipv6Loopback(a) => Endpoints(a).ok
<1> DEFINE single == a.single_origin_url # None
           double == a.identity_url # None \/ a.api_url # None
<1>1. Exactly(1, <<single, double>>) <=> (single # double)
  <2>1. single \in BOOLEAN /\ double \in BOOLEAN
    OBVIOUS
  <2> HIDE DEF single, double
  <2>2. QED
    BY <2>1, ExactlyOneOfTwo
<1>2. EndpointsPart(a) <=>
         /\ single # double
         /\ Usable(a.single_origin_url) \/ (Usable(a.identity_url) /\ Usable(a.api_url))
  BY <1>1 DEF EndpointsPart
<1>3. \A url \in {a.single_origin_url, a.identity_url, a.api_url} : url # None =>
         /\ ValidEndpoint(url) => Usable(url)
         /\ Usable(url) /\ ~Ipv6Loopback(a) => ValidEndpoint(url)
  BY ValidAndUsable DEF Ipv6Loopback
<1>4. \A url : Usable(url) => url # None
  BY DEF Usable
<1>5. CASE a.single_origin_url # None /\ a.identity_url = None /\ a.api_url = None
  <2>1. Endpoints(a).ok <=> ValidEndpoint(a.single_origin_url)
    BY <1>5 DEF Endpoints, Ok, Err
  <2>2. Endpoints(a).ok \in BOOLEAN
    BY <1>5 DEF Endpoints, Ok, Err
  <2>3. QED
    BY <1>2, <1>3, <1>4, <1>5, <2>1, <2>2
<1>6. CASE a.single_origin_url = None /\ a.identity_url # None /\ a.api_url # None
  <2>1. Endpoints(a).ok <=> ValidEndpoint(a.identity_url) /\ ValidEndpoint(a.api_url)
    BY <1>6 DEF Endpoints, Ok, Err
  <2>2. Endpoints(a).ok \in BOOLEAN
    BY <1>6 DEF Endpoints, Ok, Err
  <2>3. QED
    BY <1>2, <1>3, <1>4, <1>6, <2>1, <2>2
<1>7. CASE /\ ~(a.single_origin_url # None /\ a.identity_url = None /\ a.api_url = None)
           /\ ~(a.single_origin_url = None /\ a.identity_url # None /\ a.api_url # None)
  <2>1. Endpoints(a) = Err("endpoint_mode")
    BY <1>7 DEF Endpoints
  <2>2. Endpoints(a).ok = FALSE
    BY <2>1 DEF Err
  <2>3. ~EndpointsPart(a)
    BY <1>2, <1>4, <1>7
  <2>4. QED
    BY <2>2, <2>3
<1>8. QED
  BY <1>5, <1>6, <1>7

(* Device, timeouts and endpoints *)
LEMMA OptionsAcceptable ==
  ASSUME NEW a, WellFormedArgs(a)
  PROVE  /\ ValidOptions(a) => OptionsPart(a)
         /\ OptionsPart(a) /\ ~Ipv6Loopback(a) => ValidOptions(a)
<1>1. IsSequence(a.device_identifier) /\ IsSequence(a.device_name)
  BY DEF WellFormedArgs
<1>2. /\ RequireNonEmpty(a.device_identifier) <=> HasPiece(a.device_identifier)
      /\ RequireNonEmpty(a.device_name) <=> HasPiece(a.device_name)
  BY <1>1, NonEmptyIffPiece DEF HasPiece
<1>3. a.http_connect_timeout_seconds \in Nat /\ a.http_request_timeout_seconds \in Nat
  BY DEF WellFormedArgs
<1>4. /\ a.http_connect_timeout_seconds # 0 <=> a.http_connect_timeout_seconds > 0
      /\ a.http_request_timeout_seconds # 0 <=> a.http_request_timeout_seconds > 0
  BY <1>3
<1>5. /\ Endpoints(a).ok => EndpointsPart(a)
      /\ EndpointsPart(a) /\ ~Ipv6Loopback(a) => Endpoints(a).ok
  BY EndpointsAcceptable
<1>6. QED
  BY <1>2, <1>4, <1>5 DEF ValidOptions, OptionsPart

(* Allow-lists or allow-all *)
LEMMA SelectorAcceptable ==
  ASSUME NEW a, WellFormedArgs(a)
  PROVE  OneSelectorMode(a) /\ ValidInline(a) <=> SelectorPart(a)
<1> DEFINE all == a.allow_all_selectors
           list == \E n \in PolicyFiles : a[n].file \/ a[n].inline # <<>>
<1>1. all \in BOOLEAN /\ list \in BOOLEAN
  BY DEF WellFormedArgs
<1>2. Exactly(1, <<all, list>>) <=> (all # list)
  <2> HIDE DEF all, list
  <2>1. QED
    BY <1>1, ExactlyOneOfTwo
<1>3. list <=> (HasFile(a) \/ \E n \in PolicyFiles : a[n].inline # <<>>)
  BY DEF HasFile
<1>4. OneSelectorMode(a) <=> (all # list)
  <2> DEFINE other == HasFile(a) \/ \E n \in PolicyFiles : a[n].inline # <<>>
  <2>1. OneSelectorMode(a) <=> (all # other)
    BY DEF OneSelectorMode
  <2>2. list = other
    BY <1>1, <1>3
  <2> HIDE DEF all, list, other
  <2>3. QED
    BY <2>1, <2>2
<1>5. ValidInline(a) <=>
         \A n \in PolicyFiles : \A i \in DOMAIN a[n].inline : HasPiece(a[n].inline[i])
  <2>1. ASSUME NEW n \in PolicyFiles, NEW i \in DOMAIN a[n].inline
        PROVE  RequireNonEmpty(a[n].inline[i]) <=> HasPiece(a[n].inline[i])
    <3>1. a[n].inline[i] \in Range(a[n].inline)
      BY DEF Range
    <3>2. IsSequence(a[n].inline[i])
      BY <3>1 DEF WellFormedArgs
    <3>3. QED
      BY <3>2, NonEmptyIffPiece DEF HasPiece
  <2>2. QED
    BY <2>1 DEF ValidInline
<1>6. SelectorPart(a) <=>
         /\ Exactly(1, <<all, list>>)
         /\ \A n \in PolicyFiles : \A i \in DOMAIN a[n].inline : HasPiece(a[n].inline[i])
  BY Zenon DEF SelectorPart
<1> HIDE DEF all, list
<1>7. QED
  BY <1>2, <1>4, <1>5, <1>6

(* Exactly one mode of authentication *)
LEMMA AuthAcceptable ==
  ASSUME NEW a, WellFormedArgs(a), NEW f,
         ProperArg(a.webhook_auth_token), ProperText(f.webhook_auth_token)
  PROVE  WebhookAuth(a, f).ok <=> AuthPart(a, f)
<1> DEFINE arg == a.webhook_auth_token
           token == OptionalSecret(arg, f.webhook_auth_token)
           given == Given(arg)
           policy == a.auth_policy_file
           insecure == a.insecure_allow_unauthenticated
           texts == Texts(arg, f.webhook_auth_token) # {}
<1>1. given \in BOOLEAN /\ policy \in BOOLEAN /\ insecure \in BOOLEAN
  BY DEF WellFormedArgs, Given, ProperArg
<1>2. AuthPart(a, f) <=>
         /\ (given /\ ~policy /\ ~insecure) \/ (~given /\ policy /\ ~insecure)
               \/ (~given /\ ~policy /\ insecure)
         /\ ~given \/ texts
         /\ policy => f.auth_policy # None
  <2>1. Exactly(1, <<given, policy, insecure>>) <=>
           (given /\ ~policy /\ ~insecure) \/ (~given /\ policy /\ ~insecure)
              \/ (~given /\ ~policy /\ insecure)
    <3> HIDE DEF given, policy, insecure
    <3>1. QED
      BY <1>1, ExactlyOneOfThree
  <2>2. AuthPart(a, f) <=>
           /\ Exactly(1, <<given, policy, insecure>>)
           /\ ~given \/ texts
           /\ policy => f.auth_policy # None
    BY Zenon DEF AuthPart, Given
  <2> HIDE DEF given, policy, insecure, texts
  <2>3. QED
    BY <2>1, <2>2
<1>3. given => /\ token.ok \in BOOLEAN
               /\ token.ok => token.value # None
               /\ token.ok <=> texts
  BY GivenSecret
<1>4. ~given => token = Ok(None)
  BY DEF Given, OptionalSecret
<1>5. ~given => token.ok /\ token.value = None
  BY <1>4 DEF Ok
<1>6. CASE ~token.ok
  <2>1. WebhookAuth(a, f) = token
    BY <1>6 DEF WebhookAuth
  <2>2. given /\ ~texts
    BY <1>3, <1>5, <1>6
  <2> HIDE DEF token, given, policy, insecure, texts
  <2>3. QED
    BY <1>2, <1>6, <2>1, <2>2
<1>7. CASE token.ok
  <2>1. given <=> token.value # None
    BY <1>3, <1>5, <1>7
  <2>2. given => texts
    BY <1>3, <1>7
  <2>3. WebhookAuth(a, f).ok <=>
           \/ given /\ ~policy /\ ~insecure
           \/ ~given /\ policy /\ ~insecure /\ f.auth_policy # None
           \/ ~given /\ ~policy /\ insecure
    <3> DEFINE legacy == [mode |-> "legacy", token |-> token.value]
               scoped == [mode |-> "scoped", policy |-> f.auth_policy]
               open == [mode |-> "disabled_insecure"]
    <3>1. WebhookAuth(a, f) =
             CASE ~token.ok -> token
               [] token.ok /\ token.value # None /\ ~policy /\ ~insecure -> Ok(legacy)
               [] token.ok /\ ~(token.value # None) /\ policy /\ ~insecure /\ f.auth_policy # None ->
                     Ok(scoped)
               [] token.ok /\ ~(token.value # None) /\ ~policy /\ insecure -> Ok(open)
               [] OTHER -> Err("auth")
      BY DEF WebhookAuth
    <3>2. \A v : Ok(v).ok = TRUE /\ Err(v).ok = FALSE
      BY DEF Ok, Err
    <3> DEFINE R == WebhookAuth(a, f)
               one == given /\ ~policy /\ ~insecure
               two == ~given /\ policy /\ ~insecure /\ f.auth_policy # None
               three == ~given /\ ~policy /\ insecure
    <3> HIDE DEF token, policy, insecure, legacy, scoped, open, R, given
    <3>3. CASE one
      <4>1. R = Ok(legacy)
        BY <1>7, <2>1, <3>1, <3>3 DEF R
      <4>2. QED
        BY <3>2, <3>3, <4>1 DEF R
    <3>4. CASE two
      <4>1. R = Ok(scoped)
        BY <1>7, <2>1, <3>1, <3>4 DEF R
      <4>2. QED
        BY <3>2, <3>4, <4>1 DEF R
    <3>5. CASE three
      <4>1. R = Ok(open)
        BY <1>7, <2>1, <3>1, <3>5 DEF R
      <4>2. QED
        BY <3>2, <3>5, <4>1 DEF R
    <3>6. CASE ~one /\ ~two /\ ~three
      <4>1. R = Err("auth")
        BY <1>7, <2>1, <3>1, <3>6 DEF R
      <4>2. QED
        BY <3>2, <3>6, <4>1 DEF R
    <3>7. QED
      BY <3>3, <3>4, <3>5, <3>6
  <2> HIDE DEF token, given, policy, insecure, texts
  <2>4. QED
    BY <1>1, <1>2, <2>2, <2>3
<1>8. QED
  BY <1>6, <1>7

FileNames == Credentials \cup PolicyFiles \cup {"webhook_auth_token", "ca_bundle", "auth_policy"}

(* A mixture has, of every file, what it was in one state of the files. *)
LEMMA MixtureOf ==
  ASSUME FilesInv, NEW pick \in [FileNames -> held]
  PROVE  \E m \in Mixtures : \A n \in FileNames : m[n] = pick[n][n]
<1>1. DOMAIN files = FileNames
  BY DEF FilesInv, WellFormedFiles, FileNames
<1> DEFINE m == [n \in DOMAIN files |-> pick[n][n]]
<1>2. m \in Mixtures
  BY <1>1 DEF Mixtures
<1>3. \A n \in FileNames : m[n] = pick[n][n]
  BY <1>1
<1> HIDE DEF m
<1>4. QED
  BY <1>2, <1>3

(* Whatever a process that serves has found, it found in one of the states *)
(* of the files, each file on its own.                                     *)
LEMMA ServingPick ==
  ASSUME ProcessInv, pc = "serving"
  PROVE  \E pick \in [FileNames -> held] :
            /\ \A n \in Credentials : SensitiveArg(pod.args[n], pick[n][n]).ok
            /\ pod.args.ca_bundle_file => pick["ca_bundle"].ca_bundle \notin {None, 0}
            /\ ~pod.args.allow_all_selectors =>
                  \A n \in PolicyFiles : Listed(n, app.rules[n], pick[n], TRUE)
            /\ \E f \in held :
                  /\ WebhookAuth(pod.args, f).ok
                  /\ pick["webhook_auth_token"] = f /\ pick["auth_policy"] = f
<1> USE DEF PastOptions, PastCertificates, PastClient, PastSelector, PastPolicies, PastAuth
<1>1. PICK auth \in held : WebhookAuth(pod.args, auth).ok
  BY DEF ProcessInv, AuthInv
<1> DEFINE Good(n, f) ==
             /\ n \in Credentials => SensitiveArg(pod.args[n], f[n]).ok
             /\ n = "ca_bundle" /\ pod.args.ca_bundle_file => f.ca_bundle \notin {None, 0}
             /\ n \in PolicyFiles /\ ~pod.args.allow_all_selectors => Listed(n, app.rules[n], f, TRUE)
             /\ n \in {"webhook_auth_token", "auth_policy"} => f = auth
<1>2. ASSUME NEW n \in FileNames PROVE \E f \in held : Good(n, f)
  <2>1. CASE n \in Credentials
    <3>1. pc \in PastCredential(n)
      BY <2>1 DEF PastCredential, Credentials
    <3>2. PICK f \in held : SensitiveArg(pod.args[n], f[n]).ok
      BY <2>1, <3>1 DEF ProcessInv, CredentialsInv
    <3>3. n \notin {"ca_bundle", "webhook_auth_token", "auth_policy"} /\ n \notin PolicyFiles
      BY <2>1 DEF Credentials, PolicyFiles
    <3>4. QED
      BY <3>2, <3>3
  <2>2. CASE n \in PolicyFiles
    <3>1. n \notin {"ca_bundle", "webhook_auth_token", "auth_policy"} /\ n \notin Credentials
      BY <2>2 DEF Credentials, PolicyFiles
    <3>2. CASE pod.args.allow_all_selectors
      BY <1>1, <3>1, <3>2
    <3>3. CASE ~pod.args.allow_all_selectors
      <4>1. PICK f \in held : Listed(n, app.rules[n], f, pc \in PastPolicy(n))
        BY <2>2, <3>3 DEF ProcessInv, RulesInv
      <4>2. Listed(n, app.rules[n], f, TRUE)
        BY <4>1 DEF Listed, PastPolicy
      <4>3. QED
        BY <3>1, <4>1, <4>2
    <3>4. QED
      BY <3>2, <3>3
  <2>3. CASE n = "ca_bundle"
    <3>1. n \notin Credentials /\ n \notin PolicyFiles
      BY <2>3 DEF Credentials, PolicyFiles
    <3>2. pod.args.ca_bundle_file => \E f \in held : f.ca_bundle \notin {None, 0}
      BY DEF ProcessInv, ClientInv
    <3>3. QED
      BY <1>1, <2>3, <3>1, <3>2
  <2>4. CASE n \in {"webhook_auth_token", "auth_policy"}
    <3>1. n \notin Credentials /\ n \notin PolicyFiles
      BY <2>4 DEF Credentials, PolicyFiles
    <3>2. QED
      BY <1>1, <2>4, <3>1
  <2>5. QED
    BY <2>1, <2>2, <2>3, <2>4 DEF FileNames
<1> DEFINE pick == [n \in FileNames |-> CHOOSE f \in held : Good(n, f)]
<1>3. pick \in [FileNames -> held] /\ \A n \in FileNames : Good(n, pick[n])
  <2> HIDE DEF Good
  <2>1. QED
    BY <1>2
<1>4. /\ Credentials \subseteq FileNames /\ PolicyFiles \subseteq FileNames
      /\ {"webhook_auth_token", "ca_bundle", "auth_policy"} \subseteq FileNames
  BY DEF FileNames
<1> HIDE DEF pick
<1>5. \A n \in Credentials : SensitiveArg(pod.args[n], pick[n][n]).ok
  BY <1>3, <1>4
<1>6. pod.args.ca_bundle_file => pick["ca_bundle"].ca_bundle \notin {None, 0}
  BY <1>3, <1>4
<1>7. ~pod.args.allow_all_selectors => \A n \in PolicyFiles : Listed(n, app.rules[n], pick[n], TRUE)
  BY <1>3, <1>4
<1>8. pick["webhook_auth_token"] = auth /\ pick["auth_policy"] = auth
  BY <1>3, <1>4
<1>9. QED
  BY <1>1, <1>3, <1>5, <1>6, <1>7, <1>8

(* No process serves with a configuration that is not acceptable: what     *)
(* main has checked, argument by argument and file by file, is all that    *)
(* Acceptable asks of the files it read, whenever it read each of them.    *)
THEOREM ServesOnlyAcceptableHolds == Spec => []ServesOnlyAcceptable
<1>1. ASSUME ProcessInv PROVE ServesOnlyAcceptable
  <2> USE DEF PastOptions, PastCertificates, PastClient, PastSelector, PastPolicies, PastAuth
  <2> DEFINE a == pod.args
  <2> SUFFICES ASSUME pc = "serving" PROVE \E m \in Mixtures : Acceptable(a, m)
    BY DEF ServesOnlyAcceptable
  <2>1. FilesInv /\ WellFormedArgs(a) /\ \A f \in held : WellFormedFiles(f)
    BY <1>1 DEF ProcessInv, FilesInv
  <2>2. PICK pick \in [FileNames -> held] :
            /\ \A n \in Credentials : SensitiveArg(a[n], pick[n][n]).ok
            /\ a.ca_bundle_file => pick["ca_bundle"].ca_bundle \notin {None, 0}
            /\ ~a.allow_all_selectors =>
                  \A n \in PolicyFiles : Listed(n, app.rules[n], pick[n], TRUE)
            /\ \E f \in held :
                  /\ WebhookAuth(a, f).ok
                  /\ pick["webhook_auth_token"] = f /\ pick["auth_policy"] = f
    BY <1>1, ServingPick
  <2>3. PICK m \in Mixtures : \A n \in FileNames : m[n] = pick[n][n]
    BY <2>1, MixtureOf
  <2>4. /\ Credentials \subseteq FileNames /\ PolicyFiles \subseteq FileNames
        /\ {"webhook_auth_token", "ca_bundle", "auth_policy"} \subseteq FileNames
    BY DEF FileNames
  <2>5. SecretsPart(a, m)
    <3> SUFFICES ASSUME NEW n \in Credentials PROVE Texts(a[n], m[n]) # {}
      BY DEF SecretsPart
    <3> DEFINE text == pick[n][n]
    <3>1. m[n] = text /\ pick[n] \in held
      BY <2>3, <2>4
    <3>2. ProperArg(a[n]) /\ ProperText(text)
      BY <2>1, <3>1, ProperSecrets
    <3>3. SensitiveArg(a[n], text).ok
      BY <2>2
    <3> HIDE DEF text
    <3>4. Texts(a[n], text) # {}
      BY <3>2, <3>3, RequiredSecret
    <3>5. QED
      BY <3>1, <3>4
  <2>6. OptionsPart(a)
    <3>1. ValidOptions(a)
      BY <1>1 DEF ProcessInv, ClientInv
    <3>2. QED
      BY <2>1, <3>1, OptionsAcceptable
  <2>7. CertificatesPart(a, m)
    BY <2>2, <2>3, <2>4 DEF CertificatesPart
  <2>8. MemoryPart(a)
    <3>1. ValidMemoryLimit(a.argon2_memory_limit_mib)
      BY <1>1 DEF ProcessInv, ClientInv
    <3>2. a.argon2_memory_limit_mib \in Nat
      BY <1>1 DEF ProcessInv, FilesInv, WellFormedArgs
    <3>3. QED
      BY <3>1, <3>2, MemoryAcceptable
  <2>9. OneSelectorMode(a) /\ ValidInline(a)
    BY <1>1 DEF ProcessInv, RulesInv
  <2>10. SelectorPart(a)
    BY <2>1, <2>9, SelectorAcceptable
  <2>11. PoliciesPart(a, m)
    <3>1. CASE a.allow_all_selectors
      <4>1. \A n \in PolicyFiles : a[n].file \in BOOLEAN
        BY <2>1 DEF WellFormedArgs
      <4>2. a.allow_all_selectors \in BOOLEAN
        BY <2>1 DEF WellFormedArgs
      <4>3. ~HasFile(a)
        BY <2>9, <3>1, <4>2 DEF OneSelectorMode
      <4>4. QED
        BY <3>1, <4>1, <4>3 DEF PoliciesPart, HasFile
    <3>2. CASE ~a.allow_all_selectors
      <4>1. ASSUME NEW n \in PolicyFiles
            PROVE  /\ a[n].file => m[n] # None
                   /\ app.rules[n] = <<>> <=> a[n].inline = <<>> /\ (a[n].file => Written(m[n]) = {})
        <5>1. pick[n] \in held /\ m[n] = pick[n][n]
          BY <2>3, <2>4
        <5>2. Listed(n, app.rules[n], pick[n], TRUE)
          BY <2>2, <3>2
        <5>3. /\ a[n].file => pick[n][n] # None
              /\ app.rules[n] = <<>> <=> a[n].inline = <<>> /\ (a[n].file => Written(pick[n][n]) = {})
          BY <2>1, <5>1, <5>2, ListedIs
        <5>4. QED
          BY <5>1, <5>3
      <4>2. \E n \in PolicyFiles : app.rules[n] # <<>>
        BY <1>1, <3>2 DEF ProcessInv, RulesInv
      <4>3. QED
        BY <4>1, <4>2 DEF PoliciesPart
    <3>3. QED
      BY <3>1, <3>2
  <2>12. AuthPart(a, m)
    <3>1. PICK f \in held : /\ WebhookAuth(a, f).ok
                            /\ pick["webhook_auth_token"] = f /\ pick["auth_policy"] = f
      BY <2>2
    <3>2. ProperArg(a.webhook_auth_token) /\ ProperText(f.webhook_auth_token)
      BY <2>1, ProperSecrets
    <3>3. AuthPart(a, f)
      BY <2>1, <3>1, <3>2, AuthAcceptable
    <3>4. m.webhook_auth_token = f.webhook_auth_token /\ m.auth_policy = f.auth_policy
      BY <2>3, <2>4, <3>1
    <3>5. QED
      BY <3>3, <3>4, Zenon DEF AuthPart
  <2>13. Acceptable(a, m)
    BY <2>5, <2>6, <2>7, <2>8, <2>10, <2>11, <2>12, AcceptableParts
  <2>14. QED
    BY <2>13
<1>2. QED
  BY <1>1, ProcessInvariant, PTL

-----------------------------------------------------------------------------
(* What is refused *)

(* The files as they are now are a mixture, too. *)
LEMMA NotAcceptableNow ==
  ASSUME FilesInv,
         ~(/\ SecretsPart(pod.args, files) /\ OptionsPart(pod.args)
           /\ CertificatesPart(pod.args, files) /\ MemoryPart(pod.args) /\ SelectorPart(pod.args)
           /\ PoliciesPart(pod.args, files) /\ AuthPart(pod.args, files))
  PROVE  \E m \in Mixtures : ~Acceptable(pod.args, m)
<1> DEFINE a == pod.args
           pick == [n \in FileNames |-> files]
<1>1. pick \in [FileNames -> held]
  BY DEF FilesInv
<1>2. PICK m \in Mixtures : \A n \in FileNames : m[n] = pick[n][n]
  <2> HIDE DEF pick
  <2>1. QED
    BY <1>1, MixtureOf
<1>3. \A n \in FileNames : m[n] = files[n]
  BY <1>2
<1>4. /\ Credentials \subseteq FileNames /\ PolicyFiles \subseteq FileNames
      /\ {"webhook_auth_token", "ca_bundle", "auth_policy"} \subseteq FileNames
  BY DEF FileNames
<1>5. SecretsPart(a, m) <=> SecretsPart(a, files)
  BY <1>3, <1>4 DEF SecretsPart
<1>6. CertificatesPart(a, m) <=> CertificatesPart(a, files)
  <2>1. m.ca_bundle = files.ca_bundle
    BY <1>3, <1>4
  <2>2. QED
    BY <2>1 DEF CertificatesPart
<1>7. PoliciesPart(a, m) <=> PoliciesPart(a, files)
  BY <1>3, <1>4 DEF PoliciesPart
<1>8. AuthPart(a, m) <=> AuthPart(a, files)
  <2>1. m.webhook_auth_token = files.webhook_auth_token /\ m.auth_policy = files.auth_policy
    BY <1>3, <1>4
  <2>2. QED
    BY <2>1, Zenon DEF AuthPart
<1>9. ~Acceptable(a, m)
  BY <1>5, <1>6, <1>7, <1>8, AcceptableParts
<1>10. QED
  BY <1>9

(* A policy without any entry, taken from two states of the files. *)
LEMMA NoEntry ==
  ASSUME FilesInv, NEW f \in held, ~pod.args.allow_all_selectors,
         \A n \in PolicyFiles : pod.args[n].inline = <<>>,
         pod.args["allowed_keys"].file => Written(f["allowed_keys"]) = {},
         pod.args["allowed_key_prefixes"].file => Written(files["allowed_key_prefixes"]) = {}
  PROVE  \E m \in Mixtures : ~Acceptable(pod.args, m)
<1> DEFINE a == pod.args
           pick == [n \in FileNames |-> IF n = "allowed_keys" THEN f ELSE files]
<1>1. pick \in [FileNames -> held]
  BY DEF FilesInv
<1>2. PICK m \in Mixtures : \A n \in FileNames : m[n] = pick[n][n]
  <2> HIDE DEF pick
  <2>1. QED
    BY <1>1, MixtureOf
<1>3. /\ m["allowed_keys"] = f["allowed_keys"]
      /\ m["allowed_key_prefixes"] = files["allowed_key_prefixes"]
  BY <1>2 DEF FileNames, PolicyFiles
<1>4. ~PoliciesPart(a, m)
  BY <1>3 DEF PoliciesPart, PolicyFiles
<1>5. ~Acceptable(a, m)
  BY <1>4, AcceptableParts
<1>6. QED
  BY <1>5

(* Every refusal of a configuration has a reason in the files. *)
LEMMA RefusalJustified ==
  ASSUME ProcessInv, pod.args.healthcheck_url = None, ~Ipv6Loopback(pod.args),
         Step, refused' # refused
  PROVE  \E m \in Mixtures : ~Acceptable(pod.args, m)
<1> DEFINE a == pod.args
<1>0. FilesInv /\ WellFormedArgs(a) /\ WellFormedFiles(files)
  BY DEF ProcessInv, FilesInv
<1>1. CASE Start \/ Spawn \/ Bind \/ FirstUnlock
  BY <1>1 DEF Start, Spawn, Bind, FirstUnlock, Continue
<1>2. CASE Healthcheck
  BY <1>2 DEF Healthcheck, ProcessInv, ArgsInv
<1>3. ASSUME NEW name \in Credentials, NEW next, ReadCredential(name, next)
      PROVE  \E m \in Mixtures : ~Acceptable(a, m)
  <2>1. pc = name /\ ~SensitiveArg(args[name], files[name]).ok
    BY <1>3 DEF ReadCredential, Continue
  <2>2. args = a
    BY <2>1 DEF ProcessInv, ArgsInv, Credentials
  <2>3. ProperArg(a[name]) /\ ProperText(files[name])
    BY <1>0, ProperSecrets
  <2>4. Texts(a[name], files[name]) = {}
    BY <2>1, <2>2, <2>3, RequiredSecret
  <2>5. ~SecretsPart(a, files)
    BY <2>4 DEF SecretsPart
  <2>6. QED
    BY <1>0, <2>5, NotAcceptableNow
<1>4. CASE CheckOptions
  <2>1. pc = "options" /\ ~ValidOptions(args)
    BY <1>4 DEF CheckOptions, Continue
  <2>2. args = a
    BY <2>1 DEF ProcessInv, ArgsInv
  <2>3. ~OptionsPart(a)
    BY <1>0, <2>1, <2>2, OptionsAcceptable
  <2>4. QED
    BY <1>0, <2>3, NotAcceptableNow
<1>5. CASE LoadCertificates
  <2>1. pc = "certificates" /\ ~(args.ca_bundle_file => files.ca_bundle \notin {None, 0})
    BY <1>5 DEF LoadCertificates, Continue
  <2>2. args = a
    BY <2>1 DEF ProcessInv, ArgsInv
  <2>3. ~CertificatesPart(a, files)
    BY <2>1, <2>2 DEF CertificatesPart
  <2>4. QED
    BY <1>0, <2>3, NotAcceptableNow
<1>6. CASE BuildClient
  <2>1. pc = "client" /\ ~ValidMemoryLimit(args.argon2_memory_limit_mib)
    BY <1>6 DEF BuildClient, Continue
  <2>2. args = a
    BY <2>1 DEF ProcessInv, ArgsInv
  <2>3. a.argon2_memory_limit_mib \in Nat
    BY <1>0 DEF WellFormedArgs
  <2>4. ~MemoryPart(a)
    BY <2>1, <2>2, <2>3, MemoryAcceptable
  <2>5. QED
    BY <1>0, <2>4, NotAcceptableNow
<1>7. CASE SelectorPolicy
  <2>1. pc = "selector" /\ ~(OneSelectorMode(args) /\ ValidInline(args))
    BY <1>7 DEF SelectorPolicy, Continue
  <2>2. args = a
    BY <2>1 DEF ProcessInv, ArgsInv
  <2>3. ~SelectorPart(a)
    BY <1>0, <2>1, <2>2, SelectorAcceptable
  <2>4. QED
    BY <1>0, <2>3, NotAcceptableNow
<1>8. ASSUME NEW name \in PolicyFiles, NEW next, ReadPolicy(name, next),
             \/ name = "allowed_keys" /\ next = "allowed_key_prefixes"
             \/ name = "allowed_key_prefixes" /\ next = "auth"
      PROVE  \E m \in Mixtures : ~Acceptable(a, m)
  <2> DEFINE entries == IF args[name].file THEN PolicyEntries(files[name]) ELSE <<>>
             rules == [app.rules EXCEPT ![name] = @ \o entries]
  <2>1. /\ pc = name
        /\ ~(/\ args[name].file => files[name] # None
             /\ next = "auth" => \E n \in PolicyFiles : rules[n] # <<>>)
    BY <1>8 DEF ReadPolicy, Continue
  <2>2. args = a
    BY <2>1 DEF ProcessInv, ArgsInv, PolicyFiles
  <2>3. CASE ~(args[name].file => files[name] # None)
    <3>1. ~PoliciesPart(a, files)
      BY <2>2, <2>3 DEF PoliciesPart
    <3>2. QED
      BY <1>0, <3>1, NotAcceptableNow
  <2>4. CASE args[name].file => files[name] # None
    <3>1. name = "allowed_key_prefixes" /\ \A n \in PolicyFiles : rules[n] = <<>>
      BY <1>8, <2>1, <2>4
    <3>2. /\ ~a.allow_all_selectors /\ DOMAIN app.rules = PolicyFiles
          /\ \A n \in PolicyFiles : \E f \in held : Listed(n, app.rules[n], f, pc \in PastPolicy(n))
      BY <2>1 DEF ProcessInv, RulesInv, PastSelector
    <3>3. "allowed_keys" \in PolicyFiles /\ "allowed_key_prefixes" \in PolicyFiles
          /\ \A n \in PolicyFiles : n \in {"allowed_keys", "allowed_key_prefixes"}
      BY DEF PolicyFiles
    <3>4. /\ rules["allowed_keys"] = app.rules["allowed_keys"]
          /\ rules[name] = app.rules[name] \o entries
      BY <3>1, <3>2, <3>3
    <3> HIDE DEF rules
    <3>5. PICK f \in held : Listed("allowed_keys", app.rules["allowed_keys"], f, TRUE)
      <4>1. PICK f \in held : Listed("allowed_keys", app.rules["allowed_keys"], f, pc \in PastPolicy("allowed_keys"))
        BY <3>2, <3>3
      <4>2. pc \in PastPolicy("allowed_keys")
        BY <2>1, <3>1 DEF PastPolicy
      <4>3. QED
        BY <4>1, <4>2 DEF Listed
    <3>6. Listed(name, app.rules[name] \o entries, files, TRUE)
      <4>1. PICK g \in held : Listed(name, app.rules[name], g, pc \in PastPolicy(name))
        BY <3>2
      <4>2. pc \notin PastPolicy(name)
        BY <2>1, <3>1 DEF PastPolicy, PastPolicies, PastAuth
      <4>3. app.rules[name] = Normalized(a[name].inline)
        BY <4>1, <4>2 DEF Listed
      <4>4. QED
        BY <2>2, <2>4, <4>3 DEF Listed
    <3>7. /\ a["allowed_keys"].inline = <<>>
          /\ a["allowed_keys"].file => Written(f["allowed_keys"]) = {}
      <4>1. app.rules["allowed_keys"] = <<>>
        BY <3>1, <3>3, <3>4
      <4>2. QED
        BY <1>0, <3>3, <3>5, <4>1, ListedIs
    <3>8. a[name].inline = <<>> /\ (a[name].file => Written(files[name]) = {})
      <4>1. app.rules[name] \o entries = <<>>
        BY <3>1, <3>4
      <4>2. files \in held
        BY <1>0 DEF FilesInv
      <4> HIDE DEF entries
      <4>3. QED
        BY <1>0, <3>6, <4>1, <4>2, ListedIs
    <3>9. \A n \in PolicyFiles : a[n].inline = <<>>
      BY <3>1, <3>3, <3>7, <3>8
    <3>10. QED
      BY <1>0, <3>1, <3>2, <3>7, <3>8, <3>9, NoEntry
  <2>5. QED
    BY <2>3, <2>4
<1>9. CASE ConfigureAuth
  <2>1. pc = "auth" /\ ~WebhookAuth(args, files).ok
    BY <1>9 DEF ConfigureAuth, Continue
  <2>2. args = a
    BY <2>1 DEF ProcessInv, ArgsInv
  <2>3. ProperArg(a.webhook_auth_token) /\ ProperText(files.webhook_auth_token)
    BY <1>0, ProperSecrets
  <2>4. ~AuthPart(a, files)
    BY <1>0, <2>1, <2>2, <2>3, AuthAcceptable
  <2>5. QED
    BY <1>0, <2>4, NotAcceptableNow
<1>10. CASE ReadCredentials
  BY <1>3, <1>10 DEF ReadCredentials, Credentials
<1>11. CASE ReadPolicies
  <2>1. "allowed_keys" \in PolicyFiles /\ "allowed_key_prefixes" \in PolicyFiles
    BY DEF PolicyFiles
  <2>2. CASE ReadPolicy("allowed_keys", "allowed_key_prefixes")
    BY <1>8, <2>1, <2>2
  <2>3. CASE ReadPolicy("allowed_key_prefixes", "auth")
    BY <1>8, <2>1, <2>3
  <2>4. QED
    BY <1>11, <2>2, <2>3 DEF ReadPolicies
<1>12. QED
  BY <1>1, <1>2, <1>4, <1>5, <1>6, <1>7, <1>9, <1>10, <1>11 DEF Step

(* The mixtures only get more while a process lives. *)
LEMMA MixturesGrow ==
  ASSUME FilesInv, FilesInv', held \subseteq held'
  PROVE  Mixtures \subseteq Mixtures'
<1>1. DOMAIN files = DOMAIN files'
  BY DEF FilesInv, WellFormedFiles
<1>2. QED
  BY <1>1 DEF Mixtures

(* A process refuses only a configuration that was wrong while it started, *)
(* or that it took from files of different moments; plain http to the      *)
(* loopback address of IPv6 is the exception AcceptsLoopback is about.     *)
THEOREM RefusesOnlyUnacceptableHolds == Spec => []RefusesOnlyUnacceptable
<1>1. Init => RefusesOnlyUnacceptable
  BY DEF Init, RefusesOnlyUnacceptable
<1>2. ASSUME ProcessInv, ProcessInv', RefusesOnlyUnacceptable, [Next]_vars
      PROVE  RefusesOnlyUnacceptable'
  <2> SUFFICES ASSUME refused', pod'.args.healthcheck_url = None, ~Ipv6Loopback(pod'.args)
               PROVE  \E m \in Mixtures' : ~Acceptable(pod'.args, m)
    BY DEF RefusesOnlyUnacceptable
  <2>1. ~Restart
    BY DEF Restart
  <2>2. pod' = pod /\ held \subseteq held'
    BY <1>2, <2>1 DEF Next, Step, Start, Healthcheck, ReadCredentials, ReadCredential, CheckOptions,
           LoadCertificates, BuildClient, SelectorPolicy, ReadPolicies, ReadPolicy, ConfigureAuth,
           Spawn, Bind, FirstUnlock, Crash, Swap, Idle, Continue, Refuse, vars
  <2>3. Mixtures \subseteq Mixtures'
    BY <1>2, <2>2, MixturesGrow DEF ProcessInv
  <2>4. CASE refused' = refused
    BY <1>2, <2>2, <2>3, <2>4 DEF RefusesOnlyUnacceptable
  <2>5. CASE refused' # refused
    <3>1. Step
      BY <1>2, <2>1, <2>5 DEF Next, Crash, Swap, Idle, vars
    <3>2. QED
      BY <1>2, <2>2, <2>3, <2>5, <3>1, RefusalJustified
  <2>6. QED
    BY <2>4, <2>5
<1>3. QED
  BY <1>1, <1>2, ProcessInvariant, PTL DEF Spec

-----------------------------------------------------------------------------
(* What an unlock opens *)

(* A secret that is read is not empty. *)
LEMMA SecretNotEmpty ==
  ASSUME NEW arg, ProperArg(arg), NEW content, SensitiveArg(arg, content).ok
  PROVE  SensitiveArg(arg, content).value # <<>>
<1> DEFINE r == SensitiveArg(arg, content)
           text == IF arg.inline # None THEN arg.inline ELSE TrimNewlines(content)
<1>1. arg.file \in BOOLEAN
  BY DEF ProperArg
<1>2. r = OptionalSecret(arg, content) /\ ~(arg.inline = None /\ ~arg.file)
  BY DEF SensitiveArg, Err
<1>3. RequireNonEmpty(text) /\ r.value = text
  <2>1. CASE arg.inline # None /\ arg.file
    BY <1>2, <2>1 DEF OptionalSecret, Err
  <2>2. CASE arg.inline # None /\ ~arg.file
    BY <1>2, <2>2 DEF OptionalSecret, Ok, Err
  <2>3. CASE arg.inline = None /\ arg.file /\ content = None
    BY <1>2, <2>3 DEF OptionalSecret, Err
  <2>4. CASE arg.inline = None /\ arg.file /\ content # None
    BY <1>2, <2>4 DEF OptionalSecret, Ok, Err
  <2>5. QED
    BY <1>1, <1>2, <2>1, <2>2, <2>3, <2>4
<1> HIDE DEF r, text
<1>4. Trim(<<>>) = <<>>
  BY DEF Trim, Between
<1>5. QED
  BY <1>3, <1>4 DEF RequireNonEmpty, r

White == {"sp", "nl"}

(* Lower keeps the length of a text and its white space. *)
LEMMA LowerKeeps ==
  ASSUME NEW t, IsSequence(t)
  PROVE  /\ DOMAIN Lower(t) = DOMAIN t
         /\ \A i \in DOMAIN t : Lower(t)[i] \in White <=> t[i] \in White
         /\ Lower(t) = <<>> <=> t = <<>>
<1>1. DOMAIN t = 1..Len(t) /\ Len(t) \in Nat
  BY SequenceShape
<1>2. DOMAIN Lower(t) = DOMAIN t
  BY DEF Lower
<1>3. \A i \in DOMAIN t : Lower(t)[i] \in White <=> t[i] \in White
  BY DEF Lower, White
<1>4. t = <<>> => Lower(t) = <<>>
  BY DEF Lower
<1>5. Lower(t) = <<>> => t = <<>>
  <2> SUFFICES ASSUME Lower(t) = <<>> PROVE t = <<>>
    OBVIOUS
  <2>1. 1..Len(t) = {}
    BY <1>1, <1>2
  <2>2. QED
    BY <1>1, <2>1, SequenceShape
<1>6. QED
  BY <1>2, <1>3, <1>4, <1>5

(* A section of a text. *)
LEMMA Section ==
  ASSUME NEW s, IsSequence(s), NEW i \in 1..Len(s) + 1, NEW j \in 0..Len(s)
  PROVE  /\ IsSequence(SubSeq(s, i, j))
         /\ Len(SubSeq(s, i, j)) = IF i <= j THEN j - i + 1 ELSE 0
         /\ \A k \in 1..j - i + 1 : SubSeq(s, i, j)[k] = s[i + k - 1]
<1>1. Len(s) \in Nat /\ DOMAIN s = 1..Len(s)
  BY SequenceShape
<1>2. i \in Int /\ j \in Int /\ \A k \in i..j : s[k] \in Range(s)
  BY <1>1 DEF Range
<1>3. /\ SubSeq(s, i, j) \in Seq(Range(s))
      /\ Len(SubSeq(s, i, j)) = IF i <= j THEN j - i + 1 ELSE 0
      /\ \A k \in 1..j - i + 1 : SubSeq(s, i, j)[k] = s[i + k - 1]
  BY <1>2, SubSeqProperties
<1>4. QED
  BY <1>3, SequenceOver

(* The section with all that is not white space. *)
LEMMA TrimIs ==
  ASSUME NEW s, IsSequence(s),
         NEW i \in 1..Len(s) + 1, NEW j \in 0..Len(s),
         \A k \in DOMAIN s \ (i..j) : s[k] \in White,
         i <= j => s[i] \notin White /\ s[j] \notin White
  PROVE  Trim(s) = SubSeq(s, i, j)
<1> DEFINE keep == {k \in DOMAIN s : s[k] \notin White}
           n == Len(s)
<1>1. n \in Nat /\ DOMAIN s = 1..n
  BY SequenceShape
<1>2. Trim(s) = Between(s, keep)
  BY DEF Trim, White
<1>3. keep \subseteq i..j /\ keep \subseteq 1..n
  BY <1>1
<1>4. CASE j < i
  <2>1. keep = {}
    BY <1>3, <1>4
  <2>2. SubSeq(s, i, j) = <<>>
    BY <1>1, <1>4, SubSeqEmpty
  <2> HIDE DEF keep
  <2>3. QED
    BY <1>2, <2>1, <2>2 DEF Between
<1>5. CASE i <= j
  <2>1. i \in keep /\ j \in keep
    BY <1>1, <1>5
  <2> HIDE DEF keep
  <2>2. keep \subseteq Nat /\ keep \subseteq 0..n /\ keep # {}
    BY <1>1, <1>3, <2>1
  <2> HIDE DEF n
  <2>3. Min(keep) \in keep /\ \A m \in keep : Min(keep) <= m
    BY <2>2, MinIsLeast
  <2>4. Max(keep) \in keep /\ \A m \in keep : m <= Max(keep)
    BY <1>1, <2>2, MaxIsGreatest
  <2>5. Min(keep) = i
    <3>1. Min(keep) <= i /\ Min(keep) \in i..j
      BY <1>3, <2>1, <2>3
    <3>2. QED
      BY <3>1 DEF n
  <2>6. Max(keep) = j
    <3>1. j <= Max(keep) /\ Max(keep) \in i..j
      BY <1>3, <2>1, <2>4
    <3>2. QED
      BY <3>1 DEF n
  <2>7. QED
    BY <1>2, <2>2, <2>5, <2>6 DEF Between
<1>6. QED
  BY <1>1, <1>4, <1>5

(* The salt has such a section. *)
LEMMA TrimShape ==
  ASSUME NEW s, IsSequence(s)
  PROVE  \E i \in 1..Len(s) + 1, j \in 0..Len(s) :
            /\ Trim(s) = SubSeq(s, i, j)
            /\ \A k \in DOMAIN s \ (i..j) : s[k] \in White
<1> DEFINE keep == {k \in DOMAIN s : s[k] \notin White}
           n == Len(s)
<1>1. n \in Nat /\ DOMAIN s = 1..n
  BY SequenceShape
<1>2. Trim(s) = Between(s, keep)
  BY DEF Trim, White
<1>3. CASE keep = {}
  <2>1. SubSeq(s, 1, 0) = <<>>
    BY SubSeqEmpty
  <2>2. Trim(s) = SubSeq(s, 1, 0)
    <3> HIDE DEF keep
    <3>1. QED
      BY <1>2, <1>3, <2>1 DEF Between
  <2>3. \A k \in DOMAIN s \ (1..0) : s[k] \in White
    BY <1>3
  <2>4. 1 \in 1..Len(s) + 1 /\ 0 \in 0..Len(s)
    BY <1>1
  <2>5. QED
    BY <2>2, <2>3, <2>4
<1>4. CASE keep # {}
  <2>1. keep \subseteq Nat /\ keep \subseteq 0..n /\ keep \subseteq 1..n
    BY <1>1
  <2>2. \A k \in DOMAIN s \ keep : s[k] \in White
    OBVIOUS
  <2> HIDE DEF keep, n
  <2>3. Min(keep) \in keep /\ \A m \in keep : Min(keep) <= m
    BY <1>4, <2>1, MinIsLeast
  <2>4. Max(keep) \in keep /\ \A m \in keep : m <= Max(keep)
    BY <1>1, <1>4, <2>1, MaxIsGreatest
  <2>5. Trim(s) = SubSeq(s, Min(keep), Max(keep))
    BY <1>2, <1>4 DEF Between
  <2> DEFINE a == Min(keep)
             b == Max(keep)
  <2> HIDE DEF a, b
  <2>6. a \in 1..Len(s) + 1 /\ b \in 0..Len(s)
    <3>1. a \in 1..n /\ b \in 1..n
      BY <2>1, <2>3, <2>4 DEF a, b
    <3>2. a \in 1..n + 1 /\ b \in 0..n
      BY <1>1, <3>1
    <3>3. QED
      BY <3>2 DEF n
  <2>7. keep \subseteq a..b
    BY <2>1, <2>3, <2>4 DEF a, b
  <2>8. \A k \in DOMAIN s \ (a..b) : s[k] \in White
    BY <2>2, <2>7
  <2>9. QED
    BY <2>5, <2>6, <2>8 DEF a, b
<1>5. QED
  BY <1>3, <1>4

(* normalize_master_password_salt gives the e-mail address if the salt is  *)
(* the address but for the case and the white space around it.             *)
LEMMA SaltOf ==
  ASSUME NEW s, IsSequence(s), NEW email, IsSequence(email),
         email # <<>> => email[1] \notin White /\ email[Len(email)] \notin White
  PROVE  NormalizeSalt(s) = email <=>
         \E i \in 1..Len(s) + 1, j \in 0..Len(s) :
            /\ Lower(SubSeq(s, i, j)) = email
            /\ \A k \in DOMAIN s \ (i..j) : s[k] \in White
<1>1. ASSUME NormalizeSalt(s) = email
      PROVE  \E i \in 1..Len(s) + 1, j \in 0..Len(s) :
                /\ Lower(SubSeq(s, i, j)) = email
                /\ \A k \in DOMAIN s \ (i..j) : s[k] \in White
  BY <1>1, TrimShape DEF NormalizeSalt
<1>2. ASSUME NEW i \in 1..Len(s) + 1, NEW j \in 0..Len(s),
             Lower(SubSeq(s, i, j)) = email,
             \A k \in DOMAIN s \ (i..j) : s[k] \in White
      PROVE  NormalizeSalt(s) = email
  <2> DEFINE w == SubSeq(s, i, j)
             n == Len(w)
             l == Lower(w)
  <2>1. Len(s) \in Nat /\ DOMAIN s = 1..Len(s)
    BY SequenceShape
  <2>2. /\ IsSequence(w)
        /\ n = IF i <= j THEN j - i + 1 ELSE 0
        /\ \A k \in 1..j - i + 1 : w[k] = s[i + k - 1]
    BY Section
  <2>3. /\ DOMAIN l = DOMAIN w
        /\ \A k \in DOMAIN w : l[k] \in White <=> w[k] \in White
        /\ l = <<>> <=> w = <<>>
    <3> HIDE DEF w
    <3>1. QED
      BY <2>2, LowerKeeps
  <2>4. DOMAIN w = 1..n /\ n \in Nat /\ (w = <<>> <=> n = 0)
    <3> HIDE DEF w
    <3>1. QED
      BY <2>2, SequenceShape
  <2>5. i <= j => s[i] \notin White /\ s[j] \notin White
    <3> SUFFICES ASSUME i <= j PROVE s[i] \notin White /\ s[j] \notin White
      OBVIOUS
    <3>1. l = email
      BY <1>2
    <3> HIDE DEF w, n, l
    <3>2. n = j - i + 1 /\ n >= 1
      BY <2>1, <2>2
    <3>3. email # <<>>
      BY <2>3, <2>4, <3>1, <3>2
    <3>4. DOMAIN email = 1..Len(email) /\ Len(email) \in Nat
      BY SequenceShape
    <3>5. Len(email) = n
      BY <2>3, <2>4, <3>1, <3>2, <3>4
    <3>6. 1 \in DOMAIN w /\ n \in DOMAIN w
      BY <2>4, <3>2
    <3>7. w[1] \notin White /\ w[n] \notin White
      BY <2>3, <3>1, <3>3, <3>5, <3>6
    <3>8. w[1] = s[i] /\ w[n] = s[j]
      <4>1. 1 \in 1..j - i + 1 /\ n \in 1..j - i + 1
        BY <3>2
      <4>2. w[1] = s[i + 1 - 1] /\ w[n] = s[i + n - 1]
        BY <2>2, <4>1
      <4>3. i + 1 - 1 = i /\ i + n - 1 = j
        BY <2>1, <3>2
      <4>4. QED
        BY <4>2, <4>3
    <3>9. QED
      BY <3>7, <3>8
  <2>6. Trim(s) = SubSeq(s, i, j)
    BY <1>2, <2>5, TrimIs
  <2>7. QED
    BY <1>2, <2>6 DEF NormalizeSalt
<1>3. QED
  BY <1>1, <1>2

(* The parameters of an account are the ones a server sends. *)
KdfOf(parts, kdf) ==
    /\ parts.iterations = kdf.iterations
    /\ \/ parts.kdf_type = 0 /\ kdf.type = "pbkdf2"
       \/ /\ parts.kdf_type = 1 /\ kdf.type = "argon2id"
          /\ parts.memory = kdf.memory
          /\ parts.parallelism = kdf.parallelism

(* kdf_from_parts gives the parameters of the account if they were sent. *)
LEMMA KdfSent ==
  ASSUME NEW parts, NEW kdf,
         kdf \in [type : {"pbkdf2"}, iterations : Nat]
                    \cup [type : {"argon2id"}, iterations : Nat, memory : Nat, parallelism : Nat]
  PROVE  KdfFromParts(parts).ok /\ KdfFromParts(parts).value = kdf <=> KdfOf(parts, kdf)
<1> DEFINE r == KdfFromParts(parts)
           pbkdf2 == [type |-> "pbkdf2", iterations |-> parts.iterations]
           argon2id == [type |-> "argon2id", iterations |-> parts.iterations,
                        memory |-> parts.memory, parallelism |-> parts.parallelism]
<1>1. CASE parts.kdf_type = 0
  <2>1. r = Ok(pbkdf2)
    BY <1>1, SMT DEF KdfFromParts
  <2>2. r.ok /\ r.value = pbkdf2
    BY <2>1 DEF Ok
  <2> HIDE DEF r
  <2>3. QED
    BY <1>1, <2>2 DEF KdfOf, r
<1>2. CASE parts.kdf_type = 1 /\ parts.memory # None /\ parts.parallelism # None
  <2>1. r = Ok(argon2id)
    BY <1>2, SMT DEF KdfFromParts
  <2>2. r.ok /\ r.value = argon2id
    BY <2>1 DEF Ok
  <2> HIDE DEF r
  <2>3. QED
    BY <1>2, <2>2 DEF KdfOf, r
<1>3. CASE parts.kdf_type = 1 /\ (parts.memory = None \/ parts.parallelism = None)
  <2>1. r = Err("missing_kdf_parameter")
    BY <1>3, SMT DEF KdfFromParts
  <2>2. ~r.ok
    BY <2>1 DEF Err
  <2>3. ~KdfOf(parts, kdf)
    BY <1>3, ServerAssumption DEF KdfOf
  <2> HIDE DEF r
  <2>4. QED
    BY <2>2, <2>3 DEF r
<1>4. CASE parts.kdf_type \notin {0, 1}
  <2>1. r = Err("unsupported_kdf_type")
    BY <1>4, SMT DEF KdfFromParts
  <2>2. ~r.ok
    BY <2>1 DEF Err
  <2> HIDE DEF r
  <2>3. QED
    BY <1>4, <2>2 DEF KdfOf, r
<1>5. QED
  BY <1>1, <1>2, <1>3, <1>4

(* What is supported is within the limits, and not over the budget. *)
LEMMA ValidIsSupported ==
  ASSUME NEW k, NEW limit \in Nat, Supported(k, limit),
         k \in [type : {"pbkdf2"}, iterations : Nat]
                  \cup [type : {"argon2id"}, iterations : Nat, memory : Nat, parallelism : Nat]
  PROVE  ValidateForPrelogin(k) /\ ~OverBudget(k, limit)
<1>1. CASE k.type = "pbkdf2"
  <2>1. k.iterations \in Nat
    BY <1>1
  <2>2. k.iterations >= 5000 /\ k.iterations <= PBKDF2_PRELOGIN_ITERATIONS_MAX
    BY <1>1 DEF Supported
  <2>3. KdfBounds.pbkdf2 = [iterations |-> 5000..PBKDF2_PRELOGIN_ITERATIONS_MAX]
    BY DEF KdfBounds
  <2>4. k.iterations \in 5000..PBKDF2_PRELOGIN_ITERATIONS_MAX
    BY <2>1, <2>2
  <2>5. ValidateForPrelogin(k)
    <3> DEFINE b == KdfBounds.pbkdf2
    <3>1. DOMAIN b = {"iterations"} /\ k["iterations"] \in b["iterations"]
      BY <2>3, <2>4
    <3> HIDE DEF b
    <3>2. \A p \in DOMAIN b : k[p] \in b[p]
      BY <3>1
    <3>3. QED
      BY <1>1, <3>2 DEF ValidateForPrelogin, b
  <2>6. QED
    BY <1>1, <2>5 DEF OverBudget
<1>2. CASE k.type = "argon2id"
  <2>1. k.iterations \in Nat /\ k.memory \in Nat /\ k.parallelism \in Nat
    BY <1>2
  <2>2. /\ k.iterations >= 2 /\ k.iterations <= 10
        /\ k.memory >= 16 /\ k.memory <= 1024 /\ k.memory <= limit
        /\ k.parallelism >= 1 /\ k.parallelism <= 16
    BY <1>2 DEF Supported
  <2>3. KdfBounds.argon2id = [iterations |-> 2..10, memory |-> 16..1024, parallelism |-> 1..16]
    BY DEF KdfBounds
  <2>4. k.iterations \in 2..10 /\ k.memory \in 16..1024 /\ k.parallelism \in 1..16
    BY <2>1, <2>2
  <2>5. ValidateForPrelogin(k)
    BY <1>2, <2>3, <2>4 DEF ValidateForPrelogin
  <2>6. ~OverBudget(k, limit)
    BY <2>1, <2>2 DEF OverBudget
  <2>7. QED
    BY <2>5, <2>6
<1>3. QED
  BY <1>1, <1>2 DEF Supported

(* A wrapped key opens if it parses, its MAC verifies, and what is sealed  *)
(* under the stretched key has the length of a key.                        *)
LEMMA UnwrapOpens ==
  ASSUME NEW mk, NEW raw
  PROVE  LET e == ParseEncrypted(raw).value
             key == StretchMasterKey(mk)
             u == UnwrapUserKey(mk, raw)
         IN  /\ u.ok <=> /\ ParseEncrypted(raw).ok
                         /\ e.mac.is = Hmac(key.authentication, e.iv, e.data)
                         /\ e.data.is.under = key.encryption /\ e.data.is.padded
                         /\ e.data.is.plain.length = 64
             /\ u.ok => u.value = e.data.is.plain
<1> DEFINE p == ParseEncrypted(raw)
           e == p.value
           key == StretchMasterKey(mk)
           d == DecryptBytes(e, key)
           u == UnwrapUserKey(mk, raw)
           verified == e.mac.is = Hmac(key.authentication, e.iv, e.data)
           opened == e.data.is.under = key.encryption /\ e.data.is.padded
<1>1. /\ ~p.ok => u = p
      /\ p.ok /\ ~d.ok => u = d
      /\ p.ok /\ d.ok => u = AuthenticatedKey(d.value)
  <2>1. CASE ~p.ok
    BY <2>1, SMT DEF UnwrapUserKey
  <2>2. CASE p.ok /\ ~d.ok
    BY <2>2, SMT DEF UnwrapUserKey
  <2>3. CASE p.ok /\ d.ok
    BY <2>3, SMT DEF UnwrapUserKey
  <2>4. QED
    BY <2>1, <2>2, <2>3
<1>2. /\ ~verified => ~d.ok
      /\ verified /\ ~opened => ~d.ok
      /\ verified /\ opened => d.ok /\ d.value = e.data.is.plain
  <2>1. CASE ~verified
    BY <2>1, SMT DEF DecryptBytes, Err
  <2>2. CASE verified /\ ~opened
    BY <2>2, SMT DEF DecryptBytes, Err
  <2>3. CASE verified /\ opened
    BY <2>3, SMT DEF DecryptBytes, Ok
  <2>4. QED
    BY <2>1, <2>2, <2>3
<1> HIDE DEF p, e, key, d, u, verified, opened
<1>3. \A b : /\ AuthenticatedKey(b).ok <=> b.length = 64
             /\ AuthenticatedKey(b).ok => AuthenticatedKey(b).value = b
  BY DEF AuthenticatedKey, Ok, Err
<1>4. /\ u.ok <=> p.ok /\ verified /\ opened /\ e.data.is.plain.length = 64
      /\ u.ok => u.value = e.data.is.plain
  BY <1>1, <1>2, <1>3
<1>5. QED
  BY <1>4 DEF p, e, key, d, u, verified, opened

(* The account's sealed key parses, into what the client put together. *)
LEMMA SealedParses ==
  ASSUME NEW account
  PROVE  LET p == ParseEncrypted(Sealed(account))
             key == StretchMasterKey(AccountKey(account))
         IN  /\ p.ok
             /\ p.value.mac.is = Hmac(key.authentication, p.value.iv, p.value.data)
             /\ p.value.data.is.under = key.encryption
             /\ p.value.data.is.plain = account.userKey
             /\ p.value.data.is.padded
<1> DEFINE key == StretchMasterKey(AccountKey(account))
           iv == [length |-> 16, is |-> [iv |-> "random"]]
           sealed == [under |-> key.encryption, plain |-> account.userKey, padded |-> TRUE]
           data == [length |-> 80, is |-> sealed]
           hmac == Hmac(key.authentication, iv, data)
           mac == [length |-> 32, is |-> hmac]
           parts == <<iv, data, mac>>
           raw == Sealed(account)
           p == ParseEncrypted(raw)
<1>1. raw = [header |-> "2", parts |-> parts]
  BY DEF Sealed, Seal
<1> HIDE DEF raw
<1>2. raw.header = "2" /\ raw.parts = parts
  <2> HIDE DEF parts
  <2>1. QED
    BY <1>1
<1>3. Len(parts) = 3 /\ parts[1] = iv /\ parts[2] = data /\ parts[3] = mac
  <2> HIDE DEF iv, data, mac
  <2>1. QED
    OBVIOUS
<1> HIDE DEF parts
<1>4. iv.length = 16 /\ data.length = 80 /\ mac.length = 32
  <2> HIDE DEF hmac, sealed
  <2>1. QED
    OBVIOUS
<1>5. data.is = sealed /\ mac.is = hmac
  <2> HIDE DEF hmac, sealed
  <2>1. QED
    OBVIOUS
<1> HIDE DEF iv, data, mac
<1>6. 16 # None /\ 80 # None /\ 32 # None
  BY ServerAssumption
<1>7. p = Ok([iv |-> iv, data |-> data, mac |-> mac])
  <2>1. /\ Len(raw.parts) = 3
        /\ \A i \in 1..3 : raw.parts[i].length # None
        /\ raw.parts[1].length = 16
        /\ raw.parts[3].length = 32
        /\ raw.parts[2].length > 0 /\ raw.parts[2].length % 16 = 0
    <3>1. \A i \in 1..3 : i = 1 \/ i = 2 \/ i = 3
      OBVIOUS
    <3>2. 80 > 0 /\ 80 % 16 = 0
      OBVIOUS
    <3>3. raw.parts[1].length = 16 /\ raw.parts[2].length = 80 /\ raw.parts[3].length = 32
      BY <1>2, <1>3, <1>4
    <3>4. \A i \in 1..3 : raw.parts[i].length # None
      BY <1>6, <3>1, <3>3
    <3>5. QED
      BY <1>2, <1>3, <3>2, <3>3, <3>4
  <2>2. p = Ok([iv |-> raw.parts[1], data |-> raw.parts[2], mac |-> raw.parts[3]])
    BY <1>2, <2>1, SMT DEF ParseEncrypted
  <2>3. QED
    BY <1>2, <1>3, <2>2
<1> HIDE DEF p
<1>8. p.ok /\ p.value.iv = iv /\ p.value.data = data /\ p.value.mac = mac
  BY <1>7 DEF Ok
<1>9. /\ sealed.under = key.encryption /\ sealed.plain = account.userKey
      /\ sealed.padded
  <2> HIDE DEF key
  <2>1. QED
    OBVIOUS
<1> HIDE DEF sealed
<1>10. p.value.mac.is = Hmac(key.authentication, p.value.iv, p.value.data)
  BY <1>5, <1>8 DEF hmac
<1>11. QED
  BY <1>5, <1>8, <1>9, <1>10 DEF p, raw, key

(* It opens under the account's key and under no other. *)
LEMMA SealedOpens ==
  ASSUME NEW account, NEW mk
  PROVE  LET u == UnwrapUserKey(mk, Sealed(account))
         IN  /\ u.ok <=> mk = AccountKey(account) /\ account.userKey.length = 64
             /\ u.ok => u.value = account.userKey
<1> DEFINE raw == Sealed(account)
           p == ParseEncrypted(raw)
           e == p.value
           own == StretchMasterKey(AccountKey(account))
           key == StretchMasterKey(mk)
           u == UnwrapUserKey(mk, raw)
<1>1. /\ p.ok
      /\ e.mac.is = Hmac(own.authentication, e.iv, e.data)
      /\ e.data.is.under = own.encryption
      /\ e.data.is.plain = account.userKey
      /\ e.data.is.padded
  BY SealedParses
<1>2. /\ u.ok <=> /\ p.ok
                  /\ e.mac.is = Hmac(key.authentication, e.iv, e.data)
                  /\ e.data.is.under = key.encryption /\ e.data.is.padded
                  /\ e.data.is.plain.length = 64
      /\ u.ok => u.value = e.data.is.plain
  BY UnwrapOpens
<1>3. key.authentication = own.authentication <=> mk = AccountKey(account)
  <2>1. \A k : StretchMasterKey(k).authentication = [label |-> "mac", prk |-> k]
    BY DEF StretchMasterKey
  <2> HIDE DEF key, own
  <2>2. \A k, l : [label |-> "mac", prk |-> k] = [label |-> "mac", prk |-> l] => k = l
    <3> TAKE k, l
    <3> HAVE [label |-> "mac", prk |-> k] = [label |-> "mac", prk |-> l]
    <3>1. [label |-> "mac", prk |-> k].prk = [label |-> "mac", prk |-> l].prk
      OBVIOUS
    <3>2. QED
      BY <3>1
  <2>3. QED
    BY <2>1, <2>2 DEF key, own
<1>4. \A a, b, i, d : Hmac(a, i, d) = Hmac(b, i, d) => a = b
  <2>1. \A a, i, d : Hmac(a, i, d).key = a
    BY DEF Hmac
  <2>2. QED
    BY <2>1
<1>5. mk = AccountKey(account) => key = own
  OBVIOUS
<1> HIDE DEF raw, p, e, own, key, u
<1>6. CASE mk = AccountKey(account)
  BY <1>1, <1>2, <1>5, <1>6 DEF u, raw
<1>7. CASE mk # AccountKey(account)
  <2>1. ~u.ok
    BY <1>1, <1>2, <1>3, <1>4, <1>7
  <2>2. QED
    BY <1>7, <2>1 DEF u, raw
<1>8. QED
  BY <1>6, <1>7

(* An unlock derives a key and opens what was sent with it. *)
LEMMA UnlockSteps ==
  ASSUME NEW unlock, NEW password, NEW limit, password # <<>>
  PROVE  LET u == UnlockSession(unlock, password, limit).key
             raw == WrappedUserKey(unlock)
             k == KdfFromParts(unlock.kdf)
             mk == [password |-> password, kdf |-> k.value,
                    salt |-> [sha256 |-> k.value.type = "argon2id",
                              text |-> NormalizeSalt(unlock.salt)]]
             can == /\ unlock # None /\ raw # None
                    /\ k.ok /\ ~OverBudget(k.value, limit)
                    /\ ValidateForPrelogin(k.value)
         IN  /\ can => u = UnwrapUserKey(mk, raw)
             /\ ~can => ~u.ok
<1> DEFINE s == UnlockSession(unlock, password, limit)
           raw == WrappedUserKey(unlock)
           k == KdfFromParts(unlock.kdf)
           mk == [password |-> password, kdf |-> k.value,
                  salt |-> [sha256 |-> k.value.type = "argon2id",
                            text |-> NormalizeSalt(unlock.salt)]]
           m == DeriveMasterKey(password, unlock.salt, k.value)
           d == Derived(unlock, raw, k.value, password)
<1>1. \A kind : ~Refused(kind).key.ok
  BY DEF Refused, Err
<1>2. CASE unlock = None
  <2>1. s = Refused("missing_master_password_unlock")
    BY <1>2, SMT DEF UnlockSession
  <2>2. QED
    BY <1>1, <1>2, <2>1
<1>3. CASE unlock # None /\ raw = None
  <2>1. s = Refused("missing_master_key_wrapped_user_key")
    BY <1>3, SMT DEF UnlockSession
  <2>2. QED
    BY <1>1, <1>3, <2>1
<1>4. CASE unlock # None /\ raw # None
  <2>1. CASE ~k.ok
    <3>1. s = Refused(k.value)
      BY <1>4, <2>1 DEF UnlockSession
    <3>2. QED
      BY <1>1, <2>1, <3>1
  <2>2. CASE k.ok /\ OverBudget(k.value, limit)
    <3>1. s = Refused("kdf_too_expensive")
      BY <1>4, <2>2 DEF UnlockSession
    <3>2. QED
      BY <1>1, <2>2, <3>1
  <2>3. CASE k.ok /\ ~OverBudget(k.value, limit)
    <3>1. s = d
      BY <1>4, <2>3 DEF UnlockSession
    <3>2. CASE ~ValidateForPrelogin(k.value)
      <4>1. m = Err("kdf_out_of_bounds")
        BY <3>2, SMT DEF DeriveMasterKey
      <4>2. ~m.ok
        BY <4>1 DEF Err
      <4> HIDE DEF m, k, raw
      <4>3. d = Refused(m.value)
        BY <4>2 DEF Derived, m
      <4>4. ~s.key.ok
        BY <1>1, <3>1, <4>3
      <4>5. QED
        BY <3>2, <4>4 DEF k, raw
    <3>3. CASE ValidateForPrelogin(k.value)
      <4>1. m = Ok(mk)
        BY <3>3, SMT DEF DeriveMasterKey
      <4>2. m.ok /\ m.value = mk
        <5> HIDE DEF mk
        <5>1. QED
          BY <4>1 DEF Ok
      <4> HIDE DEF mk, k, raw, m
      <4>3. d = [key |-> UnwrapUserKey(m.value, raw), ran |-> k.value]
        BY <4>2 DEF Derived, m
      <4>4. s.key = UnwrapUserKey(mk, raw)
        BY <3>1, <4>2, <4>3
      <4>5. QED
        BY <1>4, <2>3, <3>3, <4>4 DEF mk, k, raw
    <3>4. QED
      BY <3>2, <3>3
  <2>4. QED
    BY <2>1, <2>2, <2>3
<1>5. QED
  BY <1>2, <1>3, <1>4

(* What opens was not forged: it is what the client sealed. *)
LEMMA OpenedIsSealed ==
  ASSUME NEW unlock, NEW account, Unforged(unlock, account),
         NEW mk, mk.salt.text = NormalizeSalt(unlock.salt),
         WrappedUserKey(unlock) # None, UnwrapUserKey(mk, WrappedUserKey(unlock)).ok
  PROVE  WrappedUserKey(unlock) = Sealed(account)
<1> DEFINE raw == WrappedUserKey(unlock)
           p == ParseEncrypted(raw)
           e == p.value
           key == StretchMasterKey(mk)
<1>1. p.ok /\ e.mac.is = Hmac(key.authentication, e.iv, e.data)
  BY UnwrapOpens
<1>2. raw \in {unlock.wrapped, unlock.encrypted} \ {None}
  BY DEF WrappedUserKey
<1>3. \/ raw = Sealed(account)
      \/ e.mac.is # Hmac(e.mac.is.key, e.iv, e.data)
      \/ e.mac.is.key.prk.salt.text # NormalizeSalt(unlock.salt)
  <2> HIDE DEF raw
  <2>1. QED
    BY <1>1, <1>2 DEF Unforged
<1>4. key.authentication.prk = mk
  BY DEF StretchMasterKey
<1> HIDE DEF raw, p, e, key
<1>5. e.mac.is.key = key.authentication
  BY <1>1 DEF Hmac
<1>6. QED
  BY <1>1, <1>3, <1>4, <1>5 DEF raw

(* The server sent the account as it is, and it can be opened. *)
Opens(unlock, account, password, limit) ==
    /\ unlock # None /\ Announces(unlock, account)
    /\ password = account.password
    /\ Supported(account.kdf, limit)
    /\ account.userKey.length = 64

(* The key that comes of an unlock is the account's, if one does. *)
Exact(key, account, opens) ==
    /\ key.ok <=> opens
    /\ key.ok => key.value = account.userKey

(* The vault opens exactly when the server sent the account as it is. *)
LEMMA UnlockExact ==
  ASSUME NEW unlock, NEW account, NEW password, NEW limit \in Nat,
         WellFormedAccount(account), unlock # None => Unforged(unlock, account),
         password # <<>>
  PROVE  Exact(UnlockSession(unlock, password, limit).key, account,
               Opens(unlock, account, password, limit))
<1> DEFINE u == UnlockSession(unlock, password, limit).key
           raw == WrappedUserKey(unlock)
           k == KdfFromParts(unlock.kdf)
           text == NormalizeSalt(unlock.salt)
           salt == [sha256 |-> k.value.type = "argon2id", text |-> text]
           mk == [password |-> password, kdf |-> k.value, salt |-> salt]
           can == /\ unlock # None /\ raw # None
                  /\ k.ok /\ ~OverBudget(k.value, limit)
                  /\ ValidateForPrelogin(k.value)
           own == [sha256 |-> account.kdf.type = "argon2id", text |-> account.email]
           opens == /\ unlock # None /\ Announces(unlock, account)
                    /\ password = account.password
                    /\ Supported(account.kdf, limit)
                    /\ account.userKey.length = 64
<1>1. (can => u = UnwrapUserKey(mk, raw)) /\ (~can => ~u.ok)
  BY UnlockSteps
<1>2. AccountKey(account) = [password |-> account.password, kdf |-> account.kdf, salt |-> own]
  BY DEF AccountKey
<1>3. mk.password = password /\ mk.kdf = k.value /\ mk.salt = salt
  <2> HIDE DEF salt, k
  <2>1. QED
    OBVIOUS
<1>4. salt.text = text /\ own.text = account.email
  <2> HIDE DEF text, k
  <2>1. QED
    OBVIOUS
<1>5. account.kdf \in [type : {"pbkdf2"}, iterations : Nat]
                         \cup [type : {"argon2id"}, iterations : Nat, memory : Nat, parallelism : Nat]
  BY DEF WellFormedAccount
<1>6. k.ok /\ k.value = account.kdf <=> KdfOf(unlock.kdf, account.kdf)
  BY <1>5, KdfSent
<1>7. Sealed(account) # None
  BY DEF WellFormedAccount
<1>8. ASSUME unlock # None
      PROVE  Announces(unlock, account) <=>
             /\ raw = Sealed(account)
             /\ text = account.email
             /\ KdfOf(unlock.kdf, account.kdf)
  <2> DEFINE s == unlock.salt
             around == \E i \in 1..Len(s) + 1, j \in 0..Len(s) :
                          /\ Lower(SubSeq(s, i, j)) = account.email
                          /\ \A n \in DOMAIN s \ (i..j) : s[n] \in {"sp", "nl"}
             sent == \/ unlock.wrapped = Sealed(account)
                     \/ unlock.wrapped = None /\ unlock.encrypted = Sealed(account)
  <2>1. sent <=> raw = Sealed(account)
    BY <1>7 DEF WrappedUserKey
  <2>2. text = account.email <=> around
    <3>1. IsSequence(s)
      BY <1>8 DEF Unforged
    <3>2. /\ IsSequence(account.email)
          /\ account.email # <<>> =>
                account.email[1] \notin White /\ account.email[Len(account.email)] \notin White
      BY DEF WellFormedAccount, White
    <3> HIDE DEF s
    <3>3. NormalizeSalt(s) = account.email <=>
          \E i \in 1..Len(s) + 1, j \in 0..Len(s) :
             /\ Lower(SubSeq(s, i, j)) = account.email
             /\ \A n \in DOMAIN s \ (i..j) : s[n] \in White
      BY <3>1, <3>2, SaltOf
    <3>4. QED
      BY <3>3 DEF White, s
  <2>3. Announces(unlock, account) <=> sent /\ around /\ KdfOf(unlock.kdf, account.kdf)
    BY DEF Announces, KdfOf
  <2> HIDE DEF sent, around, raw, text
  <2>4. QED
    BY <2>1, <2>2, <2>3
<1> HIDE DEF u, raw, k, text, salt, mk, own, can
<1>9. ASSUME u.ok PROVE opens /\ u.value = account.userKey
  <2>1. can /\ u = UnwrapUserKey(mk, raw)
    BY <1>1, <1>9
  <2>2. unlock # None /\ raw # None /\ k.ok /\ ~OverBudget(k.value, limit)
        /\ ValidateForPrelogin(k.value)
    BY <2>1 DEF can
  <2>3. raw = Sealed(account)
    BY <1>3, <1>4, <1>9, <2>1, <2>2, OpenedIsSealed DEF raw, text
  <2>4. /\ mk = AccountKey(account) /\ account.userKey.length = 64
        /\ u.value = account.userKey
    BY <1>9, <2>1, <2>3, SealedOpens
  <2>5. password = account.password /\ k.value = account.kdf /\ salt = own
    BY <1>2, <1>3, <2>4
  <2>6. text = account.email
    BY <1>4, <2>5
  <2>7. Announces(unlock, account)
    BY <1>6, <1>8, <2>2, <2>3, <2>5, <2>6
  <2>8. Supported(account.kdf, limit)
    <3>1. account.kdf.type \in {"pbkdf2", "argon2id"}
      BY <1>5
    <3>2. ValidateForPrelogin(account.kdf) /\ ~OverBudget(account.kdf, limit)
      BY <2>2, <2>5
    <3>3. account.kdf.type = "argon2id" => ~(account.kdf.memory > limit)
      BY <3>2 DEF OverBudget
    <3>4. QED
      BY <3>1, <3>2, <3>3, SupportedIsValid
  <2>9. QED
    BY <2>2, <2>4, <2>5, <2>7, <2>8
<1>10. ASSUME opens PROVE u.ok
  <2>1. raw = Sealed(account) /\ text = account.email /\ k.ok /\ k.value = account.kdf
    BY <1>6, <1>8, <1>10
  <2>2. ValidateForPrelogin(account.kdf) /\ ~OverBudget(account.kdf, limit)
    BY <1>5, <1>10, ValidIsSupported
  <2>3. u = UnwrapUserKey(mk, raw)
    BY <1>1, <1>7, <1>10, <2>1, <2>2 DEF can
  <2>4. salt = own
    BY <2>1 DEF salt, own
  <2>5. mk = AccountKey(account)
    BY <1>2, <1>10, <2>1, <2>4 DEF mk
  <2>6. QED
    BY <1>10, <2>1, <2>3, <2>5, SealedOpens
<1>11. QED
  BY <1>9, <1>10 DEF u, Exact, Opens

(* The pod's account and the server's answer are what the server holds.  *)
PodInv ==
    /\ WellFormedAccount(pod.account)
    /\ pod.unlock # None => Unforged(pod.unlock, pod.account)

(* They never change. *)
LEMMA PodInvariant == Spec => []PodInv
<1>1. Init => PodInv
  <2> SUFFICES ASSUME Init PROVE PodInv
    OBVIOUS
  <2>1. PICK case \in Cases :
           pod = [args |-> case.args, account |-> case.account, unlock |-> case.unlock]
    BY DEF Init
  <2>2. pod.account = case.account /\ pod.unlock = case.unlock
    BY <2>1
  <2>3. /\ WellFormedAccount(case.account)
        /\ case.unlock # None => Unforged(case.unlock, case.account)
    BY ServerAssumption
  <2>4. QED
    BY <2>2, <2>3 DEF PodInv
<1>2. ASSUME [Next]_vars PROVE pod' = pod
  <2>1. \A from, to : Continue(from, to) => pod' = pod
    BY DEF Continue
  <2>2. \A from : Refuse(from) => pod' = pod
    BY DEF Refuse
  <2>3. CASE Start \/ Healthcheck
    BY <2>1, <2>2, <2>3 DEF Start, Healthcheck
  <2>4. CASE ReadCredentials
    BY <2>1, <2>2, <2>4 DEF ReadCredentials, ReadCredential
  <2>5. CASE CheckOptions \/ LoadCertificates \/ BuildClient
    BY <2>1, <2>2, <2>5 DEF CheckOptions, LoadCertificates, BuildClient
  <2>6. CASE SelectorPolicy \/ ConfigureAuth
    BY <2>1, <2>2, <2>6 DEF SelectorPolicy, ConfigureAuth
  <2>7. CASE ReadPolicies
    BY <2>1, <2>2, <2>7 DEF ReadPolicies, ReadPolicy
  <2>8. CASE Spawn \/ Bind
    BY <2>1, <2>2, <2>8 DEF Spawn, Bind
  <2>9. CASE FirstUnlock
    BY <2>9 DEF FirstUnlock
  <2>10. CASE Crash \/ Restart \/ Swap
    BY <2>10 DEF Crash, Restart, Swap
  <2>11. CASE UNCHANGED vars
    BY <2>11 DEF vars
  <2>12. QED
    BY <1>2, <2>3, <2>4, <2>5, <2>6, <2>7, <2>8, <2>9, <2>10, <2>11 DEF Next, Step, Idle
<1>3. PodInv /\ [Next]_vars => PodInv'
  BY <1>2 DEF PodInv
<1>4. QED
  BY <1>1, <1>3, PTL DEF Spec

(* The vault opens if, and only if, the server sent the account's sealed   *)
(* key with supported parameters and the mounted password is the           *)
(* account's, and what opens is the account's key: unlock_session verifies *)
(* the MAC under the key it derives from the normalised salt.              *)
THEOREM UnlocksExactlyHolds == Spec => []UnlocksExactly
<1>1. ASSUME ProcessInv, PodInv PROVE UnlocksExactly
  <2> SUFFICES ASSUME session # None PROVE UnlocksExactly
    BY DEF UnlocksExactly
  <2> DEFINE password == app.credentials.master_password
             limit == app.budget
             n == "master_password"
  <2>1. pc = "serving" /\ session.unlock = UnlockSession(pod.unlock, password, limit)
    BY <1>1 DEF ProcessInv, SessionInv
  <2>2. limit \in Nat
    BY <1>1, <2>1 DEF ProcessInv, FilesInv, WellFormedArgs, ClientInv, PastClient, PastSelector,
                      PastPolicies, PastAuth
  <2>3. password # <<>>
    <3>1. n \in Credentials /\ pc \in PastCredential(n)
      BY <2>1 DEF PastCredential, Credentials, PastOptions, PastCertificates, PastClient,
                  PastSelector, PastPolicies, PastAuth
    <3> HIDE DEF n
    <3>2. PICK f \in held :
             /\ SensitiveArg(pod.args[n], f[n]).ok
             /\ app.credentials[n] = SensitiveArg(pod.args[n], f[n]).value
      BY <1>1, <3>1 DEF ProcessInv, CredentialsInv
    <3>3. WellFormedArgs(pod.args) /\ WellFormedFiles(f)
      BY <1>1 DEF ProcessInv, FilesInv
    <3>4. ProperArg(pod.args[n])
      BY <3>1, <3>3, ProperSecrets
    <3>5. SensitiveArg(pod.args[n], f[n]).value # <<>>
      BY <3>2, <3>4, SecretNotEmpty
    <3>6. QED
      BY <3>2, <3>5 DEF n
  <2> HIDE DEF password, limit
  <2>4. /\ WellFormedAccount(pod.account)
        /\ pod.unlock # None => Unforged(pod.unlock, pod.account)
    BY <1>1 DEF PodInv
  <2>5. Exact(session.unlock.key, pod.account, Opens(pod.unlock, pod.account, password, limit))
    BY <2>1, <2>2, <2>3, <2>4, UnlockExact
  <2>6. QED
    BY <2>5 DEF UnlocksExactly, Exact, Opens, password, limit
<1>2. QED
  BY <1>1, ProcessInvariant, PodInvariant, PTL

=============================================================================
