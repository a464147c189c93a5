----------------------------- MODULE Walk_proofs -----------------------------
(***************************************************************************)
(* What a listing returns, for any tree, any limits, and any changes and   *)
(* failures while it is under way.                                         *)
(***************************************************************************)
EXTENDS Walk, SequenceTheorems, TLAPS

-----------------------------------------------------------------------------
(* A list with its last element replaced. *)

LEMMA FrontOf ==
  ASSUME NEW S, NEW s \in Seq(S), s # << >>
  PROVE  /\ Front(s) \in Seq(S) /\ Len(Front(s)) = Len(s) - 1 /\ Last(s) \in S
         /\ Len(s) \in Nat \ {0}
         /\ \A i \in 1 .. Len(s) - 1 : Front(s)[i] = s[i]
<1>1. Len(s) \in Nat \ {0}
  BY EmptySeq
<1>2. \A i \in 1 .. Len(s) - 1 : s[i] \in S
  BY <1>1, ElementOfSeq
<1>3. /\ Front(s) \in Seq(S) /\ Len(Front(s)) = Len(s) - 1
      /\ \A i \in 1 .. Len(s) - 1 : Front(s)[i] = s[i]
  <2> DEFINE n == Len(s) - 1
             f == SubSeq(s, 1, n)
  <2>1. n \in Nat /\ n - 1 + 1 = n
    BY <1>1
  <2> HIDE DEF n
  <2>2. /\ f \in Seq(S) /\ Len(f) = IF 1 =< n THEN n - 1 + 1 ELSE 0
        /\ \A i \in 1 .. n - 1 + 1 : f[i] = s[1 + i - 1]
    BY <1>2, <2>1, SubSeqProperties DEF n
  <2> QED
    BY <2>1, <2>2 DEF Front, n
<1> QED
  BY <1>1, <1>3, ElementOfSeq DEF Last

LEMMA ReplaceLast ==
  ASSUME NEW S, NEW s \in Seq(S), s # << >>, NEW x \in S
  PROVE  LET t == Append(Front(s), x) IN
           /\ t \in Seq(S) /\ Len(t) = Len(s) /\ t[Len(s)] = x
           /\ \A i \in 1 .. Len(s) - 1 : t[i] = s[i]
<1> DEFINE f == Front(s)
<1>1. /\ f \in Seq(S) /\ Len(f) = Len(s) - 1 /\ Len(s) \in Nat \ {0}
      /\ \A i \in 1 .. Len(s) - 1 : f[i] = s[i]
  BY FrontOf
<1> HIDE DEF f
<1>2. /\ Append(f, x) \in Seq(S) /\ Len(Append(f, x)) = Len(s) /\ Append(f, x)[Len(s)] = x
      /\ \A i \in 1 .. Len(s) - 1 : Append(f, x)[i] = s[i]
  BY <1>1, AppendProperties
<1> QED
  BY <1>2 DEF f

LEMMA ConcatParts ==
  ASSUME NEW S, NEW s \in Seq(S), NEW t \in Seq(S)
  PROVE  /\ s \o t \in Seq(S) /\ Len(s \o t) = Len(s) + Len(t)
         /\ \A i \in 1 .. Len(s) : (s \o t)[i] = s[i]
         /\ \A i \in 1 .. Len(t) : (s \o t)[Len(s) + i] = t[i]
<1>1. /\ s \o t \in Seq(S) /\ Len(s \o t) = Len(s) + Len(t)
      /\ \A i \in 1 .. Len(s) + Len(t) :
           (s \o t)[i] = IF i =< Len(s) THEN s[i] ELSE t[i - Len(s)]
  BY ConcatProperties
<1>2. Len(s) \in Nat /\ Len(t) \in Nat
  OBVIOUS
<1>3. ASSUME NEW i \in 1 .. Len(t) PROVE (s \o t)[Len(s) + i] = t[i]
  <2>1. /\ Len(s) + i \in 1 .. Len(s) + Len(t) /\ ~(Len(s) + i =< Len(s))
        /\ Len(s) + i - Len(s) = i
    BY <1>2
  <2> QED
    BY <1>1, <2>1
<1> QED
  BY <1>1, <1>2, <1>3

LEMMA ToSetConcat ==
  ASSUME NEW S, NEW s \in Seq(S), NEW t \in Seq(S)
  PROVE  ToSet(s) \subseteq ToSet(s \o t) /\ ToSet(t) \subseteq ToSet(s \o t)
<1>1. \A i \in DOMAIN s : i \in DOMAIN (s \o t) /\ (s \o t)[i] = s[i]
  BY ConcatParts
<1>2. ASSUME NEW i \in DOMAIN t
      PROVE  Len(s) + i \in DOMAIN (s \o t) /\ (s \o t)[Len(s) + i] = t[i]
  BY ConcatParts
<1> QED
  BY <1>1, <1>2 DEF ToSet

LEMMA PushLast ==
  ASSUME NEW S, NEW s \in Seq(S), s # << >>, NEW x \in S, NEW y \in S
  PROVE  LET t == Front(s) \o <<x, y>> IN
           /\ t \in Seq(S) /\ Len(t) = Len(s) + 1
           /\ t[Len(s)] = x /\ t[Len(s) + 1] = y
           /\ \A i \in 1 .. Len(s) - 1 : t[i] = s[i]
<1> DEFINE f == Front(s)
           t == f \o <<x, y>>
<1>1. /\ f \in Seq(S) /\ Len(f) = Len(s) - 1 /\ Len(s) \in Nat \ {0}
      /\ \A i \in 1 .. Len(s) - 1 : f[i] = s[i]
  BY FrontOf
<1> HIDE DEF f
<1>2. <<x, y>> \in Seq(S) /\ Len(<<x, y>>) = 2 /\ <<x, y>>[1] = x /\ <<x, y>>[2] = y
  OBVIOUS
<1>3. /\ t \in Seq(S) /\ Len(t) = Len(s) + 1
      /\ \A i \in 1 .. Len(s) - 1 : t[i] = s[i]
      /\ t[Len(s) - 1 + 1] = x /\ t[Len(s) - 1 + 2] = y
  BY <1>1, <1>2, ConcatParts
<1> HIDE DEF t
<1>4. t[Len(s)] = x /\ t[Len(s) + 1] = y
  <2>1. Len(s) - 1 + 1 = Len(s) /\ Len(s) - 1 + 2 = Len(s) + 1
    BY <1>1
  <2> QED
    BY <1>3, <2>1
<1> QED
  BY <1>3, <1>4 DEF f, t

-----------------------------------------------------------------------------
(* Paths. *)

LEMMA PrefixOf ==
  ASSUME NEW S, NEW s \in Seq(S), NEW t \in Seq(S)
  PROVE  IsPrefix(s, t) <=> Len(s) =< Len(t) /\ s = SubSeq(t, 1, Len(s))
BY SubSeqFull DEF IsPrefix

LEMMA SubPath ==
  ASSUME NEW S, NEW t \in Seq(S), NEW n \in 0 .. Len(t)
  PROVE  /\ SubSeq(t, 1, n) \in Seq(S) /\ Len(SubSeq(t, 1, n)) = n
         /\ \A i \in 1 .. n : SubSeq(t, 1, n)[i] = t[i]
         /\ IsPrefix(SubSeq(t, 1, n), t)
<1>1. Len(t) \in Nat /\ \A i \in 1 .. n : t[i] \in S
  BY ElementOfSeq
<1>2. /\ SubSeq(t, 1, n) \in Seq(S) /\ Len(SubSeq(t, 1, n)) = n
      /\ \A i \in 1 .. n : SubSeq(t, 1, n)[i] = t[i]
  BY <1>1, SubSeqProperties
<1>3. IsPrefix(SubSeq(t, 1, n), t)
  <2> DEFINE s == SubSeq(t, 1, n)
  <2>1. s \in Seq(S) /\ Len(s) =< Len(t) /\ s = SubSeq(t, 1, Len(s))
    BY <1>1, <1>2
  <2> HIDE DEF s
  <2>2. IsPrefix(s, t)
    BY <2>1, PrefixOf
  <2> QED
    BY <2>2 DEF s
<1> QED
  BY <1>2, <1>3

LEMMA PrefixByElement ==
  ASSUME NEW S, NEW s \in Seq(S), NEW t \in Seq(S)
  PROVE  IsPrefix(s, t) <=> Len(s) =< Len(t) /\ \A i \in 1 .. Len(s) : s[i] = t[i]
<1>1. ASSUME Len(s) =< Len(t), \A i \in 1 .. Len(s) : s[i] = t[i] PROVE s = SubSeq(t, 1, Len(s))
  BY <1>1, SubPath, SeqEqual
<1> QED
  BY <1>1, PrefixOf, SubPath

\* Of two prefixes of a path, the shorter is one of the longer.
LEMMA PrefixChain ==
  ASSUME NEW S, NEW r \in Seq(S), NEW s \in Seq(S), NEW t \in Seq(S)
  PROVE  /\ IsPrefix(r, s) /\ IsPrefix(s, t) => IsPrefix(r, t)
         /\ IsPrefix(r, t) /\ IsPrefix(s, t) /\ Len(r) =< Len(s) => IsPrefix(r, s)
         /\ IsPrefix(r, t) /\ Len(r) = Len(t) => r = t
<1>1. /\ IsPrefix(r, s) <=> Len(r) =< Len(s) /\ \A i \in 1 .. Len(r) : r[i] = s[i]
      /\ IsPrefix(s, t) <=> Len(s) =< Len(t) /\ \A i \in 1 .. Len(s) : s[i] = t[i]
      /\ IsPrefix(r, t) <=> Len(r) =< Len(t) /\ \A i \in 1 .. Len(r) : r[i] = t[i]
  BY PrefixByElement
<1>2. Len(r) \in Nat /\ Len(s) \in Nat /\ Len(t) \in Nat
  OBVIOUS
<1> QED
  BY <1>1, <1>2, SeqEqual

-----------------------------------------------------------------------------
(* The tree: a file or folder lies in folders that are there. *)

Rooted(T) ==
  \A h \in T : \A n \in 1 .. Len(h) - 1 : SubSeq(h, 1, n) \in T /\ h[n] \in Folder

LEMMA PathType ==
  ASSUME NEW h \in Href
  PROVE  h \in Seq(Name) /\ Len(h) \in Nat \ {0} /\ Last(h) \in Name
BY EmptySeq, ElementOfSeq DEF Href, Last

LEMMA SubHref ==
  ASSUME NEW h \in Href, NEW n \in 1 .. Len(h)
  PROVE  SubSeq(h, 1, n) \in Href
BY SubPath, PathType DEF Href

\* What lies above a file is a folder of the tree.
LEMMA Above ==
  ASSUME NEW T \in SUBSET Href, Rooted(T), NEW h \in T, NEW r \in Href, IsPrefix(r, h)
  PROVE  /\ r \in T
         /\ r = h \/ (Len(r) < Len(h) /\ IsDir(r))
<1>1. /\ h \in Seq(Name) /\ r \in Seq(Name) /\ Len(h) \in Nat /\ Len(r) \in Nat \ {0}
  BY PathType
<1>2. /\ Len(r) =< Len(h) /\ r = SubSeq(h, 1, Len(r))
      /\ \A i \in 1 .. Len(r) : r[i] = h[i]
  BY <1>1, PrefixOf, PrefixByElement
<1>3. CASE Len(r) = Len(h)
  BY <1>1, <1>2, <1>3, SubSeqFull
<1>4. CASE Len(r) < Len(h)
  <2>1. Len(r) \in 1 .. Len(h) - 1
    BY <1>1, <1>4
  <2>2. r \in T /\ h[Len(r)] \in Folder
    BY <2>1, <1>2 DEF Rooted
  <2> QED
    BY <2>2, <1>1, <1>2, <1>4 DEF IsDir, Last
<1> QED
  BY <1>1, <1>2, <1>3, <1>4

LEMMA RootedWithout ==
  ASSUME tree \in SUBSET Href, Rooted(tree), NEW h \in tree,
         NEW k \in tree \ Below(h), NEW n \in 1 .. Len(k) - 1
  PROVE  SubSeq(k, 1, n) \in tree \ Below(h) /\ k[n] \in Folder
<1>1. SubSeq(k, 1, n) \in tree /\ k[n] \in Folder
  BY DEF Rooted
<1>2. h \in Seq(Name) /\ k \in Seq(Name) /\ Len(k) \in Nat /\ ~IsPrefix(h, k)
  BY PathType DEF Below
<1> DEFINE p == SubSeq(k, 1, n)
<1>3. p \in Seq(Name) /\ IsPrefix(p, k)
  BY <1>2, SubPath
<1> HIDE DEF p
<1>4. ~IsPrefix(h, p)
  BY <1>2, <1>3, PrefixChain
<1> QED
  BY <1>1, <1>4 DEF Below, p

-----------------------------------------------------------------------------
(* A file or folder that is moved, and all below it. *)

There(h, d, k) == d \o SubSeq(k, Len(h), Len(k))
Moved(h, d, T) == (T \ Below(h)) \cup {There(h, d, k) : k \in T \cap Below(h)}

LEMMA ThereType ==
  ASSUME NEW h \in Href, NEW k \in Href, IsPrefix(h, k), NEW d \in Href \cup {<< >>}
  PROVE  /\ There(h, d, k) \in Href
         /\ Len(There(h, d, k)) = Len(d) + (Len(k) - Len(h) + 1)
         /\ \A i \in 1 .. Len(d) : There(h, d, k)[i] = d[i]
         /\ \A i \in Len(h) .. Len(k) : There(h, d, k)[Len(d) + (i - Len(h) + 1)] = k[i]
<1>1. /\ h \in Seq(Name) /\ k \in Seq(Name) /\ d \in Seq(Name)
      /\ Len(h) \in Nat \ {0} /\ Len(k) \in Nat /\ Len(d) \in Nat /\ Len(h) =< Len(k)
  BY PathType, PrefixOf, EmptySeq
<1> DEFINE m == Len(h)
           n == Len(k)
           b == SubSeq(k, m, n)
           t == d \o b
<1>2. m \in Int /\ n \in Int /\ m =< n /\ \A i \in m .. n : k[i] \in Name
  BY <1>1, ElementOfSeq
<1>3. b \in Seq(Name) /\ Len(b) = n - m + 1 /\ \A i \in 1 .. n - m + 1 : b[i] = k[m + i - 1]
  <2> HIDE DEF m, n
  <2> QED
    BY <1>2, SubSeqProperties
<1> HIDE DEF b, t
<1>4. /\ t \in Seq(Name) /\ Len(t) = Len(d) + (n - m + 1)
      /\ \A i \in 1 .. Len(d) : t[i] = d[i]
      /\ \A i \in 1 .. n - m + 1 : t[Len(d) + i] = b[i]
  <2>1. /\ t \in Seq(Name) /\ Len(t) = Len(d) + Len(b)
        /\ \A i \in 1 .. Len(d) : t[i] = d[i]
        /\ \A i \in 1 .. Len(b) : t[Len(d) + i] = b[i]
    <3>1. b \in Seq(Name) /\ d \in Seq(Name)
      BY <1>1, <1>3
    <3> QED
      BY <3>1, ConcatParts DEF t
  <2> QED
    BY <2>1, <1>3
<1>5. ASSUME NEW i \in m .. n PROVE t[Len(d) + (i - m + 1)] = k[i]
  <2> DEFINE j == i - m + 1
  <2>1. j \in 1 .. n - m + 1 /\ m + j - 1 = i
    BY <1>1
  <2> HIDE DEF j
  <2>2. b[j] = k[i] /\ t[Len(d) + j] = b[j]
    BY <1>3, <1>4, <2>1
  <2> QED
    BY <2>2 DEF j
<1>6. t # << >>
  <2>1. Len(t) # 0
    BY <1>1, <1>4
  <2> QED
    BY <2>1
<1> QED
  BY <1>4, <1>5, <1>6 DEF There, Href, t, b, m, n

LEMMA RootedMoved ==
  ASSUME tree \in SUBSET Href, Rooted(tree), NEW h \in tree, NEW d \in tree \cup {<< >>},
         d # << >> => IsDir(d) /\ ~IsPrefix(h, d)
  PROVE  Rooted(Moved(h, d, tree))
<1> DEFINE T == Moved(h, d, tree)
<1> SUFFICES ASSUME NEW k \in T, NEW n \in 1 .. Len(k) - 1
             PROVE  SubSeq(k, 1, n) \in T /\ k[n] \in Folder
  BY DEF Rooted
<1> HIDE DEF T
<1>1. CASE k \in tree \ Below(h)
  BY <1>1, RootedWithout DEF Moved, T
<1>2. ASSUME NEW q \in tree \cap Below(h), k = There(h, d, q)
      PROVE  SubSeq(k, 1, n) \in T /\ k[n] \in Folder
  <2>1. /\ h \in Href /\ q \in Href /\ d \in Href \cup {<< >>} /\ IsPrefix(h, q)
        /\ h \in Seq(Name) /\ q \in Seq(Name) /\ d \in Seq(Name) /\ k \in Href
        /\ Len(h) \in Nat \ {0} /\ Len(q) \in Nat /\ Len(d) \in Nat /\ Len(h) =< Len(q)
    <3>1. h \in Href /\ q \in Href /\ d \in Href \cup {<< >>} /\ IsPrefix(h, q)
      BY <1>2 DEF Below
    <3>2. k \in Href
      BY <3>1, <1>2, ThereType
    <3>3. h \in Seq(Name) /\ q \in Seq(Name) /\ Len(h) \in Nat \ {0} /\ Len(q) \in Nat
      BY <3>1, PathType
    <3>4. d \in Seq(Name) /\ Len(d) \in Nat
      BY <3>1, EmptySeq DEF Href
    <3>5. Len(h) =< Len(q)
      BY <3>1, <3>3, PrefixOf
    <3> QED
      BY <3>1, <3>2, <3>3, <3>4, <3>5
  <2>2. /\ Len(k) = Len(d) + (Len(q) - Len(h) + 1)
        /\ \A i \in 1 .. Len(d) : k[i] = d[i]
        /\ \A i \in Len(h) .. Len(q) : k[Len(d) + (i - Len(h) + 1)] = q[i]
    <3>1. /\ Len(There(h, d, q)) = Len(d) + (Len(q) - Len(h) + 1)
          /\ \A i \in 1 .. Len(d) : There(h, d, q)[i] = d[i]
          /\ \A i \in Len(h) .. Len(q) : There(h, d, q)[Len(d) + (i - Len(h) + 1)] = q[i]
      BY <2>1, ThereType
    <3> QED
      BY <3>1, <1>2, Zenon
  <2> DEFINE p == SubSeq(k, 1, n)
  <2>3. p \in Seq(Name) /\ Len(p) = n /\ \A i \in 1 .. n : p[i] = k[i]
    BY <2>1, PathType, SubPath
  <2> HIDE DEF p
  <2>4. CASE n =< Len(d)
    <3>1. d \in tree /\ IsDir(d) /\ ~IsPrefix(h, d) /\ n \in 1 .. Len(d)
      BY <2>1, <2>4, EmptySeq
    <3>2. IsPrefix(p, d)
      <4>1. Len(p) =< Len(d) /\ \A i \in 1 .. Len(p) : p[i] = d[i]
        <5>1. n \in Nat /\ Len(d) \in Nat
          BY <2>1, <2>2
        <5> QED
          BY <5>1, <2>2, <2>3, <2>4
      <4> QED
        BY <2>1, <2>3, <4>1, PrefixByElement
    <3>3. p \in Href
      BY <2>3 DEF Href
    <3>4. p \in tree
      BY <3>1, <3>2, <3>3, Above
    <3>5. ~IsPrefix(h, p)
      BY <2>1, <2>3, <3>1, <3>2, PrefixChain
    <3>6. k[n] \in Folder
      <4>1. CASE n = Len(d)
        BY <4>1, <2>2, <3>1 DEF IsDir, Last
      <4>2. CASE n < Len(d)
        <5>1. n \in 1 .. Len(d) - 1
          BY <4>2, <2>1
        <5> QED
          BY <5>1, <2>2, <3>1 DEF Rooted
      <4> QED
        BY <4>1, <4>2, <2>4, <2>1
    <3> QED
      BY <3>4, <3>5, <3>6 DEF Moved, Below, p, T
  <2>5. CASE n > Len(d)
    <3> DEFINE m == Len(h) + (n - Len(d)) - 1
               r == SubSeq(q, 1, m)
    <3>1. m \in Len(h) .. Len(q) - 1 /\ n = Len(d) + (m - Len(h) + 1)
      BY <2>1, <2>2, <2>5
    <3> HIDE DEF m
    <3>2. m \in 1 .. Len(q) - 1 /\ r \in tree /\ q[m] \in Folder
      BY <3>1, <2>1, <1>2 DEF Rooted
    <3>3. /\ r \in Seq(Name) /\ Len(r) = m /\ \A i \in 1 .. m : r[i] = q[i]
          /\ IsPrefix(r, q)
      BY <3>2, <2>1, SubPath
    <3> HIDE DEF r
    <3>4. IsPrefix(h, r) /\ r \in Href
      BY <3>1, <3>2, <3>3, <2>1, PrefixChain
    <3>5. /\ Len(There(h, d, r)) = Len(d) + (m - Len(h) + 1)
          /\ There(h, d, r) \in Seq(Name)
          /\ \A i \in 1 .. Len(d) : There(h, d, r)[i] = d[i]
          /\ \A i \in Len(h) .. m : There(h, d, r)[Len(d) + (i - Len(h) + 1)] = r[i]
      BY <2>1, <3>3, <3>4, ThereType, PathType
    <3>6. ASSUME NEW j \in 1 .. n PROVE There(h, d, r)[j] = k[j]
      <4>1. CASE j =< Len(d)
        BY <4>1, <2>1, <2>2, <3>5
      <4>2. CASE j > Len(d)
        <5> DEFINE i == Len(h) + (j - Len(d)) - 1
        <5>1. i \in Len(h) .. m /\ i \in 1 .. m /\ i \in Len(h) .. Len(q)
              /\ j = Len(d) + (i - Len(h) + 1)
          BY <4>2, <2>1, <3>1
        <5> HIDE DEF i
        <5>2. There(h, d, r)[j] = r[i] /\ k[j] = q[i] /\ r[i] = q[i]
          BY <5>1, <3>5, <2>2, <3>3
        <5> QED
          BY <5>2
      <4> QED
        BY <4>1, <4>2, <2>1
    <3>7. p = There(h, d, r)
      BY <2>3, <3>1, <3>5, <3>6, SeqEqual
    <3>8. k[n] = q[m]
      BY <3>1, <2>1, <2>2
    <3> QED
      BY <3>2, <3>4, <3>7, <3>8 DEF Moved, Below, p, T
  <2> QED
    BY <2>1, <2>4, <2>5
<1> QED
  BY <1>1, <1>2 DEF Moved, T

-----------------------------------------------------------------------------
(* Type correctness, with what the tree and the tag's id are. *)

LEMMA Bounds ==
  MaxDepth \in Nat /\ MaxFiles \in Nat \ {0} /\ MaxEvents \in Nat /\ Folder \cap Image = {}
BY WalkAssumption

USE Bounds

\* One of expand's calls.
Call == [todo : SUBSET Href, files : Seq(Href)]

\* An id is stale once the tag is deleted; without the tag nothing carries it.
TagOK ==
  /\ id = "stale" => mode = "tag" /\ ~tag
  /\ mode = "tag" /\ ~tag => marked = {}
  /\ pc = "create" => id = "none" /\ ~tag

Typed == TypeOK /\ Rooted(tree) /\ TagOK

LEMMA CutType ==
  ASSUME NEW f \in Seq(Href)
  PROVE  /\ Cut(f) \in Seq(Href) /\ Len(Cut(f)) =< MaxFiles
         /\ Len(f) >= MaxFiles => Len(Cut(f)) = MaxFiles
         /\ Len(f) < MaxFiles => Cut(f) = f
<1>1. CASE Len(f) > MaxFiles
  BY <1>1, SubPath DEF Cut
<1>2. CASE Len(f) =< MaxFiles
  BY <1>2, SubSeqFull DEF Cut
<1> QED
  BY <1>1, <1>2

LEMMA TopType ==
  ASSUME TypeOK, pc = "walk"
  PROVE  /\ level \in Seq(Call) /\ level # << >> /\ Len(level) \in 1 .. MaxDepth + 1
         /\ Top \in Call /\ Top = level[Len(level)] /\ Depth = Len(level) - 1
         /\ Top.todo \in SUBSET Href /\ Top.files \in Seq(Href)
<1>1. level \in Seq(Call) /\ level # << >> /\ Len(level) =< MaxDepth + 1
  BY DEF TypeOK, Call
<1>2. Len(level) \in Nat \ {0} /\ Top \in Call
  BY <1>1, FrontOf DEF Top
<1> QED
  BY <1>1, <1>2 DEF Top, Last, Depth, Call

LEMMA RestType ==
  ASSUME TypeOK, pc = "walk", NEW h
  PROVE  Rest(h) \in Call /\ Rest(h).todo = Top.todo \ {h} /\ Rest(h).files = Top.files
BY TopType DEF Rest, Call

\* What each step of expand makes of its calls.
LEMMA TakeFileCalls ==
  ASSUME TypeOK, pc = "walk", NEW h \in Top.todo, TakeFile(h)
  PROVE  /\ level' \in Seq(Call) /\ Len(level') = Len(level)
         /\ \A i \in 1 .. Len(level) - 1 : level'[i] = level[i]
         /\ level'[Len(level)].todo = Top.todo \ {h}
         /\ level'[Len(level)].files = IF Last(h) \in Image THEN Append(Top.files, h) ELSE Top.files
<1> DEFINE x == [Rest(h) EXCEPT !.files = IF Last(h) \in Image THEN Append(@, h) ELSE @]
<1>1. Rest(h) \in Call /\ Rest(h).todo = Top.todo \ {h} /\ Rest(h).files = Top.files /\ h \in Href
  BY RestType, TopType
<1>2. x \in Call /\ x.todo = Rest(h).todo
      /\ x.files = IF Last(h) \in Image THEN Append(Rest(h).files, h) ELSE Rest(h).files
  <2> DEFINE f == IF Last(h) \in Image THEN Append(Rest(h).files, h) ELSE Rest(h).files
  <2>1. x = [Rest(h) EXCEPT !.files = f]
    OBVIOUS
  <2>2. f \in Seq(Href)
    BY <1>1, AppendProperties DEF Call
  <2> HIDE DEF f, x
  <2>3. x \in Call /\ x.todo = Rest(h).todo /\ x.files = f
    BY <1>1, <2>1, <2>2 DEF Call
  <2> QED
    BY <2>3 DEF f
<1>3. level' = Append(Front(level), x)
  BY DEF TakeFile
<1> HIDE DEF x
<1>4. level \in Seq(Call) /\ level # << >>
  BY TopType
<1> QED
  BY <1>1, <1>2, <1>3, <1>4, ReplaceLast

LEMMA PassCalls ==
  ASSUME TypeOK, pc = "walk", NEW h \in Top.todo, level' = Append(Front(level), Rest(h))
  PROVE  /\ level' \in Seq(Call) /\ Len(level') = Len(level)
         /\ \A i \in 1 .. Len(level) - 1 : level'[i] = level[i]
         /\ level'[Len(level)].todo = Top.todo \ {h}
         /\ level'[Len(level)].files = Top.files
BY RestType, TopType, ReplaceLast

LEMMA DescendCalls ==
  ASSUME TypeOK, pc = "walk", NEW h \in Top.todo, Descend(h)
  PROVE  /\ level' \in Seq(Call) /\ Len(level') = Len(level) + 1
         /\ \A i \in 1 .. Len(level) - 1 : level'[i] = level[i]
         /\ level'[Len(level)].todo = Top.todo \ {h}
         /\ level'[Len(level)].files = Top.files
         /\ level'[Len(level) + 1].todo = Children(h)
         /\ Len(level) =< MaxDepth
<1> DEFINE y == [todo |-> Children(h), files |-> << >>]
<1>1. Children(h) \in SUBSET Href
  BY DEF Children, Below, TypeOK
<1>2. y \in Call /\ y.todo = Children(h)
  BY <1>1 DEF Call
<1>3. level' = Front(level) \o <<Rest(h), y>>
  BY DEF Descend
<1> HIDE DEF y
<1>4. Len(level) =< MaxDepth
  BY TopType DEF Descend, Descends
<1> QED
  BY <1>2, <1>3, <1>4, RestType, TopType, PushLast

LEMMA AscendCalls ==
  ASSUME TypeOK, Ascend
  PROVE  /\ level' \in Seq(Call) /\ Len(level') = Len(level) - 1 /\ Len(level) > 1
         /\ \A i \in 1 .. Len(level) - 2 : level'[i] = level[i]
         /\ level'[Len(level) - 1].todo = level[Len(level) - 1].todo
         /\ level'[Len(level) - 1].files = level[Len(level) - 1].files \o Cut(Top.files)
<1> DEFINE outer == Front(level)
           x == [Last(outer) EXCEPT !.files = @ \o Cut(Top.files)]
<1>1. /\ level \in Seq(Call) /\ level # << >> /\ Len(level) \in 1 .. MaxDepth + 1
      /\ Top.files \in Seq(Href) /\ Len(level) - 1 > 0 /\ pc = "walk"
  BY TopType DEF Ascend
<1>2. /\ outer \in Seq(Call) /\ Len(outer) = Len(level) - 1
      /\ \A i \in 1 .. Len(level) - 1 : outer[i] = level[i]
  BY <1>1, FrontOf
<1>3. level' = Append(Front(outer), x)
  BY DEF Ascend
<1> HIDE DEF outer
<1>4. outer # << >> /\ Last(outer) \in Call /\ Last(outer) = level[Len(level) - 1]
  <2>1. outer # << >> /\ Len(outer) - 1 + 1 = Len(outer)
    BY <1>1, <1>2
  <2>2. Last(outer) = outer[Len(outer)] /\ outer[Len(outer)] = level[Len(level) - 1]
    BY <1>1, <1>2 DEF Last
  <2> QED
    BY <2>1, <2>2, <1>2, FrontOf
<1>5. x \in Call /\ x.todo = Last(outer).todo /\ x.files = Last(outer).files \o Cut(Top.files)
  BY <1>1, <1>4, CutType, ConcatProperties DEF Call
<1> HIDE DEF x
<1>6. /\ level' \in Seq(Call) /\ Len(level') = Len(outer) /\ level'[Len(outer)] = x
      /\ \A i \in 1 .. Len(outer) - 1 : level'[i] = outer[i]
  BY <1>2, <1>3, <1>4, <1>5, ReplaceLast
<1>7. Len(level) > 1
  BY <1>1
<1>8. ASSUME NEW i \in 1 .. Len(level) - 2 PROVE level'[i] = level[i]
  <2>1. i \in 1 .. Len(outer) - 1 /\ i \in 1 .. Len(level) - 1
    BY <1>1, <1>2
  <2> QED
    BY <2>1, <1>2, <1>6
<1>9. /\ level'[Len(level) - 1].todo = level[Len(level) - 1].todo
      /\ level'[Len(level) - 1].files = level[Len(level) - 1].files \o Cut(Top.files)
  BY <1>2, <1>4, <1>5, <1>6, Zenon
<1> QED
  BY <1>2, <1>6, <1>7, <1>8, <1>9

\* A step of expand changes the calls, and at most what may still be found.
LEMMA ExpandTyped ==
  ASSUME Typed, pc = "walk", pc' = "walk", level' \in Seq(Call), level' # << >>,
         Len(level') =< MaxDepth + 1, stayed' \subseteq stayed,
         UNCHANGED <<server, constant, id, listed, notice, stopping>>,
         events' \in 0 .. MaxEvents
  PROVE  Typed'
<1>1. Selected' = Selected
  BY DEF Selected, Roots, Children, Below, server, constant
<1> QED
  BY <1>1 DEF Typed, TypeOK, TagOK, Rooted, Call, server, constant

LEMMA HappensOK ==
  ASSUME NEW e, TypeOK, Happens(e) PROVE events' \in 0 .. MaxEvents
<1>1. events \in 0 .. MaxEvents
  BY DEF TypeOK
<1> QED
  BY <1>1 DEF Happens

LEMMA ExpandNext ==
  ASSUME Typed, Expand, ~Sync
  PROVE  Typed'
<1>1. TypeOK /\ pc = "walk" /\ events \in 0 .. MaxEvents
  BY DEF Typed, Expand, Ascend, TypeOK
<1>2. level \in Seq(Call) /\ Len(level) \in 1 .. MaxDepth + 1
  BY <1>1, TopType
<1>3. CASE Ascend
  <2>1. level' \in Seq(Call) /\ Len(level') = Len(level) - 1 /\ Len(level) > 1
    BY <1>1, <1>3, AscendCalls
  <2> QED
    BY <1>1, <1>2, <1>3, <2>1, ExpandTyped DEF Ascend, Quiet
<1>4. ASSUME NEW h \in Top.todo, TakeFile(h) PROVE Typed'
  <2>1. level' \in Seq(Call) /\ Len(level') = Len(level)
    BY <1>1, <1>4, TakeFileCalls
  <2> QED
    BY <1>1, <1>2, <1>4, <2>1, ExpandTyped DEF TakeFile, Quiet
<1>5. ASSUME NEW h \in Top.todo, PassFolder(h) PROVE Typed'
  <2>1. level' \in Seq(Call) /\ Len(level') = Len(level)
    BY <1>1, <1>5, PassCalls DEF PassFolder
  <2> QED
    BY <1>1, <1>2, <1>5, <2>1, ExpandTyped DEF PassFolder, Quiet
<1>6. ASSUME NEW h \in Top.todo, Descend(h) PROVE Typed'
  <2>1. level' \in Seq(Call) /\ Len(level') = Len(level) + 1 /\ Len(level) =< MaxDepth
    BY <1>1, <1>6, DescendCalls
  <2> QED
    BY <1>1, <1>2, <1>6, <2>1, ExpandTyped DEF Descend, Quiet
<1>7. ASSUME NEW h \in Top.todo, SkipFolder(h) PROVE Typed'
  <2>1. level' \in Seq(Call) /\ Len(level') = Len(level)
    BY <1>1, <1>7, PassCalls DEF SkipFolder
  <2>2. stayed' \subseteq stayed /\ events' \in 0 .. MaxEvents
    BY <1>1, <1>7, HappensOK DEF SkipFolder, Quiet
  <2> QED
    BY <1>1, <1>2, <1>7, <2>1, <2>2, ExpandTyped DEF SkipFolder
<1> QED
  BY <1>1, <1>3, <1>4, <1>5, <1>6, <1>7 DEF Expand

LEMMA NoCalls ==
  << >> \in Seq(Call) /\ Len(<< >>) =< MaxDepth + 1
OBVIOUS

\* A step around expand leaves the files alone.
LEMMA AroundTyped ==
  ASSUME Typed, UNCHANGED <<tree, marked, constant>>,
         tag' \in BOOLEAN, authorized' \in BOOLEAN, stopping' \in BOOLEAN,
         id' \in {"none", "current", "stale"}, id' = "stale" => id = "stale" /\ tag' = tag,
         tag' \in {tag, TRUE}, pc' = "create" => id' = "none" /\ ~tag',
         pc' \in {"rest", "resolve", "create", "report", "unpaired", "stopped"}, level' = << >>,
         listed' \in Seq(Href), Len(listed') =< MaxFiles, notice' \in {"", "ask", "empty"},
         stayed' \subseteq Selected, events' \in 0 .. MaxEvents
  PROVE  Typed'
<1>1. Selected' = Selected
  BY DEF Selected, Roots, Children, Below, constant
<1>2. TagOK'
  BY DEF Typed, TagOK, constant
<1>3. Rooted(tree)'
  BY DEF Typed, Rooted
<1>4. level' \in Seq(Call) /\ Len(level') =< MaxDepth + 1
  BY NoCalls
<1>5. TypeOK'
  BY <1>1, <1>4 DEF Typed, TypeOK, Call, constant
<1> QED
  BY <1>2, <1>3, <1>5 DEF Typed

\* The steps around it.
LEMMA ListTyped ==
  ASSUME Typed, Begin \/ ResolveTag \/ CreateTag \/ CreateTagFails \/ ListFails
                \/ Sync \/ Abort \/ Stopped \/ Restart \/ Pair
  PROVE  Typed'
<1>1. /\ tag \in BOOLEAN /\ authorized \in BOOLEAN /\ stopping \in BOOLEAN
      /\ id \in {"none", "current", "stale"} /\ notice \in {"", "ask", "empty"}
      /\ listed \in Seq(Href) /\ Len(listed) =< MaxFiles /\ events \in 0 .. MaxEvents
      /\ stayed \subseteq Selected /\ (level = << >> <=> pc # "walk") /\ TypeOK
  BY DEF Typed, TypeOK
<1>2. CASE Begin
  BY <1>1, <1>2, AroundTyped DEF Begin, server, constant, Quiet
<1>3. CASE ResolveTag
  BY <1>1, <1>3, AroundTyped DEF ResolveTag, server, constant, Quiet
<1>4. CASE CreateTag
  BY <1>1, <1>4, AroundTyped DEF CreateTag, constant, Quiet
<1>5. CASE CreateTagFails
  <2>1. events' \in 0 .. MaxEvents
    BY <1>1, <1>5, HappensOK DEF CreateTagFails, Quiet
  <2>2. tag' \in BOOLEAN /\ tag' \in {tag, TRUE}
    BY <1>1, <1>5 DEF CreateTagFails, Typed, TagOK
  <2>3. id' = "stale" => id = "stale" /\ tag' = tag
    BY <1>5 DEF CreateTagFails, Typed, TagOK
  <2> QED
    BY <1>1, <1>5, <2>1, <2>2, <2>3, AroundTyped DEF CreateTagFails, Reset
<1>6. CASE ListFails
  <2>1. events' \in 0 .. MaxEvents
    BY <1>1, <1>6, HappensOK DEF ListFails, Quiet
  <2> QED
    BY <1>1, <1>6, <2>1, AroundTyped DEF ListFails, Reset, server, constant
<1>7. CASE Sync
  <2>1. listed' \in Seq(Href) /\ Len(listed') =< MaxFiles
    BY <1>1, <1>7, TopType, CutType DEF Sync
  <2> QED
    BY <1>1, <1>7, <2>1, AroundTyped DEF Sync, Reset, server, constant, Quiet
<1>8. CASE Abort
  BY <1>1, <1>8, AroundTyped DEF Abort, Reset, server, constant, Quiet
<1>9. CASE Stopped
  BY <1>1, <1>9, AroundTyped DEF Stopped, server, constant, Quiet
<1>10. CASE Restart
  BY <1>1, <1>10, AroundTyped DEF Restart, server, constant, Quiet
<1>11. CASE Pair
  BY <1>1, <1>11, AroundTyped DEF Pair, constant, Quiet
<1> QED
  BY <1>2, <1>3, <1>4, <1>5, <1>6, <1>7, <1>8, <1>9, <1>10, <1>11

LEMMA ReportTyped ==
  ASSUME Typed, Report
  PROVE  Typed'
<1> DEFINE x == [todo |-> IF mode = "tag" /\ id = "stale" THEN {} ELSE Roots, files |-> << >>]
<1>1. Roots \in SUBSET Href
  BY DEF Roots, Children, Below, Typed, TypeOK
<1>2. x \in Call
  BY <1>1 DEF Call
<1>3. level' = <<x>>
  BY DEF Report
<1> HIDE DEF x
<1>4. level' \in Seq(Call) /\ level' # << >> /\ Len(level') =< MaxDepth + 1
  BY <1>2, <1>3
<1>5. Selected' = Selected
  BY DEF Selected, Roots, Children, Below, server, constant, Report
<1>6. TagOK'
  BY DEF Typed, TagOK, server, constant, Report
<1>7. Rooted(tree)'
  BY DEF Typed, Rooted, server, Report
<1>8. TypeOK'
  BY <1>4, <1>5 DEF Typed, TypeOK, Call, server, constant, Report, Quiet
<1> QED
  BY <1>6, <1>7, <1>8 DEF Typed

\* A step of the owner leaves the listing alone.
LEMMA OwnerTyped ==
  ASSUME Typed, UNCHANGED <<constant, pc, level, listed, notice>>,
         stayed' \subseteq Selected', tree' \subseteq Href, marked' \subseteq tree',
         Rooted(tree)', TagOK', tag' \in BOOLEAN, authorized' \in BOOLEAN, stopping' \in BOOLEAN,
         id' \in {"none", "current", "stale"}, events' \in 0 .. MaxEvents
  PROVE  Typed'
<1>1. TypeOK'
  BY DEF Typed, TypeOK, constant
<1> QED
  BY <1>1 DEF Typed

LEMMA MoveTyped ==
  ASSUME Typed, NEW h \in tree, NEW d \in tree \cup {<< >>}, Move(h, d)
  PROVE  Typed'
<1>1. /\ tree \subseteq Href /\ marked \subseteq tree /\ Rooted(tree) /\ TagOK /\ TypeOK
      /\ tag \in BOOLEAN /\ authorized \in BOOLEAN /\ stopping \in BOOLEAN
      /\ id \in {"none", "current", "stale"}
  BY DEF Typed, TypeOK
<1>2. tree' = Moved(h, d, tree) /\ marked' = Moved(h, d, marked)
  BY DEF Move, Moved, There
<1>3. d # << >> => IsDir(d) /\ ~IsPrefix(h, d)
  BY DEF Move
<1>4. Rooted(Moved(h, d, tree))
  BY <1>1, <1>3, RootedMoved
<1>5. Moved(h, d, tree) \subseteq Href
  <2>1. ASSUME NEW k \in tree \cap Below(h) PROVE There(h, d, k) \in Href
    BY <1>1, <2>1, ThereType DEF Below
  <2> QED
    BY <1>1, <2>1 DEF Moved
<1>6. Moved(h, d, marked) \subseteq Moved(h, d, tree)
  BY <1>1 DEF Moved
<1>7. marked = {} => marked' = {}
  BY <1>2 DEF Moved
<1>8. TagOK'
  BY <1>1, <1>7 DEF TagOK, Move, Meanwhile, constant
<1>9. Rooted(tree)'
  BY <1>2, <1>4 DEF Rooted
<1>10. events' \in 0 .. MaxEvents
  BY <1>1, HappensOK DEF Move
<1> QED
  BY <1>1, <1>2, <1>5, <1>6, <1>8, <1>9, <1>10, OwnerTyped DEF Move, Meanwhile

LEMMA EnvironmentTyped ==
  ASSUME Typed, Environment
  PROVE  Typed'
<1>1. /\ tree \subseteq Href /\ marked \subseteq tree /\ Rooted(tree) /\ TagOK /\ TypeOK
      /\ tag \in BOOLEAN /\ authorized \in BOOLEAN /\ stopping \in BOOLEAN
      /\ id \in {"none", "current", "stale"} /\ stayed \subseteq Selected
  BY DEF Typed, TypeOK
<1>2. ASSUME NEW h \in tree, Mark(h) PROVE Typed'
  <2>1. events' \in 0 .. MaxEvents
    BY <1>1, <1>2, HappensOK DEF Mark
  <2>2. TagOK' /\ Rooted(tree)'
    BY <1>1, <1>2 DEF TagOK, Rooted, Mark, Meanwhile, constant
  <2> QED
    BY <1>1, <1>2, <2>1, <2>2, OwnerTyped DEF Mark, Meanwhile
<1>3. ASSUME NEW h \in tree, Unmark(h) PROVE Typed'
  <2>1. events' \in 0 .. MaxEvents
    BY <1>1, <1>3, HappensOK DEF Unmark
  <2>2. TagOK' /\ Rooted(tree)'
    BY <1>1, <1>3 DEF TagOK, Rooted, Unmark, Meanwhile, constant
  <2> QED
    BY <1>1, <1>3, <2>1, <2>2, OwnerTyped DEF Unmark, Meanwhile
<1>4. ASSUME NEW h \in tree, Delete(h) PROVE Typed'
  <2>1. events' \in 0 .. MaxEvents
    BY <1>1, <1>4, HappensOK DEF Delete
  <2>2. TagOK'
    BY <1>1, <1>4 DEF TagOK, Delete, Meanwhile, constant
  <2>3. Rooted(tree)'
    <3>1. Rooted(tree \ Below(h))
      BY <1>1, RootedWithout DEF Rooted
    <3> QED
      BY <1>4, <3>1 DEF Delete, Rooted
  <2> QED
    BY <1>1, <1>4, <2>1, <2>2, <2>3, OwnerTyped DEF Delete, Meanwhile
<1>5. ASSUME DeleteTag PROVE Typed'
  <2>1. events' \in 0 .. MaxEvents
    BY <1>1, <1>5, HappensOK DEF DeleteTag
  <2>2. TagOK' /\ Rooted(tree)'
    BY <1>1, <1>5 DEF TagOK, Rooted, DeleteTag, Meanwhile, constant
  <2> QED
    BY <1>1, <1>5, <2>1, <2>2, OwnerTyped DEF DeleteTag, Meanwhile
<1>6. ASSUME Revoke \/ Stop PROVE Typed'
  <2>1. events' \in 0 .. MaxEvents
    BY <1>1, <1>6, HappensOK DEF Revoke, Stop
  <2>2. TagOK' /\ Rooted(tree)'
    BY <1>1, <1>6 DEF TagOK, Rooted, Revoke, Stop, constant, server
  <2>3. Selected' = Selected
    BY <1>6 DEF Revoke, Stop, Selected, Roots, Children, Below, constant, server
  <2> QED
    BY <1>1, <1>6, <2>1, <2>2, <2>3, OwnerTyped DEF Revoke, Stop, constant, server
<1> QED
  BY <1>2, <1>3, <1>4, <1>5, <1>6, MoveTyped DEF Environment

LEMMA InitTyped ==
  Init => Typed
<1> SUFFICES ASSUME Init PROVE Typed
  OBVIOUS
<1>1. Rooted(tree) /\ tree \subseteq Href /\ marked \subseteq tree
  BY WalkAssumption DEF Init, Rooted
<1>2. level = << >> /\ listed = << >> /\ stayed = {} /\ events = 0 /\ pc = "rest"
  BY DEF Init
<1>3. /\ level \in Seq(Call) /\ Len(level) =< MaxDepth + 1
      /\ listed \in Seq(Href) /\ Len(listed) =< MaxFiles
  BY <1>2, NoCalls
<1> QED
  <2>1. TagOK
    BY DEF Init, TagOK
  <2>2. 0 \in 0 .. MaxEvents /\ {} \subseteq Selected
    OBVIOUS
  <2>3. TypeOK
    BY <1>1, <1>2, <1>3, <2>2 DEF Init, TypeOK, Call
  <2> QED
    BY <1>1, <2>1, <2>3 DEF Typed

LEMMA NextTyped ==
  Typed /\ [Next]_vars => Typed'
<1> SUFFICES ASSUME Typed, [Next]_vars PROVE Typed'
  OBVIOUS
<1>1. CASE UNCHANGED vars
  <2>1. Selected' = Selected
    BY <1>1 DEF vars, server, constant, Selected, Roots, Children, Below
  <2> QED
    BY <1>1, <2>1 DEF vars, server, constant, Typed, TypeOK, TagOK, Rooted
<1>2. CASE Listing
  <2>1. CASE Expand
    BY <2>1, ExpandNext, ListTyped
  <2> QED
    BY <1>2, <2>1, ListTyped, ReportTyped DEF Listing
<1> QED
  BY <1>1, <1>2, ListTyped, EnvironmentTyped DEF Next

\* The listing keeps to its limits and its calls to their shape, and what is said to
\* have stayed is selected (client.go Photos, expand; frame.go list, syncOnce).
THEOREM TypeCorrect == Spec => []TypeOK
<1>1. Typed => TypeOK
  BY DEF Typed
<1> QED
  BY <1>1, InitTyped, NextTyped, PTL DEF Spec

-----------------------------------------------------------------------------
(* What stayed is never lost sight of: one of expand's calls has found it, *)
(* or has found as many as a listing may hold, or has still to list what   *)
(* it lies in, with enough levels left.                                    *)

Covers(c, i, h) ==
  \/ h \in ToSet(c.files)
  \/ Len(c.files) >= MaxFiles
  \/ \E r \in c.todo : IsPrefix(r, h) /\ Len(h) - Len(r) =< MaxDepth - (i - 1)

Covered == pc = "walk" => \A h \in stayed : \E i \in 1 .. Len(level) : Covers(level[i], i, h)

LEMMA StayedType ==
  ASSUME Typed, NEW h \in stayed
  PROVE  h \in tree /\ h \in Href /\ Last(h) \in Image /\ ~IsDir(h)
BY DEF Typed, TypeOK, Selected, IsDir

\* A step on the innermost call keeps what the outer ones cover.
LEMMA OnTop ==
  ASSUME Typed, Covered, pc = "walk", NEW h \in stayed,
         Len(level') >= Len(level), \A i \in 1 .. Len(level) - 1 : level'[i] = level[i],
         Covers(Top, Len(level), h) => \E i \in 1 .. Len(level') : Covers(level'[i], i, h)
  PROVE  \E i \in 1 .. Len(level') : Covers(level'[i], i, h)
<1>1. Len(level) \in 1 .. MaxDepth + 1 /\ Top = level[Len(level)] /\ Len(level) \in Nat
  BY TopType DEF Typed
<1>2. PICK i \in 1 .. Len(level) : Covers(level[i], i, h)
  BY DEF Covered
<1>3. CASE i = Len(level)
  BY <1>1, <1>2, <1>3
<1>4. CASE i # Len(level)
  <2>1. i \in 1 .. Len(level) - 1 /\ i \in 1 .. Len(level')
    BY <1>1, <1>4
  <2> QED
    BY <1>2, <2>1
<1> QED
  BY <1>3, <1>4

LEMMA FileCovered ==
  ASSUME Typed, Covered, pc = "walk", NEW f \in Top.todo, TakeFile(f), NEW h \in stayed
  PROVE  \E i \in 1 .. Len(level') : Covers(level'[i], i, h)
<1> DEFINE n == Len(level)
<1>1. TypeOK /\ tree \in SUBSET Href /\ Rooted(tree)
  BY DEF Typed, TypeOK
<1>2. /\ n \in 1 .. MaxDepth + 1 /\ Top.todo \in SUBSET Href /\ Top.files \in Seq(Href)
  BY <1>1, TopType
<1>3. /\ Len(level') = n /\ \A i \in 1 .. n - 1 : level'[i] = level[i]
      /\ level'[n].todo = Top.todo \ {f}
      /\ level'[n].files = IF Last(f) \in Image THEN Append(Top.files, f) ELSE Top.files
  BY <1>1, TakeFileCalls
<1> HIDE DEF n
<1>4. Append(Top.files, f) = Top.files \o <<f>> /\ <<f>> \in Seq(Href) /\ f \in ToSet(<<f>>)
  BY <1>2, AppendIsConcat DEF ToSet
<1>5. ToSet(Top.files) \cup {f} \subseteq ToSet(Append(Top.files, f))
  BY <1>2, <1>4, ToSetConcat
<1>6. Len(Append(Top.files, f)) = Len(Top.files) + 1 /\ Len(Top.files) \in Nat
  BY <1>2, AppendProperties
<1>7. ASSUME Covers(Top, n, h) PROVE Covers(level'[n], n, h)
  <2>1. CASE h \in ToSet(Top.files)
    BY <1>3, <1>5, <2>1 DEF Covers
  <2>2. CASE Len(Top.files) >= MaxFiles
    BY <1>3, <1>6, <2>2 DEF Covers
  <2>3. ASSUME NEW r \in Top.todo, IsPrefix(r, h), Len(h) - Len(r) =< MaxDepth - (n - 1)
        PROVE  Covers(level'[n], n, h)
    <3>1. CASE r = f
      <4>1. f = h /\ Last(f) \in Image
        BY <1>1, <1>2, <2>3, <3>1, StayedType, Above DEF TakeFile
      <4> QED
        BY <1>3, <1>5, <4>1 DEF Covers
    <3>2. CASE r # f
      BY <1>3, <2>3, <3>2 DEF Covers
    <3> QED
      BY <3>1, <3>2
  <2> QED
    BY <1>7, <2>1, <2>2, <2>3 DEF Covers
<1>8. n \in 1 .. Len(level')
  BY <1>2, <1>3
<1> QED
  BY <1>3, <1>7, <1>8, OnTop, <1>2 DEF n

\* A folder is passed or left out.
LEMMA FolderCovered ==
  ASSUME Typed, Covered, pc = "walk", NEW f \in Top.todo,
         PassFolder(f) \/ SkipFolder(f), NEW h \in stayed, h \in stayed'
  PROVE  \E i \in 1 .. Len(level') : Covers(level'[i], i, h)
<1> DEFINE n == Len(level)
<1>1. TypeOK /\ tree \in SUBSET Href /\ Rooted(tree)
  BY DEF Typed, TypeOK
<1>2. /\ n \in 1 .. MaxDepth + 1 /\ Top.todo \in SUBSET Href /\ Top.files \in Seq(Href)
      /\ Depth = n - 1
  BY <1>1, TopType
<1>3. /\ Len(level') = n /\ \A i \in 1 .. n - 1 : level'[i] = level[i]
      /\ level'[n].todo = Top.todo \ {f} /\ level'[n].files = Top.files
  BY <1>1, PassCalls DEF PassFolder, SkipFolder
<1> HIDE DEF n
<1>4. h \in tree /\ h \in Href /\ ~IsDir(h) /\ Len(Top.files) \in Nat
  BY <1>2, StayedType
<1>5. ASSUME Covers(Top, n, h) PROVE Covers(level'[n], n, h)
  <2>1. CASE h \in ToSet(Top.files) \/ Len(Top.files) >= MaxFiles
    BY <1>3, <2>1 DEF Covers
  <2>2. ASSUME NEW r \in Top.todo, IsPrefix(r, h), Len(h) - Len(r) =< MaxDepth - (n - 1)
        PROVE  Covers(level'[n], n, h)
    <3>1. CASE r # f
      BY <1>3, <2>2, <3>1 DEF Covers
    <3>2. CASE r = f
      <4>1. f \in tree /\ (f = h \/ Len(f) < Len(h)) /\ Len(f) \in Nat /\ Len(h) \in Nat
        BY <1>1, <1>2, <1>4, <2>2, <3>2, Above, PathType
      <4>2. ~SkipFolder(f)
        BY <1>4, <2>2, <3>2, <4>1 DEF SkipFolder, Below
      <4>3. IsDir(f) /\ ~Descends(f)
        BY <4>2 DEF PassFolder
      <4>4. MaxDepth - (n - 1) > 0
        BY <1>2, <1>4, <2>2, <3>2, <4>1, <4>3
      <4>5. Len(Top.files) >= MaxFiles
        BY <1>2, <1>4, <4>3, <4>4 DEF Descends
      <4> QED
        BY <1>3, <4>5 DEF Covers
    <3> QED
      BY <3>1, <3>2
  <2> QED
    BY <1>5, <2>1, <2>2 DEF Covers
<1>6. n \in 1 .. Len(level')
  BY <1>2, <1>3
<1> QED
  BY <1>2, <1>3, <1>5, <1>6, OnTop DEF n

\* A folder's children cover what lies below it.
LEMMA DescendCovered ==
  ASSUME Typed, Covered, pc = "walk", NEW f \in Top.todo, Descend(f), NEW h \in stayed
  PROVE  \E i \in 1 .. Len(level') : Covers(level'[i], i, h)
<1> DEFINE n == Len(level)
<1>1. TypeOK /\ tree \in SUBSET Href /\ Rooted(tree)
  BY DEF Typed, TypeOK
<1>2. /\ n \in 1 .. MaxDepth + 1 /\ Top.todo \in SUBSET Href /\ Top.files \in Seq(Href)
  BY <1>1, TopType
<1>3. /\ Len(level') = n + 1 /\ \A i \in 1 .. n - 1 : level'[i] = level[i]
      /\ level'[n].todo = Top.todo \ {f} /\ level'[n].files = Top.files
      /\ level'[n + 1].todo = Children(f)
  BY <1>1, DescendCalls
<1> HIDE DEF n
<1>4. h \in tree /\ h \in Href /\ ~IsDir(h)
  BY StayedType
<1>5. n \in 1 .. Len(level') /\ n + 1 \in 1 .. Len(level') /\ Len(level') >= n
  BY <1>2, <1>3
<1>6. ASSUME Covers(Top, n, h) PROVE \E i \in 1 .. Len(level') : Covers(level'[i], i, h)
  <2>1. CASE h \in ToSet(Top.files) \/ Len(Top.files) >= MaxFiles
    BY <1>3, <1>5, <2>1 DEF Covers
  <2>2. ASSUME NEW r \in Top.todo, IsPrefix(r, h), Len(h) - Len(r) =< MaxDepth - (n - 1)
        PROVE  \E i \in 1 .. Len(level') : Covers(level'[i], i, h)
    <3>1. CASE r # f
      BY <1>3, <1>5, <2>2, <3>1 DEF Covers
    <3>2. CASE r = f
      <4> DEFINE m == Len(f) + 1
                 c == SubSeq(h, 1, m)
      <4>1. /\ f \in Href /\ f \in Seq(Name) /\ h \in Seq(Name)
            /\ Len(f) \in Nat \ {0} /\ Len(h) \in Nat /\ Len(f) < Len(h)
        BY <1>1, <1>2, <1>4, <2>2, <3>2, Above, PathType DEF Descend, Descends
      <4>2. m \in 1 .. Len(h) /\ m \in 0 .. Len(h) /\ m = Len(f) + 1
        BY <4>1
      <4> HIDE DEF m
      <4>3. c \in Seq(Name) /\ Len(c) = m /\ IsPrefix(c, h)
        BY <4>1, <4>2, SubPath
      <4>4. c \in Href
        BY <1>4, <4>2, SubHref
      <4> HIDE DEF c
      <4>5. c \in tree
        BY <1>1, <1>4, <4>3, <4>4, Above
      <4>6. IsPrefix(f, c)
        BY <2>2, <3>2, <4>1, <4>2, <4>3, PrefixChain
      <4>7. c \in level'[n + 1].todo
        BY <1>3, <4>2, <4>3, <4>5, <4>6 DEF Children, Below
      <4>8. Len(h) - Len(c) =< MaxDepth - (n + 1 - 1)
        BY <1>2, <2>2, <3>2, <4>1, <4>2, <4>3
      <4>9. Covers(level'[n + 1], n + 1, h)
        <5> DEFINE j == n + 1
                   y == level'[n + 1]
        <5>1. c \in y.todo
          BY <4>7, Zenon
        <5>2. IsPrefix(c, h) /\ Len(h) - Len(c) =< MaxDepth - (j - 1)
          BY <1>2, <4>1, <4>2, <4>3, <4>8
        <5> HIDE DEF j, y
        <5>3. Covers(y, j, h)
          BY <5>1, <5>2 DEF Covers
        <5> QED
          BY <5>3 DEF j, y
      <4> QED
        BY <1>5, <4>9
    <3> QED
      BY <3>1, <3>2
  <2> QED
    BY <1>6, <2>1, <2>2 DEF Covers
<1> QED
  BY <1>3, <1>5, <1>6, OnTop DEF n

\* What a call has found goes to the call above it, cut at the limit.
LEMMA AscendCovered ==
  ASSUME Typed, Covered, Ascend, NEW h \in stayed
  PROVE  \E i \in 1 .. Len(level') : Covers(level'[i], i, h)
<1> DEFINE n == Len(level)
<1>1. TypeOK /\ pc = "walk" /\ Top.todo = {}
  BY DEF Typed, Ascend
<1>2. /\ n \in 1 .. MaxDepth + 1 /\ Top.files \in Seq(Href) /\ Top = level[n]
      /\ level \in Seq(Call)
  BY <1>1, TopType
<1>3. /\ Len(level') = n - 1 /\ n > 1 /\ \A i \in 1 .. n - 2 : level'[i] = level[i]
      /\ level'[n - 1].todo = level[n - 1].todo
      /\ level'[n - 1].files = level[n - 1].files \o Cut(Top.files)
  BY <1>1, AscendCalls
<1>4. PICK i \in 1 .. n : Covers(level[i], i, h)
  BY <1>1 DEF Covered
<1> DEFINE f == level[n - 1].files
           g == Cut(Top.files)
<1>5. f \in Seq(Href) /\ g \in Seq(Href)
  <2>1. n - 1 \in 1 .. Len(level)
    BY <1>2, <1>3
  <2>2. level[n - 1] \in Call
    BY <1>2, <2>1, ElementOfSeq
  <2> QED
    BY <1>2, <2>2, CutType DEF Call
<1> HIDE DEF n, f, g
<1>6. /\ ToSet(f) \cup ToSet(g) \subseteq ToSet(f \o g)
      /\ Len(f \o g) = Len(f) + Len(g) /\ Len(f) \in Nat /\ Len(g) \in Nat
  BY <1>5, ToSetConcat, ConcatParts
<1>7. level'[n - 1].files = f \o g /\ level[n - 1].files = f
  BY <1>3 DEF f, g
<1>8. n - 1 \in 1 .. Len(level')
  BY <1>2, <1>3
<1>9. CASE i =< n - 2
  <2>1. level'[i] = level[i] /\ i \in 1 .. Len(level')
    BY <1>2, <1>3, <1>9
  <2> QED
    BY <1>4, <2>1
<1>10. CASE i = n - 1
  <2>1. Covers(level'[n - 1], n - 1, h)
    BY <1>3, <1>4, <1>6, <1>7, <1>10 DEF Covers
  <2> QED
    BY <1>8, <2>1
<1>11. CASE i = n
  <2>1. h \in ToSet(Top.files) \/ Len(Top.files) >= MaxFiles
    BY <1>1, <1>2, <1>4, <1>11 DEF Covers
  <2>2. h \in ToSet(g) \/ Len(g) = MaxFiles
    <3>1. /\ Len(Top.files) \in Nat
          /\ Len(Top.files) >= MaxFiles => Len(g) = MaxFiles
          /\ Len(Top.files) < MaxFiles => g = Top.files
      BY <1>2, CutType DEF g
    <3> QED
      BY <2>1, <3>1
  <2>3. Covers(level'[n - 1], n - 1, h)
    BY <2>2, <1>6, <1>7 DEF Covers
  <2> QED
    BY <1>8, <2>3
<1> QED
  BY <1>2, <1>4, <1>9, <1>10, <1>11

\* The first call has everything selected before it.
LEMMA ReportCovered ==
  ASSUME Typed, Report, NEW h \in stayed
  PROVE  \E i \in 1 .. Len(level') : Covers(level'[i], i, h)
<1> DEFINE x == [todo |-> IF mode = "tag" /\ id = "stale" THEN {} ELSE Roots, files |-> << >>]
<1>1. level' = <<x>>
  BY DEF Report
<1>2. h \in Selected
  BY DEF Typed, TypeOK
<1>3. PICK r \in Roots : IsPrefix(r, h) /\ Len(h) - Len(r) =< MaxDepth
  BY <1>2 DEF Selected
<1>4. ~(mode = "tag" /\ id = "stale")
  BY <1>3 DEF Typed, TagOK, Roots
<1>5. x.todo = Roots
  BY <1>4
<1> HIDE DEF x
<1>6. Covers(x, 1, h)
  BY <1>3, <1>5 DEF Covers
<1> QED
  BY <1>1, <1>6

LEMMA CoveredNext ==
  Typed /\ Covered /\ [Next]_vars => Covered'
<1> SUFFICES ASSUME Typed, Covered, [Next]_vars, pc' = "walk", NEW h \in stayed'
             PROVE  \E i \in 1 .. Len(level') : Covers(level'[i], i, h)
  BY DEF Covered
<1>1. CASE UNCHANGED <<pc, level>> /\ stayed' \subseteq stayed
  BY <1>1 DEF Covered
<1>2. CASE Report
  BY <1>2, ReportCovered DEF Report
<1>3. CASE Ascend
  BY <1>3, AscendCovered DEF Ascend
<1>4. ASSUME pc = "walk", NEW f \in Top.todo, TakeFile(f) \/ PassFolder(f) \/ Descend(f) \/ SkipFolder(f)
      PROVE  \E i \in 1 .. Len(level') : Covers(level'[i], i, h)
  <2>1. h \in stayed
    BY <1>4 DEF TakeFile, PassFolder, Descend, SkipFolder
  <2> QED
    BY <1>4, <2>1, FileCovered, FolderCovered, DescendCovered
<1>5. CASE Expand
  <2>1. ~Sync
    BY DEF Sync
  <2> QED
    BY <1>3, <1>4, <1>5, <2>1 DEF Expand
<1>6. CASE Listing /\ ~Expand /\ ~Report
  BY <1>6 DEF Listing, Begin, ResolveTag, CreateTag, CreateTagFails, ListFails, Abort, Stopped
<1>7. CASE Restart \/ Pair
  BY <1>7 DEF Restart, Pair
<1>8. CASE Environment
  <2>1. UNCHANGED <<pc, level>> /\ stayed' \subseteq stayed
    BY <1>8 DEF Environment, Mark, Unmark, Delete, Move, DeleteTag, Revoke, Stop, Meanwhile
  <2> QED
    BY <1>1, <2>1
<1>9. CASE UNCHANGED vars
  BY <1>1, <1>9 DEF vars
<1> QED
  BY <1>2, <1>5, <1>6, <1>7, <1>8, <1>9 DEF Next

LEMMA SyncKeeps ==
  ASSUME Typed, Covered, Sync, NEW h \in stayed
  PROVE  h \in ToSet(listed') \/ Len(listed') = MaxFiles
<1>1. TypeOK /\ pc = "walk" /\ Top.todo = {} /\ Depth = 0 /\ listed' = Cut(Top.files)
  BY DEF Typed, Sync
<1>2. Top.files \in Seq(Href) /\ Len(level) = 1 /\ Top = level[1] /\ Len(Top.files) \in Nat
  <2>1. /\ Top.files \in Seq(Href) /\ Len(level) \in 1 .. MaxDepth + 1
        /\ Top = level[Len(level)] /\ Depth = Len(level) - 1
    BY <1>1, TopType
  <2>2. Len(level) = 1
    BY <1>1, <2>1
  <2> QED
    BY <2>1, <2>2
<1>3. Covers(Top, 1, h)
  BY <1>1, <1>2 DEF Covered
<1>4. h \in ToSet(Top.files) \/ Len(Top.files) >= MaxFiles
  BY <1>1, <1>3 DEF Covers
<1> QED
  BY <1>1, <1>2, <1>4, CutType

LEMMA OnlySync ==
  ASSUME [Next]_vars, ~Sync
  PROVE  listed' = listed
BY DEF Next, vars, Listing, Expand, Begin, ResolveTag, CreateTag, CreateTagFails, Report, ListFails,
       TakeFile, PassFolder, Descend, SkipFolder, Ascend, Abort, Stopped, Restart, Pair,
       Environment, Mark, Unmark, Delete, Move, DeleteTag, Revoke, Stop, Meanwhile

\* A photo selected from the beginning of a listing to its end stays tracked, whatever
\* the owner does to other files and however the requests end (client.go expand,
\* frame.go syncOnce).
THEOREM KeptWhatStayed == Spec => KeepsWhatStayed
<1>1. Typed /\ Covered /\ [Next]_vars
        => [\A h \in stayed \cap ToSet(listed) :
              h \in ToSet(listed') \/ Len(listed') = MaxFiles]_vars
  <2> SUFFICES ASSUME Typed, Covered, [Next]_vars, NEW h \in stayed \cap ToSet(listed)
               PROVE  h \in ToSet(listed') \/ Len(listed') = MaxFiles
    OBVIOUS
  <2> QED
    BY SyncKeeps, OnlySync
<1>2. Init => Covered
  BY DEF Init, Covered
<1>3. Spec => [](Typed /\ Covered)
  BY <1>2, InitTyped, NextTyped, CoveredNext, PTL DEF Spec
<1> QED
  BY <1>1, <1>3, PTL DEF Spec, KeepsWhatStayed
====
