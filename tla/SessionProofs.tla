---------------------------- MODULE SessionProofs ----------------------------
(***************************************************************************)
(* A session and its file agree, however it is appended to, moved in,      *)
(* extracted, forked, reopened and crashed: by induction over the calls,   *)
(* from what is known of the entries in memory and of the lines on disk.   *)
(***************************************************************************)
EXTENDS SessionProperties, SequenceTheorems, FiniteSetTheorems, WellFoundedInduction, TLAPS

-----------------------------------------------------------------------------
(* Induction over numbers and over sequences.                               *)

LEMMA LeastNumber ==
  ASSUME NEW T \in SUBSET Nat, T # {}
  PROVE  \E n \in T : \A m \in T : n <= m
<1>1. PICK n \in T : \A m \in T : ~(<<m, n>> \in OpToRel(<, Nat))
  BY NatLessThanWellFounded, WFMin
<1>2. \A m \in T : <<m, n>> \in Nat \X Nat
  OBVIOUS
<1>3. \A m \in T : ~(m < n)
  BY <1>1, <1>2 DEF OpToRel
<1> QED
  BY <1>3

\* What holds of the empty sequence and is kept by Append holds of all.
LEMMA SeqInduction ==
  ASSUME NEW T, NEW P \in SUBSET Seq(T), <<>> \in P,
         \A s \in P, e \in T : Append(s, e) \in P
  PROVE  P = Seq(T)
<1> DEFINE Bad == {Len(s) : s \in Seq(T) \ P}
<1> SUFFICES ASSUME Bad # {} PROVE FALSE
  OBVIOUS
<1>1. Bad \in SUBSET Nat
  OBVIOUS
<1>2. PICK n \in Bad : \A m \in Bad : n <= m
  <2> HIDE DEF Bad
  <2> QED BY <1>1, LeastNumber
<1>3. PICK s \in Seq(T) \ P : n = Len(s)
  BY <1>2
<1>4. PICK front \in Seq(T), e \in T : s = Append(front, e)
  BY <1>3, SequenceEmptyOrAppend
<1>5. Len(front) \in Nat /\ n = Len(front) + 1
  BY <1>3, <1>4, AppendProperties, LenProperties
<1>6. Len(front) \in Bad
  BY <1>3, <1>4
<1> HIDE DEF Bad
<1>7. n <= Len(front)
  BY <1>2, <1>6
<1> QED
  BY <1>5, <1>7

-----------------------------------------------------------------------------
(* OfTypes.                                                                 *)

\* The function OfTypes is computed with.
KeptUpTo(kept, entries, types) ==
  kept = [i \in 0..Len(entries) |->
            IF i = 0 THEN <<>>
            ELSE IF entries[i].type \in types THEN Append(kept[i - 1], entries[i])
            ELSE kept[i - 1]]

LEMMA KeptExists ==
  ASSUME NEW T, NEW s \in Seq(T), NEW types
  PROVE  \E kept : KeptUpTo(kept, s, types)
<1> DEFINE P == {t \in Seq(T) : \E kept : KeptUpTo(kept, t, types)}
<1>1. <<>> \in P
  <2>1. KeptUpTo([i \in 0..0 |-> <<>>], <<>>, types)
    BY DEF KeptUpTo
  <2> QED
    BY <2>1
<1>2. ASSUME NEW t \in P, NEW e \in T
      PROVE  Append(t, e) \in P
  <2>1. PICK kept : KeptUpTo(kept, t, types)
    BY <1>2
  <2> DEFINE n == Len(t) + 1
             more == [i \in 0..n |->
                        IF i = n THEN (IF e.type \in types THEN Append(kept[n - 1], e) ELSE kept[n - 1])
                        ELSE kept[i]]
  <2>2. /\ Append(t, e) \in Seq(T) /\ Len(Append(t, e)) = n /\ Append(t, e)[n] = e
        /\ \A i \in 1..Len(t) : Append(t, e)[i] = t[i]
        /\ Len(t) \in Nat
    BY AppendProperties, LenProperties
  <2>3. ASSUME NEW i \in 0..n
        PROVE  more[i] = IF i = 0 THEN <<>>
                         ELSE IF Append(t, e)[i].type \in types THEN Append(more[i - 1], Append(t, e)[i])
                         ELSE more[i - 1]
    <3>1. CASE i = 0
      BY <3>1, <2>1, <2>2 DEF KeptUpTo
    <3>2. CASE i \in 1..Len(t)
      <4>1. i \in 0..Len(t) /\ i # 0 /\ i # n /\ i - 1 # n /\ i - 1 \in 0..n /\ i \in 0..n
        BY <3>2, <2>2
      <4>2. more[i] = kept[i] /\ more[i - 1] = kept[i - 1]
        BY <4>1
      <4>3. kept[i] = IF t[i].type \in types THEN Append(kept[i - 1], t[i]) ELSE kept[i - 1]
        BY <2>1, <4>1 DEF KeptUpTo
      <4> QED
        BY <2>2, <3>2, <4>1, <4>2, <4>3
    <3>3. CASE i = n
      <4>1. n - 1 \in 0..n /\ n - 1 # n /\ n # 0
        BY <2>2
      <4> QED
        BY <2>2, <3>3, <4>1
    <3> QED
      BY <2>2, <3>1, <3>2, <3>3
  <2>4. KeptUpTo(more, Append(t, e), types)
    BY <2>2, <2>3 DEF KeptUpTo
  <2> QED
    BY <2>2, <2>4
<1> HIDE DEF P
<1>3. P \in SUBSET Seq(T)
  BY DEF P
<1>4. P = Seq(T)
  BY <1>1, <1>2, <1>3, SeqInduction
<1> QED
  BY <1>4 DEF P

LEMMA OfTypesIsKept ==
  ASSUME NEW T, NEW s \in Seq(T), NEW types
  PROVE  \E kept : KeptUpTo(kept, s, types) /\ OfTypes(s, types) = kept[Len(s)]
<1> DEFINE kept == CHOOSE kept : KeptUpTo(kept, s, types)
<1>1. KeptUpTo(kept, s, types)
  BY KeptExists, Zenon
<1>2. OfTypes(s, types) = kept[Len(s)]
  BY DEF OfTypes, KeptUpTo
<1> QED
  BY <1>1, <1>2

\* What has been kept does not depend on what follows.
LEMMA KeptIsUnique ==
  ASSUME NEW T, NEW s \in Seq(T), NEW t \in Seq(T), NEW types, NEW f, NEW g,
         KeptUpTo(f, s, types), KeptUpTo(g, t, types), NEW n \in Nat,
         n <= Len(s), n <= Len(t), \A i \in 1..n : s[i] = t[i]
  PROVE  f[n] = g[n]
<1> DEFINE Bad == {k \in 0..n : f[k] # g[k]}
<1> SUFFICES ASSUME Bad # {} PROVE FALSE
  OBVIOUS
<1>1. Bad \in SUBSET Nat
  OBVIOUS
<1>2. PICK k \in Bad : \A m \in Bad : k <= m
  <2> HIDE DEF Bad
  <2> QED BY <1>1, LeastNumber
<1>3. Len(s) \in Nat /\ Len(t) \in Nat
  BY LenProperties
<1>4. f[0] = <<>> /\ g[0] = <<>>
  BY <1>3 DEF KeptUpTo
<1>5. k \in 1..n /\ k \in 0..Len(s) /\ k \in 0..Len(t) /\ k # 0
  BY <1>2, <1>3, <1>4
<1>6. k - 1 \in 0..n /\ k - 1 \notin Bad
  BY <1>2, <1>5
<1>7. f[k - 1] = g[k - 1]
  BY <1>6
<1>8. f[k] = IF s[k].type \in types THEN Append(f[k - 1], s[k]) ELSE f[k - 1]
  BY <1>5 DEF KeptUpTo
<1>9. g[k] = IF t[k].type \in types THEN Append(g[k - 1], t[k]) ELSE g[k - 1]
  BY <1>5 DEF KeptUpTo
<1> QED
  BY <1>2, <1>5, <1>7, <1>8, <1>9

LEMMA OfTypesOfEmpty ==
  ASSUME NEW types
  PROVE  OfTypes(<<>>, types) = <<>>
<1>1. PICK kept : KeptUpTo(kept, <<>>, types) /\ OfTypes(<<>>, types) = kept[Len(<<>>)]
  <2>1. <<>> \in Seq({})
    OBVIOUS
  <2> QED
    BY <2>1, OfTypesIsKept
<1> QED
  BY <1>1 DEF KeptUpTo

LEMMA OfTypesOfAppend ==
  ASSUME NEW T, NEW s \in Seq(T), NEW e \in T, NEW types
  PROVE  OfTypes(Append(s, e), types) =
           IF e.type \in types THEN Append(OfTypes(s, types), e) ELSE OfTypes(s, types)
<1> DEFINE t == Append(s, e)
<1>1. /\ t \in Seq(T) /\ Len(t) = Len(s) + 1 /\ t[Len(s) + 1] = e
      /\ \A i \in 1..Len(s) : t[i] = s[i]
      /\ Len(s) \in Nat
  BY AppendProperties, LenProperties
<1> HIDE DEF t
<1>2. PICK f : KeptUpTo(f, s, types) /\ OfTypes(s, types) = f[Len(s)]
  BY OfTypesIsKept
<1>3. PICK g : KeptUpTo(g, t, types) /\ OfTypes(t, types) = g[Len(t)]
  BY <1>1, OfTypesIsKept
<1>4. g[Len(s)] = f[Len(s)]
  BY <1>1, <1>2, <1>3, KeptIsUnique
<1>5. Len(t) \in 0..Len(t) /\ Len(t) # 0 /\ Len(t) - 1 = Len(s)
  BY <1>1
<1>6. g[Len(t)] = IF t[Len(t)].type \in types THEN Append(g[Len(t) - 1], t[Len(t)])
                  ELSE g[Len(t) - 1]
  BY <1>3, <1>5 DEF KeptUpTo
<1> QED
  BY <1>1, <1>2, <1>3, <1>4, <1>5, <1>6 DEF t

LEMMA ToSetOfAppend ==
  ASSUME NEW T, NEW s \in Seq(T), NEW e
  PROVE  ToSet(Append(s, e)) = ToSet(s) \cup {e}
<1>1. s \in Seq(T \cup {e}) /\ e \in T \cup {e}
  BY SeqMonotonic
<1>2. /\ Len(Append(s, e)) = Len(s) + 1 /\ Append(s, e)[Len(s) + 1] = e
      /\ \A i \in 1..Len(s) : Append(s, e)[i] = s[i]
      /\ DOMAIN Append(s, e) = 1..(Len(s) + 1) /\ DOMAIN s = 1..Len(s) /\ Len(s) \in Nat
  BY <1>1, AppendProperties, LenProperties
<1>3. \A x \in ToSet(Append(s, e)) : x \in ToSet(s) \cup {e}
  BY <1>2 DEF ToSet
<1>4. \A x \in ToSet(s) \cup {e} : x \in ToSet(Append(s, e))
  BY <1>2 DEF ToSet
<1> QED
  BY <1>3, <1>4

LEMMA ToSetOfConcat ==
  ASSUME NEW T, NEW s \in Seq(T), NEW t \in Seq(T)
  PROVE  ToSet(s \o t) = ToSet(s) \cup ToSet(t)
<1>1. /\ Len(s \o t) = Len(s) + Len(t) /\ DOMAIN (s \o t) = 1..(Len(s) + Len(t))
      /\ \A i \in 1..(Len(s) + Len(t)) : (s \o t)[i] = IF i <= Len(s) THEN s[i] ELSE t[i - Len(s)]
      /\ DOMAIN s = 1..Len(s) /\ DOMAIN t = 1..Len(t) /\ Len(s) \in Nat /\ Len(t) \in Nat
  BY ConcatProperties, LenProperties
<1>2. \A x \in ToSet(s \o t) : x \in ToSet(s) \cup ToSet(t)
  <2> TAKE x \in ToSet(s \o t)
  <2>1. PICK i \in 1..(Len(s) + Len(t)) : x = (s \o t)[i]
    BY <1>1 DEF ToSet
  <2>2. CASE i <= Len(s)
    BY <1>1, <2>1, <2>2 DEF ToSet
  <2>3. CASE ~(i <= Len(s))
    <3>1. i - Len(s) \in 1..Len(t)
      BY <1>1, <2>1, <2>3
    <3> QED
      BY <1>1, <2>1, <2>3, <3>1 DEF ToSet
  <2> QED
    BY <2>2, <2>3
<1>3. \A x \in ToSet(s) : x \in ToSet(s \o t)
  BY <1>1 DEF ToSet
<1>4. \A x \in ToSet(t) : x \in ToSet(s \o t)
  <2> TAKE x \in ToSet(t)
  <2>1. PICK i \in 1..Len(t) : x = t[i]
    BY <1>1 DEF ToSet
  <2>2. i + Len(s) \in 1..(Len(s) + Len(t)) /\ ~(i + Len(s) <= Len(s)) /\ (i + Len(s)) - Len(s) = i
    BY <1>1, <2>1
  <2>3. (s \o t)[i + Len(s)] = x
    BY <1>1, <2>1, <2>2
  <2> QED
    BY <1>1, <2>2, <2>3 DEF ToSet
<1> QED
  BY <1>2, <1>3, <1>4

LEMMA ToSetTyped ==
  ASSUME NEW T, NEW s \in Seq(T)
  PROVE  ToSet(s) \subseteq T /\ s \in Seq(ToSet(s))
<1>1. s \in [1..Len(s) -> T] /\ DOMAIN s = 1..Len(s) /\ Len(s) \in Nat
  BY LenProperties
<1>2. s \in [1..Len(s) -> ToSet(s)]
  BY <1>1 DEF ToSet
<1>3. ToSet(s) \subseteq T
  BY <1>1 DEF ToSet
<1> DEFINE X == ToSet(s)
<1>4. s \in [1..Len(s) -> X] /\ Len(s) \in Nat
  BY <1>1, <1>2
<1> HIDE DEF X
<1>5. s \in Seq(X)
  BY <1>4, SeqDef
<1> QED
  BY <1>3, <1>5 DEF X

LEMMA OfTypesTyped ==
  ASSUME NEW T, NEW s \in Seq(T), NEW types
  PROVE  /\ OfTypes(s, types) \in Seq({e \in T : e.type \in types})
         /\ ToSet(OfTypes(s, types)) = {e \in ToSet(s) : e.type \in types}
<1> DEFINE Wanted == {e \in T : e.type \in types}
           P == {t \in Seq(T) : /\ OfTypes(t, types) \in Seq(Wanted)
                                /\ ToSet(OfTypes(t, types)) = {e \in ToSet(t) : e.type \in types}}
<1>1. <<>> \in P
  <2>1. ToSet(<<>>) = {}
    BY DEF ToSet
  <2>2. OfTypes(<<>>, types) = <<>>
    BY OfTypesOfEmpty
  <2>3. {e \in ToSet(<<>>) : e.type \in types} = {}
    BY <2>1
  <2>4. <<>> \in Seq(T) /\ <<>> \in Seq(Wanted)
    OBVIOUS
  <2> HIDE DEF Wanted
  <2> QED
    BY <2>1, <2>2, <2>3, <2>4
<1>2. ASSUME NEW t \in P, NEW e \in T
      PROVE  Append(t, e) \in P
  <2>1. OfTypes(Append(t, e), types) =
          IF e.type \in types THEN Append(OfTypes(t, types), e) ELSE OfTypes(t, types)
    BY <1>2, OfTypesOfAppend
  <2>2. ToSet(Append(t, e)) = ToSet(t) \cup {e} /\ Append(t, e) \in Seq(T)
    BY <1>2, ToSetOfAppend
  <2>3. CASE e.type \in types
    <3>1. e \in Wanted /\ OfTypes(t, types) \in Seq(Wanted)
      BY <1>2, <2>3
    <3>2. ToSet(Append(OfTypes(t, types), e)) = ToSet(OfTypes(t, types)) \cup {e}
      BY <3>1, ToSetOfAppend
    <3>3. Append(OfTypes(t, types), e) \in Seq(Wanted)
      BY <3>1, AppendProperties
    <3>4. {x \in ToSet(t) \cup {e} : x.type \in types} = {x \in ToSet(t) : x.type \in types} \cup {e}
      BY <2>3
    <3> QED
      BY <1>2, <2>1, <2>2, <2>3, <3>2, <3>3, <3>4
  <2>4. CASE e.type \notin types
    <3>1. {x \in ToSet(t) \cup {e} : x.type \in types} = {x \in ToSet(t) : x.type \in types}
      BY <2>4
    <3> QED
      BY <1>2, <2>1, <2>2, <2>4, <3>1
  <2> QED
    BY <2>3, <2>4
<1> HIDE DEF P
<1>3. P \in SUBSET Seq(T)
  BY DEF P
<1>4. P = Seq(T)
  BY <1>1, <1>2, <1>3, SeqInduction
<1> QED
  BY <1>4 DEF P

LEMMA OfTypesOfConcat ==
  ASSUME NEW T, NEW s \in Seq(T), NEW t \in Seq(T), NEW types
  PROVE  OfTypes(s \o t, types) = OfTypes(s, types) \o OfTypes(t, types)
<1> DEFINE P == {u \in Seq(T) : OfTypes(s \o u, types) = OfTypes(s, types) \o OfTypes(u, types)}
<1>1. <<>> \in P
  <2>1. OfTypes(s, types) \in Seq({e \in T : e.type \in types})
    BY OfTypesTyped
  <2> QED
    BY <2>1, OfTypesOfEmpty, ConcatEmptySeq
<1>2. ASSUME NEW u \in P, NEW e \in T
      PROVE  Append(u, e) \in P
  <2>1. /\ s \o u \in Seq(T) /\ s \o Append(u, e) = Append(s \o u, e)
        /\ Append(u, e) \in Seq(T)
    BY <1>2
  <2>2. OfTypes(s \o Append(u, e), types) =
          IF e.type \in types THEN Append(OfTypes(s \o u, types), e) ELSE OfTypes(s \o u, types)
    <3> DEFINE v == s \o u
    <3>1. v \in Seq(T)
      BY <2>1
    <3>2. s \o Append(u, e) = Append(v, e)
      BY <2>1
    <3> HIDE DEF v
    <3>3. OfTypes(Append(v, e), types) =
            IF e.type \in types THEN Append(OfTypes(v, types), e) ELSE OfTypes(v, types)
      BY <3>1, OfTypesOfAppend
    <3> QED
      BY <3>2, <3>3 DEF v
  <2>3. OfTypes(Append(u, e), types) =
          IF e.type \in types THEN Append(OfTypes(u, types), e) ELSE OfTypes(u, types)
    BY <1>2, OfTypesOfAppend
  <2>4. OfTypes(s \o u, types) = OfTypes(s, types) \o OfTypes(u, types)
    BY <1>2
  <2>5. OfTypes(s, types) \in Seq({x \in T : x.type \in types}) /\ OfTypes(u, types) \in Seq({x \in T : x.type \in types})
    BY <1>2, OfTypesTyped
  <2> DEFINE a == OfTypes(s, types)
             b == OfTypes(u, types)
             Wanted == {x \in T : x.type \in types}
  <2> HIDE DEF a, b, Wanted
  <2>6. a \in Seq(Wanted) /\ b \in Seq(Wanted)
    BY <2>5 DEF a, b, Wanted
  <2>7. e \in Wanted => Append(a \o b, e) = a \o Append(b, e)
    <3> SUFFICES ASSUME e \in Wanted PROVE Append(a \o b, e) = a \o Append(b, e)
      OBVIOUS
    <3>1. Append(b, e) = b \o <<e>> /\ <<e>> \in Seq(Wanted) /\ a \o b \in Seq(Wanted)
      BY <2>6, AppendIsConcat, ConcatProperties
    <3>2. Append(a \o b, e) = (a \o b) \o <<e>>
      BY <3>1, AppendIsConcat
    <3>3. \A p, q, x \in Seq(Wanted) : (p \o q) \o x = p \o (q \o x)
      BY ConcatAssociative, SMTT(30)
    <3>4. (a \o b) \o <<e>> = a \o (b \o <<e>>)
      BY <2>6, <3>1, <3>3
    <3> QED
      BY <3>1, <3>2, <3>4
  <2>8. OfTypes(s \o Append(u, e), types) = a \o OfTypes(Append(u, e), types)
    <3>1. CASE e.type \in types
      <4>1. e \in Wanted
        BY <3>1 DEF Wanted
      <4>2. OfTypes(s \o Append(u, e), types) = Append(a \o b, e)
        BY <2>2, <2>4, <3>1 DEF a, b
      <4>3. OfTypes(Append(u, e), types) = Append(b, e)
        BY <2>3, <3>1 DEF b
      <4> QED
        BY <2>7, <4>1, <4>2, <4>3
    <3>2. CASE e.type \notin types
      <4>1. OfTypes(s \o Append(u, e), types) = a \o b
        BY <2>2, <2>4, <3>2 DEF a, b
      <4>2. OfTypes(Append(u, e), types) = b
        BY <2>3, <3>2 DEF b
      <4> QED
        BY <4>1, <4>2
    <3> QED
      BY <3>1, <3>2
  <2> QED
    BY <2>1, <2>8 DEF a
<1> HIDE DEF P
<1>3. P \in SUBSET Seq(T)
  BY DEF P
<1>4. P = Seq(T)
  BY <1>1, <1>2, <1>3, SeqInduction
<1> QED
  BY <1>4 DEF P

LEMMA OfTypesOfAll ==
  ASSUME NEW T, NEW types, \A e \in T : e.type \in types, NEW s \in Seq(T)
  PROVE  OfTypes(s, types) = s
<1> DEFINE P == {t \in Seq(T) : OfTypes(t, types) = t}
<1>1. <<>> \in P
  BY OfTypesOfEmpty
<1>2. ASSUME NEW t \in P, NEW e \in T
      PROVE  Append(t, e) \in P
  BY <1>2, OfTypesOfAppend
<1> HIDE DEF P
<1>3. P \in SUBSET Seq(T)
  BY DEF P
<1>4. P = Seq(T)
  BY <1>1, <1>2, <1>3, SeqInduction
<1> QED
  BY <1>4 DEF P

-----------------------------------------------------------------------------
(* getBranch.                                                               *)

\* Parents are older than their children.
Rooted(entries) ==
  \A e \in ById(entries) : e.id \in Nat /\ e.parentId \in Nat /\ e.parentId < e.id

EntryAt(entries, id) == CHOOSE e \in ById(entries) : e.id = id

\* The function getBranch is computed with.
PathTo(path, entries, n) ==
  path = [id \in 0..n |->
            IF \A e \in ById(entries) : e.id # id THEN <<>>
            ELSE Append(path[EntryAt(entries, id).parentId], EntryAt(entries, id))]

LEMMA EntryAtIsThere ==
  ASSUME NEW entries, NEW id, ~\A e \in ById(entries) : e.id # id
  PROVE  EntryAt(entries, id) \in ById(entries) /\ EntryAt(entries, id).id = id
BY Zenon DEF EntryAt

LEMMA PathExists ==
  ASSUME NEW entries, Rooted(entries), NEW n \in Nat
  PROVE  \E path : PathTo(path, entries, n)
<1> DEFINE Bad == {k \in Nat : ~\E path : PathTo(path, entries, k)}
<1> SUFFICES ASSUME Bad # {} PROVE FALSE
  OBVIOUS
<1>1. Bad \in SUBSET Nat
  OBVIOUS
<1>2. PICK k \in Bad : \A m \in Bad : k <= m
  <2> HIDE DEF Bad
  <2> QED BY <1>1, LeastNumber
<1>3. k # 0
  <2>1. \A e \in ById(entries) : e.id # 0
    BY DEF Rooted
  <2>2. PathTo([id \in 0..0 |-> <<>>], entries, 0)
    BY <2>1 DEF PathTo
  <2> QED
    BY <1>2, <2>2
<1>4. k \in Nat /\ k - 1 \in Nat /\ k - 1 \notin Bad
  BY <1>2, <1>3
<1>5. PICK path : PathTo(path, entries, k - 1)
  BY <1>4
<1> DEFINE more == [id \in 0..k |->
                      IF \A e \in ById(entries) : e.id # id THEN <<>>
                      ELSE Append(path[EntryAt(entries, id).parentId], EntryAt(entries, id))]
<1>6. \A id \in 0..(k - 1) : more[id] = path[id]
  <2> TAKE id \in 0..(k - 1)
  <2>1. id \in 0..k
    BY <1>4
  <2> QED
    BY <1>5, <2>1 DEF PathTo
<1>7. ASSUME NEW id \in 0..k, ~\A e \in ById(entries) : e.id # id
      PROVE  more[EntryAt(entries, id).parentId] = path[EntryAt(entries, id).parentId]
  <2>1. EntryAt(entries, id) \in ById(entries) /\ EntryAt(entries, id).id = id
    BY <1>7, EntryAtIsThere
  <2>2. EntryAt(entries, id).parentId \in 0..(k - 1)
    BY <1>4, <2>1 DEF Rooted
  <2> HIDE DEF more
  <2> QED
    BY <1>6, <2>2
<1>8. more = [id \in 0..k |->
                IF \A e \in ById(entries) : e.id # id THEN <<>>
                ELSE Append(more[EntryAt(entries, id).parentId], EntryAt(entries, id))]
  BY <1>7
<1> HIDE DEF more
<1>9. PathTo(more, entries, k)
  BY <1>8 DEF PathTo
<1> QED
  BY <1>2, <1>9

LEMMA BranchIsPath ==
  ASSUME NEW entries, Rooted(entries), NEW leafId \in Nat
  PROVE  \E path : PathTo(path, entries, leafId) /\ GetBranch(entries, leafId) = path[leafId]
<1> DEFINE path == CHOOSE path : PathTo(path, entries, leafId)
<1>1. PathTo(path, entries, leafId)
  BY PathExists, Zenon
<1>2. GetBranch(entries, leafId) = path[leafId]
  BY DEF GetBranch, PathTo, EntryAt
<1> QED
  BY <1>1, <1>2

LEMMA BranchTyped ==
  ASSUME NEW entries, Rooted(entries), NEW leafId \in Nat
  PROVE  /\ GetBranch(entries, leafId) \in Seq(ById(entries))
         /\ leafId \in IdsOf(entries) =>
              \E front \in Seq(ById(entries)), e \in ById(entries) :
                e.id = leafId /\ GetBranch(entries, leafId) = Append(front, e)
<1>1. PICK path : PathTo(path, entries, leafId) /\ GetBranch(entries, leafId) = path[leafId]
  BY BranchIsPath
<1> DEFINE Bad == {k \in 0..leafId : path[k] \notin Seq(ById(entries))}
           Missing(id) == \A e \in ById(entries) : e.id # id
<1>2. ASSUME NEW id \in 0..leafId
      PROVE  path[id] = IF Missing(id) THEN <<>>
                        ELSE Append(path[EntryAt(entries, id).parentId], EntryAt(entries, id))
  BY <1>1 DEF PathTo
<1>3. Bad = {}
  <2> SUFFICES ASSUME Bad # {} PROVE FALSE
    OBVIOUS
  <2>1. Bad \in SUBSET Nat
    OBVIOUS
  <2>2. PICK k \in Bad : \A m \in Bad : k <= m
    <3> HIDE DEF Bad
    <3> QED BY <2>1, LeastNumber
  <2>0. k \in 0..leafId /\ path[k] \notin Seq(ById(entries)) /\ <<>> \in Seq(ById(entries))
    BY <2>2
  <2>3. ~Missing(k)
    <3> HIDE DEF Missing, Bad
    <3> QED BY <1>2, <2>0
  <2> DEFINE e == EntryAt(entries, k)
  <2>4. e \in ById(entries) /\ e.id = k
    BY <2>3, EntryAtIsThere
  <2> HIDE DEF e
  <2>5. e.parentId \in 0..leafId /\ e.parentId < k
    BY <2>2, <2>4 DEF Rooted
  <2>6. e.parentId \notin Bad
    BY <2>2, <2>5
  <2>7. path[e.parentId] \in Seq(ById(entries))
    BY <2>5, <2>6
  <2>8. path[k] = Append(path[e.parentId], e)
    <3> HIDE DEF Missing, Bad
    <3> QED BY <1>2, <2>0, <2>3 DEF e
  <2>9. Append(path[e.parentId], e) \in Seq(ById(entries))
    BY <2>4, <2>7, AppendProperties
  <2> QED
    BY <2>0, <2>8, <2>9
<1>4. path[leafId] \in Seq(ById(entries))
  BY <1>3
<1>5. ASSUME leafId \in IdsOf(entries)
      PROVE  \E front \in Seq(ById(entries)), e \in ById(entries) :
               e.id = leafId /\ path[leafId] = Append(front, e)
  <2> DEFINE e == EntryAt(entries, leafId)
  <2>1. ~Missing(leafId)
    BY <1>5 DEF IdsOf
  <2>2. e \in ById(entries) /\ e.id = leafId
    BY <2>1, EntryAtIsThere
  <2>3. path[leafId] = Append(path[e.parentId], e)
    <3> HIDE DEF Missing
    <3>1. leafId \in 0..leafId
      OBVIOUS
    <3> QED BY <1>2, <2>1, <3>1 DEF e
  <2> HIDE DEF e
  <2>4. e.parentId \in 0..leafId
    BY <2>2 DEF Rooted
  <2>5. path[e.parentId] \in Seq(ById(entries))
    BY <1>3, <2>4
  <2> QED
    BY <2>2, <2>3, <2>5
<1> QED
  BY <1>1, <1>4, <1>5

-----------------------------------------------------------------------------
(* The labels in force.                                                     *)

\* The last label entry of a target, at j, set a label.
SetAt(s, j, target) ==
  /\ s[j].type = "label" /\ s[j].on /\ s[j].ref = target
  /\ \A k \in DOMAIN s : s[k].type = "label" /\ s[k].ref = target => k <= j

LEMMA LabelsAreSet ==
  ASSUME NEW s
  PROVE  /\ Labels(s) = {t \in {s[j].ref : j \in DOMAIN s} : \E j \in DOMAIN s : SetAt(s, j, t)}
         /\ \A t : t \in Labels(s) <=> \E j \in DOMAIN s : SetAt(s, j, t)
<1>1. \A t : t \in Labels(s) <=> \E j \in DOMAIN s : SetAt(s, j, t)
  BY DEF Labels, SetAt
<1>2. \A t : (\E j \in DOMAIN s : SetAt(s, j, t)) => t \in {s[j].ref : j \in DOMAIN s}
  BY DEF SetAt
<1> QED
  BY <1>1, <1>2

LEMMA LabelsOfAppend ==
  ASSUME NEW T, NEW s \in Seq(T), NEW e \in T
  PROVE  Labels(Append(s, e)) = LabelAfter(Labels(s), e)
<1> DEFINE q == Append(s, e)
<1>1. /\ q[Len(s) + 1] = e /\ \A i \in 1..Len(s) : q[i] = s[i]
      /\ DOMAIN q = 1..(Len(s) + 1) /\ DOMAIN s = 1..Len(s) /\ Len(s) \in Nat
  BY AppendProperties, LenProperties
<1> HIDE DEF q
<1>2. ASSUME NEW t, ~(e.type = "label" /\ e.ref = t)
      PROVE  t \in Labels(q) <=> t \in Labels(s)
  <2>1. ASSUME NEW j \in DOMAIN s PROVE SetAt(q, j, t) <=> SetAt(s, j, t)
    <3>1. j \in DOMAIN q /\ q[j] = s[j]
      BY <1>1
    <3>2. \A k \in DOMAIN q : k \in DOMAIN s \/ k = Len(s) + 1
      BY <1>1
    <3>3. \A k \in DOMAIN s : k \in DOMAIN q /\ q[k] = s[k]
      BY <1>1
    <3> QED
      BY <1>1, <1>2, <3>1, <3>2, <3>3 DEF SetAt
  <2>2. ~SetAt(q, Len(s) + 1, t)
    BY <1>1, <1>2 DEF SetAt
  <2>3. \A j : j \in DOMAIN q <=> j \in DOMAIN s \/ j = Len(s) + 1
    BY <1>1
  <2> QED
    BY <2>1, <2>2, <2>3, LabelsAreSet
<1>3. ASSUME e.type = "label"
      PROVE  e.ref \in Labels(q) <=> e.on
  <2>1. ASSUME NEW j \in DOMAIN q, SetAt(q, j, e.ref) PROVE j = Len(s) + 1
    <3>1. Len(s) + 1 \in DOMAIN q
      BY <1>1
    <3>2. Len(s) + 1 <= j
      BY <1>1, <1>3, <2>1, <3>1 DEF SetAt
    <3> QED
      BY <1>1, <2>1, <3>2
  <2>2. Len(s) + 1 \in DOMAIN q /\ \A k \in DOMAIN q : k <= Len(s) + 1
    BY <1>1
  <2>3. SetAt(q, Len(s) + 1, e.ref) <=> e.on
    BY <1>1, <1>3, <2>2 DEF SetAt
  <2> QED
    BY <2>1, <2>2, <2>3, LabelsAreSet
<1>4. CASE e.type # "label"
  BY <1>2, <1>4 DEF LabelAfter, q
<1>5. CASE e.type = "label" /\ e.on
  <2>1. \A t : t \in Labels(q) <=> t \in Labels(s) \cup {e.ref}
    BY <1>2, <1>3, <1>5
  <2> QED
    BY <1>5, <2>1 DEF LabelAfter, q
<1>6. CASE e.type = "label" /\ ~e.on
  <2>1. \A t : t \in Labels(q) <=> t \in Labels(s) \ {e.ref}
    BY <1>2, <1>3, <1>6
  <2> QED
    BY <1>6, <2>1 DEF LabelAfter, q
<1> QED
  BY <1>4, <1>5, <1>6

\* Entries that come again behind others leave the same labels.
LEMMA LabelsOfRepeated ==
  ASSUME NEW T, NEW s \in Seq(T), NEW q \in Seq(T), 
         \A e \in ToSet(s) : e.type = "label" => e \in ToSet(q)
  PROVE  Labels(s \o q) = Labels(q)
<1> DEFINE z == s \o q
           n == Len(s)
<1>1. /\ DOMAIN z = 1..(n + Len(q)) /\ DOMAIN s = 1..n /\ DOMAIN q = 1..Len(q)
      /\ n \in Nat /\ Len(q) \in Nat
      /\ \A i \in 1..n : z[i] = s[i]
      /\ \A i \in 1..Len(q) : z[n + i] = q[i]
  <2>1. /\ Len(z) = n + Len(q) /\ z \in Seq(T)
        /\ \A i \in 1..(n + Len(q)) : z[i] = IF i <= n THEN s[i] ELSE q[i - n]
    BY ConcatProperties
  <2>2. /\ DOMAIN z = 1..Len(z) /\ DOMAIN s = 1..n /\ DOMAIN q = 1..Len(q)
        /\ n \in Nat /\ Len(q) \in Nat
    BY <2>1, LenProperties
  <2> HIDE DEF z, n
  <2>3. \A i \in 1..n : i \in 1..(n + Len(q)) /\ i <= n
    BY <2>2
  <2>4. \A i \in 1..Len(q) : n + i \in 1..(n + Len(q)) /\ ~(n + i <= n) /\ (n + i) - n = i
    BY <2>2
  <2> QED
    BY <2>1, <2>2, <2>3, <2>4
<1> HIDE DEF z, n
<1>2. ASSUME NEW i \in 1..n, z[i].type = "label"
      PROVE  \E k \in 1..Len(q) : q[k].type = "label" /\ q[k].ref = z[i].ref
  BY <1>1, <1>2 DEF ToSet
<1>3. ASSUME NEW t, NEW j \in DOMAIN z, SetAt(z, j, t)
      PROVE  \E k \in DOMAIN q : SetAt(q, k, t)
  <2>1. j > n
    <3> SUFFICES ASSUME j \in 1..n PROVE FALSE
      BY <1>1
    <3>1. PICK k \in 1..Len(q) : q[k].type = "label" /\ q[k].ref = t
      BY <1>2, <1>3 DEF SetAt
    <3>2. n + k \in DOMAIN z /\ z[n + k] = q[k] /\ ~(n + k <= j)
      BY <1>1
    <3> QED
      BY <1>3, <3>1, <3>2 DEF SetAt
  <2> DEFINE k == j - n
  <2>2. k \in 1..Len(q) /\ z[j] = q[k] /\ j = n + k
    <3>1. k \in 1..Len(q) /\ j = n + k
      BY <1>1, <2>1
    <3> QED
      BY <1>1, <3>1
  <2> HIDE DEF k
  <2>3. ASSUME NEW l \in DOMAIN q, q[l].type = "label", q[l].ref = t PROVE l <= k
    <3>1. n + l \in DOMAIN z /\ z[n + l] = q[l] /\ l \in Nat
      BY <1>1
    <3>2. n + l <= n + k
      BY <1>3, <2>2, <2>3, <3>1 DEF SetAt
    <3> QED
      BY <1>1, <2>2, <3>1, <3>2
  <2>4. SetAt(q, k, t)
    BY <1>3, <2>2, <2>3 DEF SetAt
  <2> QED
    BY <1>1, <2>2, <2>4
<1>4. ASSUME NEW t, NEW k \in DOMAIN q, SetAt(q, k, t)
      PROVE  \E j \in DOMAIN z : SetAt(z, j, t)
  <2>1. n + k \in DOMAIN z /\ z[n + k] = q[k]
    BY <1>1
  <2>2. ASSUME NEW l \in DOMAIN z, z[l].type = "label", z[l].ref = t PROVE l <= n + k
    <3>1. CASE l <= n
      BY <1>1, <3>1
    <3>2. CASE ~(l <= n)
      <4>1. l - n \in 1..Len(q) /\ n + (l - n) = l
        BY <1>1, <3>2
      <4>2. z[l] = q[l - n]
        BY <1>1, <4>1
      <4>3. l - n <= k
        BY <1>1, <1>4, <2>2, <4>1, <4>2 DEF SetAt
      <4> QED
        BY <1>1, <4>1, <4>3
    <3> QED
      BY <3>1, <3>2
  <2>3. SetAt(z, n + k, t)
    BY <1>4, <2>1, <2>2 DEF SetAt
  <2> QED
    BY <2>1, <2>3
<1>5. \A t : t \in Labels(z) <=> t \in Labels(q)
  BY <1>3, <1>4, LabelsAreSet
<1> QED
  BY <1>5 DEF z

-----------------------------------------------------------------------------
(* The entries a file may hold, and those a session is loaded from, when n   *)
(* entries have been made.                                                  *)

Stored(n) ==
  {e \in EntrySet : /\ e.id <= n
                    /\ e.type = "session" => e = Header
                    /\ e.type \in EntryTypes => e.parentId < e.id}
Held(n) == {e \in Stored(n) : e.type \in EntryTypes \cup {"session"}}

Managers(n) ==
  [persist : BOOLEAN, sessionFile : 0..MaxFiles, flushed : BOOLEAN,
   fileEntries : Seq(Held(n)), labels : SUBSET (0..MaxEntries), leafId : 0..n]

\* A manager starts with a header; its labels and its leaf are those of its entries.
ManagerOK(m, n) ==
  /\ m \in Managers(n)
  /\ m.fileEntries # <<>> /\ m.fileEntries[1] = Header
  /\ m.labels = Labels(m.fileEntries)
  /\ m.leafId \in IdsOf(m.fileEntries) \cup {Root}

DiskOK(d, k, n) ==
  /\ DOMAIN d \subseteq 1..k
  /\ \A f \in DOMAIN d : d[f] \in Seq(Stored(n))

\* What is loaded from a file is what was loaded before, and more.
Grows(d, later) ==
  \A f \in DOMAIN d :
    f \in DOMAIN later /\ \E more \in Seq(EntrySet) : Load(later[f]) = Load(d[f]) \o more

LEMMA TypesAreDistinct ==
  /\ "session" \notin EntryTypes /\ "torn" \notin EntryTypes /\ "garbage" \notin EntryTypes
  /\ "label" \in EntryTypes /\ "user" \in EntryTypes /\ "assistant" \in EntryTypes
BY DEF EntryTypes

LEMMA HeaderHeld ==
  ASSUME BoundsAssumption, NEW n \in 0..MaxEntries
  PROVE  Header \in Held(n) /\ Torn \in Stored(n) /\ Garbage \in Stored(n) /\ Header.id = 0
BY TypesAreDistinct
   DEF Header, Torn, Garbage, Plain, Entry, Held, Stored, EntrySet, Root, BoundsAssumption

LEMMA HeldIsStored ==
  ASSUME NEW n
  PROVE  Held(n) \subseteq Stored(n) /\ Held(n) \subseteq EntrySet /\ Stored(n) \subseteq EntrySet
BY DEF Held, Stored

LEMMA StoredGrows ==
  ASSUME BoundsAssumption, NEW n \in 0..MaxEntries, NEW k \in 0..MaxEntries, n <= k
  PROVE  Stored(n) \subseteq Stored(k) /\ Held(n) \subseteq Held(k)
<1>1. \A e \in Stored(n) : e.id \in Nat /\ e.id <= k
  BY DEF Stored, EntrySet
<1> QED
  BY <1>1 DEF Stored, Held

LEMMA EntriesOfHeld ==
  ASSUME BoundsAssumption, NEW n \in 0..MaxEntries, NEW s \in Seq(Held(n))
  PROVE  /\ Rooted(s)
         /\ ById(s) \subseteq Held(n)
         /\ IdsOf(s) \subseteq 1..n
         /\ Labels(s) \subseteq 0..MaxEntries
         /\ ToSet(s) \subseteq Held(n)
<1>1. ToSet(s) \subseteq Held(n) /\ DOMAIN s = 1..Len(s)
  BY ToSetTyped, LenProperties
<1>2. \A e \in ById(s) :
        e \in Held(n) /\ e.id \in Nat /\ e.parentId \in Nat /\ e.parentId < e.id /\ e.id <= n
  BY <1>1 DEF ById, Held, Stored, EntrySet
<1>3. IdsOf(s) \subseteq 1..n
  BY <1>2 DEF IdsOf
<1>4. \A e \in Held(n) : e.ref \in 0..MaxEntries
  BY DEF Held, Stored, EntrySet
<1>5. \A j \in DOMAIN s : s[j].ref \in 0..MaxEntries
  BY <1>1, <1>4 DEF ToSet
<1>6. Labels(s) \subseteq 0..MaxEntries
  BY <1>5, LabelsAreSet
<1> QED
  BY <1>1, <1>2, <1>3, <1>6 DEF Rooted

LEMMA LastOfSeq ==
  ASSUME NEW T, NEW s \in Seq(T), s # <<>>
  PROVE  Last(s) \in T /\ Last(s) \in ToSet(s) /\ Last(s) = s[Len(s)] /\ Len(s) \in Nat \ {0}
BY EmptySeq, LenProperties DEF Last, ToSet

-----------------------------------------------------------------------------
(* Loading.                                                                 *)

LEMMA LoadTyped ==
  ASSUME NEW n, NEW lines \in Seq(Stored(n))
  PROVE  /\ Load(lines) \in Seq(Held(n))
         /\ Load(lines) # <<>> => Load(lines)[1] = Header
         /\ Load(lines) # <<>> => Load(lines) = OfTypes(lines, EntryTypes \cup {"session"})
<1> DEFINE valid == OfTypes(lines, EntryTypes \cup {"session"})
<1>1. valid \in Seq({e \in Stored(n) : e.type \in EntryTypes \cup {"session"}})
  BY OfTypesTyped
<1>2. valid \in Seq(Held(n))
  BY <1>1 DEF Held
<1>3. Load(lines) = IF valid = <<>> \/ Head(valid).type # "session" THEN <<>> ELSE valid
  BY DEF Load
<1> HIDE DEF valid
<1>4. valid # <<>> => Head(valid) = valid[1] /\ valid[1] \in Held(n)
  BY <1>2
<1>5. \A e \in Held(n) : e.type = "session" => e = Header
  BY DEF Held, Stored
<1> QED
  BY <1>2, <1>3, <1>4, <1>5 DEF valid

\* Lines behind the valid ones of a file leave what is loaded from it in front.
LEMMA LoadGrows ==
  ASSUME NEW n, NEW lines \in Seq(Stored(n)), NEW later \in Seq(Stored(n)),
         NEW more \in Seq(EntrySet),
         OfTypes(later, EntryTypes \cup {"session"}) =
           OfTypes(lines, EntryTypes \cup {"session"}) \o more
  PROVE  \E m \in Seq(EntrySet) : Load(later) = Load(lines) \o m
<1> DEFINE v == OfTypes(lines, EntryTypes \cup {"session"})
           w == OfTypes(later, EntryTypes \cup {"session"})
<1>1. v \in Seq(Held(n))
  <2> DEFINE types == EntryTypes \cup {"session"}
             T == Stored(n)
  <2>1. v \in Seq({e \in T : e.type \in types})
    <3> HIDE DEF T, types
    <3>1. OfTypes(lines, types) \in Seq({e \in T : e.type \in types})
      BY OfTypesTyped DEF T
    <3> QED
      BY <3>1 DEF types
  <2> HIDE DEF v
  <2> QED
    BY <2>1 DEF Held
<1>2. v \in Seq(EntrySet)
  <2> HIDE DEF v
  <2> QED
    BY <1>1, HeldIsStored, SeqMonotonic
<1>3. Load(later) \in Seq(EntrySet)
  <2>1. Load(later) \in Seq(Held(n))
    BY LoadTyped
  <2> QED
    BY <2>1, HeldIsStored, SeqMonotonic
<1>4. Load(lines) = IF v = <<>> \/ Head(v).type # "session" THEN <<>> ELSE v
  BY DEF Load
<1>5. Load(later) = IF w = <<>> \/ Head(w).type # "session" THEN <<>> ELSE w
  BY DEF Load
<1>6. w = v \o more
  OBVIOUS
<1> HIDE DEF v, w
<1>7. CASE Load(lines) = <<>>
  BY <1>3, <1>7, ConcatEmptySeq
<1>8. CASE Load(lines) # <<>>
  <2>1. v # <<>> /\ Head(v).type = "session" /\ Load(lines) = v
    BY <1>4, <1>8
  <2>2. w # <<>> /\ Head(w) = Head(v)
    BY <1>2, <1>6, <2>1
  <2>3. Load(later) = v \o more
    BY <1>5, <1>6, <2>1, <2>2
  <2> QED
    BY <2>1, <2>3
<1> QED
  BY <1>7, <1>8

LEMMA GrowsReflexive ==
  ASSUME NEW d, NEW n, \A f \in DOMAIN d : d[f] \in Seq(Stored(n))
  PROVE  Grows(d, d)
<1>1. ASSUME NEW f \in DOMAIN d
      PROVE  Load(d[f]) = Load(d[f]) \o <<>>
  <2>1. Load(d[f]) \in Seq(Held(n))
    BY LoadTyped
  <2> QED
    BY <2>1, ConcatEmptySeq
<1>2. <<>> \in Seq(EntrySet)
  OBVIOUS
<1> QED
  BY <1>1, <1>2 DEF Grows

LEMMA GrowsTransitive ==
  ASSUME NEW d, NEW e, NEW g, NEW n, \A f \in DOMAIN d : d[f] \in Seq(Stored(n)),
         Grows(d, e), Grows(e, g)
  PROVE  Grows(d, g)
<1> SUFFICES ASSUME NEW f \in DOMAIN d
             PROVE  f \in DOMAIN g /\ \E more \in Seq(EntrySet) : Load(g[f]) = Load(d[f]) \o more
  BY DEF Grows
<1>1. f \in DOMAIN e
  BY DEF Grows
<1>2. PICK a \in Seq(EntrySet) : Load(e[f]) = Load(d[f]) \o a
  BY DEF Grows
<1>3. PICK b \in Seq(EntrySet) : f \in DOMAIN g /\ Load(g[f]) = Load(e[f]) \o b
  BY <1>1 DEF Grows
<1>4. Load(d[f]) \in Seq(EntrySet)
  <2>1. Load(d[f]) \in Seq(Held(n))
    BY LoadTyped
  <2> QED
    BY <2>1, HeldIsStored, SeqMonotonic
<1>5. (Load(d[f]) \o a) \o b = Load(d[f]) \o (a \o b) /\ a \o b \in Seq(EntrySet)
  <2> DEFINE l == Load(d[f])
  <2>1. l \in Seq(EntrySet)
    BY <1>4
  <2> HIDE DEF l
  <2>2. a \in Seq(EntrySet) /\ b \in Seq(EntrySet)
    BY <1>2, <1>3
  <2> HIDE DEF EntrySet
  <2>3. (l \o a) \o b = l \o (a \o b)
    BY <2>1, <2>2, ConcatAssociative
  <2>4. a \o b \in Seq(EntrySet)
    BY <2>2, ConcatProperties
  <2> QED
    BY <2>3, <2>4 DEF l
<1>6. Load(g[f]) = Load(d[f]) \o (a \o b)
  BY <1>2, <1>3, <1>5
<1> QED
  BY <1>3, <1>5, <1>6

-----------------------------------------------------------------------------
(* The operations on managers and files.                                    *)

LEMMA NewOK ==
  ASSUME BoundsAssumption, NEW n \in 0..MaxEntries, NEW persist \in BOOLEAN, NEW file \in 0..MaxFiles
  PROVE  /\ ManagerOK(New(persist, file), n)
         /\ New(persist, file).persist = persist /\ New(persist, file).sessionFile = file
         /\ New(persist, file).fileEntries = <<Header>>
         /\ New(persist, file).flushed = FALSE
<1>1. Header \in Held(n) /\ <<Header>> \in Seq(Held(n)) /\ <<Header>> # <<>> /\ <<Header>>[1] = Header
  BY HeaderHeld
<1>2. Header.type = "session"
  BY DEF Header, Plain, Entry
<1>3. Labels(<<Header>>) = {}
  <2>1. \A j \in DOMAIN <<Header>> : <<Header>>[j].type # "label"
    BY <1>2
  <2> QED
    BY <2>1 DEF Labels
<1> QED
  BY <1>1, <1>3 DEF New, ManagerOK, Managers, Root, BoundsAssumption

LEMMA IndexedOK ==
  ASSUME BoundsAssumption, NEW n \in 0..MaxEntries, NEW m \in Managers(n),
         NEW entries \in Seq(Held(n)), entries # <<>>, entries[1] = Header
  PROVE  /\ ManagerOK(Indexed(m, entries), n)
         /\ Indexed(m, entries).fileEntries = entries
         /\ Indexed(m, entries).persist = m.persist
         /\ Indexed(m, entries).sessionFile = m.sessionFile
         /\ Indexed(m, entries).flushed = m.flushed
<1> DEFINE proper == Proper(entries)
           leaf == IF proper = <<>> THEN Root ELSE Last(proper).id
<1>1. proper \in Seq({e \in Held(n) : e.type \in EntryTypes}) /\ ToSet(proper) = ById(entries)
  BY OfTypesTyped DEF Proper, ById
<1>2. ById(entries) \subseteq Held(n) /\ IdsOf(entries) \subseteq 1..n /\ Labels(entries) \subseteq 0..MaxEntries
  BY EntriesOfHeld
<1> HIDE DEF proper
<1>3. proper # <<>> => Last(proper) \in ById(entries)
  BY <1>1, LastOfSeq
<1>4. leaf \in IdsOf(entries) \cup {Root} /\ leaf \in 0..n
  <2>1. CASE proper = <<>>
    BY <2>1 DEF Root
  <2>2. CASE proper # <<>>
    <3>1. leaf \in IdsOf(entries)
      BY <1>3, <2>2 DEF IdsOf
    <3> HIDE DEF leaf
    <3> QED
      BY <1>2, <3>1
  <2> QED
    BY <2>1, <2>2
<1>5. Indexed(m, entries) =
        [m EXCEPT !.fileEntries = entries, !.labels = Labels(entries), !.leafId = leaf]
  BY DEF Indexed, proper
<1> HIDE DEF leaf
<1>6. Indexed(m, entries) \in Managers(n)
  BY <1>2, <1>4, <1>5 DEF Managers
<1>7. /\ Indexed(m, entries).fileEntries = entries
      /\ Indexed(m, entries).labels = Labels(entries)
      /\ Indexed(m, entries).leafId = leaf
      /\ Indexed(m, entries).persist = m.persist
      /\ Indexed(m, entries).sessionFile = m.sessionFile
      /\ Indexed(m, entries).flushed = m.flushed
  BY <1>5 DEF Managers
<1> QED
  BY <1>4, <1>6, <1>7 DEF ManagerOK

LEMMA PutOK ==
  ASSUME NEW n, NEW d, NEW k \in Nat, DiskOK(d, k, n),
         NEW l \in Nat, l >= k, NEW file \in 1..l, NEW lines \in Seq(Stored(n))
  PROVE  DiskOK(Put(d, file, lines), l, n)
<1>1. DOMAIN Put(d, file, lines) = DOMAIN d \cup {file}
  BY DEF Put
<1>2. \A f \in DOMAIN d \cup {file} : Put(d, file, lines)[f] \in Seq(Stored(n))
  BY DEF Put, DiskOK
<1>3. DOMAIN d \cup {file} \subseteq 1..l
  BY DEF DiskOK
<1> QED
  BY <1>1, <1>2, <1>3 DEF DiskOK

\* Replacing the lines of a file by others from which as much is loaded.
LEMMA PutGrows ==
  ASSUME NEW n, NEW d, NEW k \in Nat, DiskOK(d, k, n),
         NEW file, NEW lines \in Seq(Stored(n)),
         file \in DOMAIN d => \E more \in Seq(EntrySet) : Load(lines) = Load(d[file]) \o more
  PROVE  Grows(d, Put(d, file, lines))
<1> SUFFICES ASSUME NEW f \in DOMAIN d
             PROVE  /\ f \in DOMAIN Put(d, file, lines)
                    /\ \E more \in Seq(EntrySet) : Load(Put(d, file, lines)[f]) = Load(d[f]) \o more
  BY DEF Grows
<1>1. f \in DOMAIN Put(d, file, lines)
  BY DEF Put
<1>2. CASE f = file
  <2>1. Put(d, file, lines)[f] = lines
    BY <1>2 DEF Put
  <2> QED
    BY <1>1, <1>2, <2>1
<1>3. CASE f # file
  <2>1. Put(d, file, lines)[f] = d[f]
    BY <1>3 DEF Put
  <2>2. Grows(d, d)
    BY GrowsReflexive DEF DiskOK
  <2> QED
    BY <1>1, <2>1, <2>2 DEF Grows
<1> QED
  BY <1>2, <1>3

LEMMA LinesOK ==
  ASSUME NEW n, NEW k, NEW d, DiskOK(d, k, n), NEW file
  PROVE  Lines(d, file) \in Seq(Stored(n))
BY DEF Lines, DiskOK

\* Appending lines keeps what is loaded, behind a torn line too.
LEMMA AppendLinesOK ==
  ASSUME BoundsAssumption, NEW n \in 0..MaxEntries, NEW d, NEW k \in Nat, DiskOK(d, k, n),
         NEW file, NEW lines \in Seq(Stored(n)), file \in 1..k \/ lines = <<>>
  PROVE  /\ DiskOK(AppendLines(d, file, lines), k, n)
         /\ Grows(d, AppendLines(d, file, lines))
<1> DEFINE old == Lines(d, file)
           types == EntryTypes \cup {"session"}
<1>1. CASE lines = <<>>
  <2>1. AppendLines(d, file, lines) = d
    BY <1>1 DEF AppendLines
  <2> QED
    BY <2>1, GrowsReflexive DEF DiskOK
<1>2. CASE lines # <<>> /\ ~(old # <<>> /\ Last(old) = Torn)
  <2>1. AppendLines(d, file, lines) = Put(d, file, old \o lines)
    BY <1>2 DEF AppendLines
  <2>2. old \in Seq(Stored(n))
    BY LinesOK
  <2> HIDE DEF old
  <2>3. old \o lines \in Seq(Stored(n))
    BY <2>2, ConcatProperties
  <2>4. DiskOK(Put(d, file, old \o lines), k, n)
    <3>1. file \in 1..k /\ k >= k
      BY <1>2
    <3> QED
      BY <2>3, <3>1, PutOK
  <2>5. OfTypes(old \o lines, types) = OfTypes(old, types) \o OfTypes(lines, types)
    BY <2>2, OfTypesOfConcat
  <2>6. OfTypes(lines, types) \in Seq(EntrySet)
    <3>1. lines \in Seq(EntrySet)
      BY HeldIsStored, SeqMonotonic
    <3>2. OfTypes(lines, types) \in Seq({e \in EntrySet : e.type \in types})
      BY <3>1, OfTypesTyped
    <3> QED
      BY <3>2, SeqMonotonic
  <2>7. \E more \in Seq(EntrySet) : Load(old \o lines) = Load(old) \o more
    BY <2>2, <2>3, <2>5, <2>6, LoadGrows
  <2>8. file \in DOMAIN d => old = d[file]
    BY DEF old, Lines
  <2>9. Grows(d, Put(d, file, old \o lines))
    BY <2>3, <2>7, <2>8, PutGrows
  <2> QED
    BY <2>1, <2>4, <2>9
<1>3. CASE lines # <<>> /\ old # <<>> /\ Last(old) = Torn
  <2> DEFINE line == IF Head(lines) = Torn THEN Torn ELSE Garbage
             new == Front(old) \o <<line>> \o Tail(lines)
  <2>1. AppendLines(d, file, lines) = Put(d, file, new)
    BY <1>3 DEF AppendLines
  <2>2. PICK front \in Seq(Stored(n)), last \in Stored(n) : old = Append(front, last)
    <3>1. old \in Seq(Stored(n))
      BY LinesOK
    <3> HIDE DEF old
    <3> QED
      BY <1>3, <3>1, SequenceEmptyOrAppend
  <2>3. Last(old) = last /\ Front(old) = front
    <3> HIDE DEF old
    <3>1. /\ Len(old) = Len(front) + 1 /\ old[Len(old)] = last /\ Len(front) \in Nat
          /\ \A i \in 1..Len(front) : old[i] = front[i]
      BY <2>2, AppendProperties, LenProperties
    <3>2. front = SubSeq(old, 1, Len(old) - 1)
      BY <2>2, <3>1
    <3> QED
      BY <3>1, <3>2 DEF Last, Front
  <2>4. line \in Stored(n) /\ line.type \notin types /\ last.type \notin types
    <3>1. Torn.type \notin types /\ Garbage.type \notin types
      BY TypesAreDistinct DEF Torn, Garbage, Plain, Entry
    <3>2. last = Torn
      BY <1>3, <2>3
    <3>3. Torn \in Stored(n) /\ Garbage \in Stored(n)
      BY HeaderHeld
    <3> HIDE DEF types
    <3> QED
      BY <3>1, <3>2, <3>3
  <2>5. Tail(lines) \in Seq(Stored(n))
    BY <1>3, HeadTailProperties
  <2>6. OfTypes(old, types) = OfTypes(front, types)
    BY <2>2, <2>4, OfTypesOfAppend
  <2> DEFINE tail == Tail(lines)
  <2>7. new = Append(front, line) \o tail
    <3> HIDE DEF line
    <3>1. Append(front, line) = front \o <<line>>
      BY <2>2, <2>4, AppendIsConcat
    <3> QED
      BY <2>3, <3>1
  <2> HIDE DEF new, old, line, tail
  <2>8. Append(front, line) \in Seq(Stored(n)) /\ tail \in Seq(Stored(n))
    BY <2>2, <2>4, <2>5, AppendProperties DEF tail
  <2>9. new \in Seq(Stored(n))
    BY <2>7, <2>8, ConcatProperties
  <2>10. OfTypes(new, types) = OfTypes(Append(front, line), types) \o OfTypes(tail, types)
    <3> DEFINE a == Append(front, line)
    <3>1. a \in Seq(Stored(n)) /\ tail \in Seq(Stored(n))
      BY <2>8
    <3>2. new = a \o tail
      BY <2>7
    <3> HIDE DEF a, types
    <3>3. PICK T, kinds : T = Stored(n) /\ kinds = types
      OBVIOUS
    <3>4. a \in Seq(T) /\ tail \in Seq(T)
      BY <3>1, <3>3
    <3> HIDE DEF tail
    <3>5. \A p, q \in Seq(T) : OfTypes(p \o q, kinds) = OfTypes(p, kinds) \o OfTypes(q, kinds)
      BY OfTypesOfConcat
    <3>6. OfTypes(a \o tail, kinds) = OfTypes(a, kinds) \o OfTypes(tail, kinds)
      BY <3>4, <3>5
    <3>7. OfTypes(new, types) = OfTypes(a, types) \o OfTypes(tail, types)
      BY <3>2, <3>3, <3>6
    <3> QED
      BY <3>7 DEF a
  <2>11. OfTypes(Append(front, line), types) = OfTypes(front, types)
    BY <2>2, <2>4, OfTypesOfAppend
  <2>12. OfTypes(tail, types) \in Seq(EntrySet)
    <3>1. tail \in Seq(EntrySet)
      BY <2>8, HeldIsStored, SeqMonotonic
    <3>2. OfTypes(tail, types) \in Seq({e \in EntrySet : e.type \in types})
      BY <3>1, OfTypesTyped
    <3> QED
      BY <3>2, SeqMonotonic
  <2>13. old \in Seq(Stored(n)) /\ (file \in DOMAIN d => old = d[file])
    BY LinesOK DEF old, Lines
  <2>14. OfTypes(new, types) = OfTypes(old, types) \o OfTypes(tail, types)
    BY <2>6, <2>10, <2>11
  <2>15. \E more \in Seq(EntrySet) : Load(new) = Load(old) \o more
    BY <2>9, <2>12, <2>13, <2>14, LoadGrows
  <2>16. Grows(d, Put(d, file, new))
    BY <2>9, <2>13, <2>15, PutGrows
  <2>17. DiskOK(Put(d, file, new), k, n)
    <3>1. file \in 1..k /\ k >= k
      BY <1>3
    <3> QED
      BY <2>9, <3>1, PutOK
  <2> QED
    BY <2>1, <2>16, <2>17
<1> QED
  BY <1>1, <1>2, <1>3

LEMMA FlushedOK ==
  ASSUME NEW n, NEW m, ManagerOK(m, n), NEW b \in BOOLEAN
  PROVE  LET o == [m EXCEPT !.flushed = b] IN
         /\ ManagerOK(o, n)
         /\ o.persist = m.persist /\ o.sessionFile = m.sessionFile
         /\ o.fileEntries = m.fileEntries /\ o.flushed = b
<1> DEFINE o == [m EXCEPT !.flushed = b]
<1>1. m \in Managers(n)
  BY DEF ManagerOK
<1>2. /\ o \in Managers(n) /\ o.persist = m.persist /\ o.sessionFile = m.sessionFile
      /\ o.fileEntries = m.fileEntries /\ o.labels = m.labels /\ o.leafId = m.leafId
      /\ o.flushed = b
  BY <1>1 DEF Managers
<1> HIDE DEF o
<1>3. ManagerOK(o, n)
  BY <1>2 DEF ManagerOK
<1> QED
  BY <1>2, <1>3 DEF o

LEMMA ManagerLater ==
  ASSUME BoundsAssumption, NEW n \in 0..MaxEntries, NEW k \in 0..MaxEntries, n <= k,
         NEW m, ManagerOK(m, n)
  PROVE  ManagerOK(m, k)
<1>1. m \in Managers(n)
  BY DEF ManagerOK
<1>2. m.fileEntries \in Seq(Held(k)) /\ m.leafId \in 0..k
  <2>1. m.fileEntries \in Seq(Held(n)) /\ m.leafId \in 0..n
    BY <1>1 DEF Managers
  <2>2. Held(n) \subseteq Held(k)
    BY StoredGrows
  <2> QED
    BY <2>1, <2>2, SeqMonotonic
<1>3. m \in Managers(k)
  BY <1>1, <1>2 DEF Managers
<1> QED
  BY <1>3 DEF ManagerOK

LEMMA DiskLater ==
  ASSUME BoundsAssumption, NEW n \in 0..MaxEntries, NEW k \in 0..MaxEntries, n <= k,
         NEW i \in Nat, NEW j \in Nat, i <= j, NEW d, DiskOK(d, i, n)
  PROVE  DiskOK(d, j, k)
<1>1. Stored(n) \subseteq Stored(k)
  BY StoredGrows
<1>2. \A f \in DOMAIN d : d[f] \in Seq(Stored(k))
  BY <1>1, SeqMonotonic DEF DiskOK
<1>3. DOMAIN d \subseteq 1..j
  BY DEF DiskOK
<1> QED
  BY <1>2, <1>3 DEF DiskOK

\* What a session opened from a file holds.
OpenedAs(o, file, d) ==
  /\ file \notin DOMAIN d => o.manager = New(TRUE, file) /\ o.disk = d
  /\ file \in DOMAIN d => o.manager.flushed
  /\ file \in DOMAIN d /\ Load(d[file]) = <<>> =>
       o.manager.fileEntries = <<Header>> /\ o.disk = Put(d, file, <<Header>>)
  /\ file \in DOMAIN d /\ Load(d[file]) # <<>> =>
       o.manager.fileEntries = Load(d[file]) /\ o.disk = d

LEMMA OpenedOK ==
  ASSUME BoundsAssumption, NEW n \in 0..MaxEntries, NEW k \in Nat, NEW d, DiskOK(d, k, n),
         NEW file \in 1..MaxFiles
  PROVE  /\ ManagerOK(Opened(file, d).manager, n)
         /\ Opened(file, d).manager.persist
         /\ Opened(file, d).manager.sessionFile = file
         /\ DiskOK(Opened(file, d).disk, k, n)
         /\ Grows(d, Opened(file, d).disk)
         /\ OpenedAs(Opened(file, d), file, d)
<1> DEFINE o == Opened(file, d)
           fresh == New(TRUE, file)
<1>1. /\ ManagerOK(fresh, n) /\ fresh \in Managers(n)
      /\ fresh.persist /\ fresh.sessionFile = file /\ fresh.fileEntries = <<Header>>
  <2>1. TRUE \in BOOLEAN /\ file \in 0..MaxFiles
    OBVIOUS
  <2> HIDE DEF o
  <2> QED
    BY <2>1, NewOK DEF ManagerOK
<1>2. Grows(d, d)
  BY GrowsReflexive DEF DiskOK
<1> HIDE DEF fresh
<1>3. CASE file \notin DOMAIN d
  <2>1. o = [manager |-> fresh, disk |-> d]
    BY <1>3 DEF Opened, fresh
  <2>2. o.manager = fresh /\ o.disk = d
    BY <2>1
  <2>3. DiskOK(o.disk, k, n) /\ Grows(d, o.disk) /\ ManagerOK(o.manager, n)
    BY <1>1, <1>2, <2>2
  <2> HIDE DEF o
  <2> QED
    BY <1>1, <1>3, <2>2, <2>3 DEF fresh, o, OpenedAs
<1>4. CASE file \in DOMAIN d /\ Load(d[file]) = <<>>
  <2> DEFINE m == [fresh EXCEPT !.flushed = TRUE]
  <2>1. o = [manager |-> m, disk |-> Put(d, file, <<Header>>)]
    BY <1>4 DEF Opened, fresh, Lines
  <2>2. /\ ManagerOK(m, n) /\ m.persist /\ m.sessionFile = file
        /\ m.fileEntries = <<Header>> /\ m.flushed
    BY <1>1, FlushedOK
  <2>3. file \in 1..k /\ k >= k
    BY <1>4 DEF DiskOK
  <2>4. <<Header>> \in Seq(Stored(n))
    BY HeaderHeld, HeldIsStored
  <2>5. DiskOK(Put(d, file, <<Header>>), k, n)
    BY <2>3, <2>4, PutOK
  <2>6. \E more \in Seq(EntrySet) : Load(<<Header>>) = Load(d[file]) \o more
    <3>1. Load(<<Header>>) \in Seq(EntrySet)
      BY <2>4, LoadTyped, HeldIsStored, SeqMonotonic
    <3>2. Load(<<Header>>) = <<>> \o Load(<<Header>>)
      BY <3>1, ConcatEmptySeq
    <3> QED
      BY <1>4, <3>1, <3>2
  <2>7. Grows(d, Put(d, file, <<Header>>))
    BY <2>4, <2>6, PutGrows
  <2> HIDE DEF m
  <2>8. o.manager = m /\ o.disk = Put(d, file, <<Header>>)
    BY <2>1
  <2>9. DiskOK(o.disk, k, n) /\ Grows(d, o.disk) /\ ManagerOK(o.manager, n)
    BY <2>2, <2>5, <2>7, <2>8
  <2> HIDE DEF o
  <2> QED
    BY <1>4, <2>2, <2>8, <2>9 DEF o, OpenedAs
<1>5. CASE file \in DOMAIN d /\ Load(d[file]) # <<>>
  <2> DEFINE entries == Load(d[file])
             i == Indexed(fresh, entries)
             m == [i EXCEPT !.flushed = TRUE]
  <2>1. o = [manager |-> m, disk |-> d]
    BY <1>5 DEF Opened, fresh, Lines
  <2>2. entries \in Seq(Held(n)) /\ entries # <<>> /\ entries[1] = Header
    BY <1>5, LoadTyped DEF DiskOK
  <2> HIDE DEF entries
  <2>3. /\ ManagerOK(i, n) /\ i.persist /\ i.sessionFile = file
        /\ i.fileEntries = entries
    BY <1>1, <2>2, IndexedOK
  <2> HIDE DEF i
  <2>4. /\ ManagerOK(m, n) /\ m.persist /\ m.sessionFile = file
        /\ m.fileEntries = entries /\ m.flushed
    BY <2>3, FlushedOK
  <2> HIDE DEF m
  <2>5. o.manager = m /\ o.disk = d
    BY <2>1
  <2>6. DiskOK(o.disk, k, n) /\ Grows(d, o.disk) /\ ManagerOK(o.manager, n)
    BY <1>2, <2>4, <2>5
  <2> HIDE DEF o
  <2> QED
    BY <1>5, <2>4, <2>5, <2>6 DEF entries, o, OpenedAs
<1> QED
  BY <1>3, <1>4, <1>5

LEMMA WithEntryOK ==
  ASSUME BoundsAssumption, NEW n \in Nat, n < MaxEntries, NEW m, ManagerOK(m, n),
         NEW e \in Held(n + 1), e.type \in EntryTypes, e.id = n + 1
  PROVE  LET w == WithEntry(m, e) IN
         /\ ManagerOK(w, n + 1)
         /\ w.persist = m.persist /\ w.sessionFile = m.sessionFile /\ w.flushed = m.flushed
         /\ w.fileEntries = Append(m.fileEntries, e)
<1> DEFINE w == WithEntry(m, e)
           entries == Append(m.fileEntries, e)
<1>1. n + 1 \in 0..MaxEntries /\ n \in 0..MaxEntries /\ n <= n + 1
  BY DEF BoundsAssumption
<1>2. ManagerOK(m, n + 1)
  BY <1>1, ManagerLater
<1>3. m \in Managers(n + 1) /\ m.fileEntries \in Seq(Held(n + 1))
  BY <1>2 DEF ManagerOK, Managers
<1>4. entries \in Seq(Held(n + 1)) /\ entries # <<>> /\ entries[1] = Header
  <2>1. m.fileEntries # <<>> /\ m.fileEntries[1] = Header
    BY <1>2 DEF ManagerOK
  <2>2. 1 \in 1..Len(m.fileEntries)
    BY <1>3, <2>1, EmptySeq
  <2> QED
    BY <1>3, <2>1, <2>2, AppendProperties
<1>5. Labels(entries) = LabelAfter(m.labels, e) /\ Labels(entries) \subseteq 0..MaxEntries
  <2>1. Labels(entries) = LabelAfter(Labels(m.fileEntries), e)
    BY <1>3, LabelsOfAppend
  <2>2. m.labels = Labels(m.fileEntries)
    BY <1>2 DEF ManagerOK
  <2>3. Labels(entries) \subseteq 0..MaxEntries
    BY <1>1, <1>4, EntriesOfHeld
  <2> QED
    BY <2>1, <2>2, <2>3
<1>6. e.id \in IdsOf(entries) /\ e.id \in 0..(n + 1)
  <2>1. e \in ToSet(entries)
    BY <1>3, ToSetOfAppend
  <2> QED
    BY <2>1 DEF IdsOf, ById
<1>7. w = [m EXCEPT !.fileEntries = entries, !.leafId = e.id, !.labels = Labels(entries)]
  BY <1>3, <1>5 DEF WithEntry, Managers
<1> HIDE DEF entries, w
<1>8. /\ w \in Managers(n + 1) /\ w.persist = m.persist /\ w.sessionFile = m.sessionFile
      /\ w.flushed = m.flushed /\ w.fileEntries = entries /\ w.labels = Labels(entries)
      /\ w.leafId = e.id
  BY <1>3, <1>4, <1>5, <1>6, <1>7 DEF Managers
<1>9. ManagerOK(w, n + 1)
  BY <1>4, <1>6, <1>8 DEF ManagerOK
<1> QED
  BY <1>8, <1>9 DEF w, entries

LEMMA UnwrittenTyped ==
  ASSUME NEW n, NEW m, ManagerOK(m, n)
  PROVE  /\ Unwritten(m) \in Seq(Held(n)) /\ Unwritten(m) \in Seq(Stored(n))
         /\ Unwritten(m) # <<>> => m.persist
<1>1. m.fileEntries \in Seq(Held(n)) /\ m.fileEntries # <<>>
  BY DEF ManagerOK, Managers
<1>2. Last(m.fileEntries) \in Held(n)
  BY <1>1, LastOfSeq
<1>3. Unwritten(m) \in Seq(Held(n))
  BY <1>1, <1>2 DEF Unwritten
<1> QED
  BY <1>3, HeldIsStored, SeqMonotonic DEF Unwritten

-----------------------------------------------------------------------------
(* createBranchedSession.                                                   *)

LEMMA SetToSeqTyped ==
  ASSUME NEW n \in Nat, NEW S, S \subseteq 1..n
  PROVE  SetToSeq(S) \in Seq(S)
<1>1. IsFiniteSet(S)
  <2>1. IsFiniteSet(1..n)
    BY FS_Interval
  <2>2. S \in SUBSET (1..n)
    OBVIOUS
  <2> QED
    BY <2>1, <2>2, FS_Subset
<1>2. Cardinality(S) \in Nat /\ ExistsBijection(1..Cardinality(S), S)
  BY <1>1, FS_CardinalityType
<1>3. \E f \in [1..Cardinality(S) -> S] : IsInjective(f)
  BY <1>2 DEF ExistsBijection, Bijection, Injection, IsInjective
<1>4. SetToSeq(S) \in [1..Cardinality(S) -> S]
  BY <1>3, Zenon DEF SetToSeq
<1> QED
  BY <1>2, <1>4, SeqDef

\* What is left of a path: its entries but the labels.
LEMMA KeptTyped ==
  ASSUME BoundsAssumption, NEW n \in 0..MaxEntries, NEW s \in Seq(Held(n)), NEW leafId \in Nat
  PROVE  /\ GetBranch(s, leafId) \in Seq(Held(n))
         /\ WithoutLabels(GetBranch(s, leafId)) \in Seq({e \in Held(n) : e.type \in EntryTypes \ {"label"}})
<1>1. Rooted(s) /\ ById(s) \subseteq Held(n)
  BY EntriesOfHeld
<1>2. GetBranch(s, leafId) \in Seq(ById(s))
  BY <1>1, BranchTyped
<1>3. GetBranch(s, leafId) \in Seq(Held(n))
  BY <1>1, <1>2, SeqMonotonic
<1> QED
  BY <1>3, OfTypesTyped DEF WithoutLabels

\* A sequence of label entries with ids behind those made, on the entries kept.
LabelRun(labels, kept, next) ==
  /\ labels \in Seq(Held(next + Len(labels)))
  /\ \A k \in 1..Len(labels) :
       labels[k].type = "label" /\ \E e \in ToSet(kept) : e.id = labels[k].ref

Unlabelled(n) == {e \in Held(n) : e.type \in EntryTypes \ {"label"}}

\* An extraction is a header, what is kept, and the labels.
ExtractedAs(m, d, leafId, file, next, kept, labels) ==
  LET entries == <<Header>> \o kept \o labels
      x == Extracted(m, d, leafId, file, next)
  IN  /\ x.made = Len(labels) /\ x.made \in Nat /\ LabelRun(labels, kept, next)
      /\ x.manager = IF ~m.persist THEN Indexed(m, entries)
                     ELSE [Indexed(m, entries) EXCEPT !.sessionFile = file,
                                                      !.flushed = HasAssistant(entries)]
      /\ x.disk = IF m.persist /\ HasAssistant(entries) THEN Put(d, file, entries) ELSE d

LEMMA ExtractedIs ==
  ASSUME BoundsAssumption, NEW next \in 0..MaxEntries, NEW m, ManagerOK(m, next),
         NEW d, NEW leafId \in Nat, NEW file,
         next + Extracted(m, d, leafId, file, next).made <= MaxEntries
  PROVE  \E kept, labels : kept \in Seq(Unlabelled(next)) /\ ExtractedAs(m, d, leafId, file, next, kept, labels)
<1> DEFINE kept == WithoutLabels(GetBranch(m.fileEntries, leafId))
           on == {e.id : e \in ToSet(kept)} \cap m.labels
           targets == SetToSeq(on)
           lastId == IF kept = <<>> THEN Root ELSE Last(kept).id
           labels == [k \in DOMAIN targets |->
                        Entry("label", next + k, IF k = 1 THEN lastId ELSE next + k - 1,
                              targets[k], TRUE)]
           entries == <<Header>> \o kept \o labels
           x == Extracted(m, d, leafId, file, next)
           Wanted == Unlabelled(next)
<1>1. m.fileEntries \in Seq(Held(next))
  BY DEF ManagerOK, Managers
<1>2. kept \in Seq(Wanted)
  BY <1>1, KeptTyped DEF Unlabelled
<1>3. /\ x.made = Len(labels)
      /\ x.manager = IF ~m.persist THEN Indexed(m, entries)
                     ELSE [Indexed(m, entries) EXCEPT !.sessionFile = file,
                                                      !.flushed = HasAssistant(entries)]
      /\ x.disk = IF m.persist /\ HasAssistant(entries) THEN Put(d, file, entries) ELSE d
  BY Zenon DEF Extracted
<1> HIDE DEF kept
<1>4. \A e \in ToSet(kept) : e \in Wanted
  BY <1>2, ToSetTyped
<1>5. \A e \in Wanted : e.id \in 1..next /\ e.id \in 0..next
  BY DEF Unlabelled, Held, Stored, EntrySet
<1>6. on \subseteq 1..next
  BY <1>4, <1>5
<1>7. targets \in Seq(on)
  BY <1>6, SetToSeqTyped
<1>8. lastId \in 0..next
  <2>1. kept # <<>> => Last(kept) \in Wanted
    BY <1>2, LastOfSeq
  <2> QED
    BY <1>5, <2>1 DEF Root
<1> HIDE DEF on, targets, lastId, Wanted
<1>9. Len(targets) \in Nat /\ DOMAIN targets = 1..Len(targets)
  BY <1>7, LenProperties
<1>10. DOMAIN labels = 1..Len(targets) /\ Len(labels) = Len(targets)
  BY <1>9
<1>11. next + Len(targets) <= MaxEntries
  BY <1>3, <1>10
<1>12. ASSUME NEW k \in 1..Len(targets)
       PROVE  /\ labels[k] \in Held(next + Len(targets))
              /\ labels[k].type = "label" /\ labels[k].ref \in on
  <2> DEFINE parent == IF k = 1 THEN lastId ELSE next + k - 1
  <2>1. targets[k] \in on
    BY <1>7, ElementOfSeq
  <2>2. labels[k] = Entry("label", next + k, parent, targets[k], TRUE)
    BY <1>9
  <2>3. /\ next + k \in 0..MaxEntries /\ next + k <= next + Len(targets)
        /\ parent \in 0..MaxEntries /\ parent < next + k
        /\ targets[k] \in 0..MaxEntries
    <3>1. targets[k] \in 1..next
      BY <1>6, <2>1
    <3> DEFINE t == targets[k]
               c == Len(targets)
    <3>2. t \in 1..next /\ c \in Nat /\ k \in 1..c /\ next + c <= MaxEntries /\ MaxEntries \in Nat
      BY <1>9, <1>11, <3>1 DEF BoundsAssumption
    <3> HIDE DEF t, c
    <3>3. /\ next + k \in 0..MaxEntries /\ next + k <= next + c
          /\ parent \in 0..MaxEntries /\ parent < next + k /\ t \in 0..MaxEntries
      BY <1>8, <3>2
    <3> QED
      BY <3>3 DEF t, c
  <2> HIDE DEF parent, labels
  <2>4. "label" \in EntryTypes /\ "label" # "session"
    BY TypesAreDistinct
  <2>5. Entry("label", next + k, parent, targets[k], TRUE) \in Held(next + Len(targets))
    BY <2>3, <2>4 DEF Entry, Held, Stored, EntrySet
  <2> QED
    BY <2>1, <2>2, <2>5 DEF Entry
<1>13. labels \in Seq(Held(next + Len(targets)))
  <2>1. labels \in [1..Len(targets) -> Held(next + Len(targets))]
    <3>1. labels = [k \in 1..Len(targets) |-> labels[k]]
      BY <1>9
    <3> HIDE DEF labels
    <3> QED
      BY <1>12, <3>1
  <2> HIDE DEF labels
  <2> QED
    BY <1>9, <2>1, SeqDef
<1>14. LabelRun(labels, kept, next)
  <2>1. \A k \in 1..Len(labels) :
          labels[k].type = "label" /\ \E e \in ToSet(kept) : e.id = labels[k].ref
    <3> TAKE k \in 1..Len(labels)
    <3>1. k \in 1..Len(targets)
      BY <1>10
    <3> HIDE DEF labels
    <3>2. labels[k].type = "label" /\ labels[k].ref \in on
      BY <1>12, <3>1
    <3> QED
      BY <3>2 DEF on
  <2>2. labels \in Seq(Held(next + Len(labels)))
    BY <1>10, <1>13
  <2> HIDE DEF labels
  <2> QED
    BY <2>1, <2>2 DEF LabelRun
<1> HIDE DEF labels, x
<1>15. x.made = Len(labels) /\ x.made \in Nat
  BY <1>3, <1>9, <1>10 DEF x
<1>16. ExtractedAs(m, d, leafId, file, next, kept, labels)
  BY <1>3, <1>14, <1>15 DEF ExtractedAs, x
<1> QED
  BY <1>2, <1>16 DEF Wanted

LEMMA RunBehindHeader ==
  ASSUME BoundsAssumption, NEW n \in 0..MaxEntries, NEW kept \in Seq(Held(n)), NEW labels \in Seq(Held(n))
  PROVE  LET entries == <<Header>> \o kept \o labels IN
         /\ entries \in Seq(Held(n)) /\ entries # <<>> /\ entries[1] = Header
         /\ ToSet(entries) = {Header} \cup ToSet(kept) \cup ToSet(labels)
<1> DEFINE T == Held(n)
           head == <<Header>>
<1>1. head \in Seq(T) /\ Len(head) = 1 /\ head[1] = Header /\ ToSet(head) = {Header}
  <2>1. Header \in T
    BY HeaderHeld
  <2> QED
    BY <2>1 DEF ToSet
<1> HIDE DEF T, head
<1>2. kept \in Seq(T) /\ labels \in Seq(T)
  BY DEF T
<1>3. /\ head \o kept \in Seq(T) /\ Len(head \o kept) = 1 + Len(kept) /\ (head \o kept)[1] = Header
      /\ Len(kept) \in Nat
  BY <1>1, <1>2, ConcatProperties, LenProperties
<1>4. ToSet(head \o kept) = {Header} \cup ToSet(kept)
  BY <1>1, <1>2, ToSetOfConcat
<1> DEFINE front == head \o kept
<1>5. front \in Seq(T) /\ Len(front) = 1 + Len(kept) /\ front[1] = Header
      /\ ToSet(front) = {Header} \cup ToSet(kept)
  BY <1>3, <1>4
<1> HIDE DEF front
<1>6. /\ front \o labels \in Seq(T) /\ Len(front \o labels) = 1 + Len(kept) + Len(labels)
      /\ (front \o labels)[1] = Header /\ Len(labels) \in Nat
  BY <1>2, <1>3, <1>5, ConcatProperties, LenProperties
<1>7. ToSet(front \o labels) = {Header} \cup ToSet(kept) \cup ToSet(labels)
  BY <1>2, <1>5, ToSetOfConcat
<1>8. front \o labels # <<>>
  BY <1>3, <1>6
<1> QED
  BY <1>6, <1>7, <1>8 DEF front, head, T

LEMMA ExtractedOK ==
  ASSUME BoundsAssumption, NEW next \in 0..MaxEntries, NEW m, ManagerOK(m, next),
         NEW k \in Nat, NEW d, DiskOK(d, k, next), NEW leafId \in Nat,
         NEW file, file = k + 1,
         m.persist => file <= MaxFiles, NEW made,
         made = Extracted(m, d, leafId, file, next).made, next + made <= MaxEntries
  PROVE  LET x == Extracted(m, d, leafId, file, next) IN
         /\ made \in Nat
         /\ ManagerOK(x.manager, next + made)
         /\ x.manager.persist = m.persist
         /\ m.persist => x.manager.sessionFile = file
         /\ ~m.persist => x.manager.sessionFile = m.sessionFile
         /\ DiskOK(x.disk, IF m.persist THEN k + 1 ELSE k, next + made)
         /\ Grows(d, x.disk)
<1> DEFINE x == Extracted(m, d, leafId, file, next)
<1>1. PICK kept, labels : kept \in Seq(Unlabelled(next)) /\ ExtractedAs(m, d, leafId, file, next, kept, labels)
  BY ExtractedIs
<1> DEFINE entries == <<Header>> \o kept \o labels
           n == next + made
           i == Indexed(m, entries)
<1>2. n \in 0..MaxEntries /\ next <= n /\ made \in Nat /\ made = Len(labels)
  BY <1>1 DEF ExtractedAs
<1>3. Held(next) \subseteq Held(n) /\ Stored(next) \subseteq Stored(n)
  BY <1>2, StoredGrows
<1>4. kept \in Seq(Held(n)) /\ labels \in Seq(Held(n))
  <2>1. labels \in Seq(Held(n))
    BY <1>1, <1>2 DEF ExtractedAs, LabelRun, n
  <2>2. kept \in Seq(Held(n))
    BY <1>1, <1>3, SeqMonotonic DEF Unlabelled
  <2> QED
    BY <2>1, <2>2
<1> HIDE DEF n, x
<1>5. entries \in Seq(Held(n)) /\ entries # <<>> /\ entries[1] = Header
  BY <1>2, <1>4, RunBehindHeader
<1>6. /\ x.manager = IF ~m.persist THEN i
                     ELSE [i EXCEPT !.sessionFile = file, !.flushed = HasAssistant(entries)]
      /\ x.disk = IF m.persist /\ HasAssistant(entries) THEN Put(d, file, entries) ELSE d
  BY <1>1 DEF ExtractedAs, x
<1> HIDE DEF entries
<1>7. ManagerOK(m, n) /\ m \in Managers(n)
  BY <1>2, ManagerLater DEF ManagerOK
<1>8. /\ ManagerOK(i, n) /\ i.fileEntries = entries
      /\ i.persist = m.persist /\ i.sessionFile = m.sessionFile
  BY <1>2, <1>5, <1>7, IndexedOK
<1> HIDE DEF i
<1>9. Grows(d, d) /\ DiskOK(d, k, n) /\ DiskOK(d, k + 1, n)
  <2>1. Grows(d, d)
    BY GrowsReflexive DEF DiskOK
  <2>2. k <= k /\ k <= k + 1 /\ k + 1 \in Nat
    OBVIOUS
  <2> QED
    BY <1>2, <2>1, <2>2, DiskLater
<1>10. CASE ~m.persist
  <2>1. x.manager = i /\ x.disk = d
    BY <1>6, <1>10
  <2> QED
    BY <1>2, <1>8, <1>9, <1>10, <2>1 DEF x, n
<1>11. CASE m.persist
  <2> DEFINE b == HasAssistant(entries)
             o == [i EXCEPT !.sessionFile = file, !.flushed = b]
  <2>1. b \in BOOLEAN /\ file \in 0..MaxFiles
    BY <1>11 DEF HasAssistant, BoundsAssumption
  <2>2. x.manager = o
    BY <1>6, <1>11
  <2> HIDE DEF b
  <2>3. i \in Managers(n)
    BY <1>8 DEF ManagerOK
  <2>4. /\ o \in Managers(n) /\ o.persist = i.persist /\ o.sessionFile = file
        /\ o.fileEntries = i.fileEntries /\ o.labels = i.labels /\ o.leafId = i.leafId
    BY <2>1, <2>3 DEF Managers
  <2> HIDE DEF o
  <2>5. ManagerOK(o, n)
    BY <1>8, <2>4 DEF ManagerOK
  <2>6. entries \in Seq(Stored(n))
    BY <1>5, HeldIsStored, SeqMonotonic
  <2>7. DiskOK(Put(d, file, entries), k + 1, n)
    <3>1. k + 1 \in Nat /\ k + 1 >= k + 1 /\ file \in 1..(k + 1)
      OBVIOUS
    <3> QED
      BY <1>9, <2>6, <3>1, PutOK
  <2>8. Grows(d, Put(d, file, entries))
    <3>1. file \notin DOMAIN d
      BY DEF DiskOK
    <3> QED
      BY <1>9, <2>6, <3>1, PutGrows
  <2>9. DiskOK(x.disk, k + 1, n) /\ Grows(d, x.disk)
    BY <1>6, <1>9, <2>7, <2>8
  <2> QED
    BY <1>2, <1>8, <1>11, <2>2, <2>4, <2>5, <2>9 DEF x, n
<1> QED
  BY <1>10, <1>11

-----------------------------------------------------------------------------
(* What every call keeps.                                                   *)

Base ==
  /\ up \in BOOLEAN /\ created \in 0..MaxEntries /\ files \in 0..MaxFiles
  /\ ManagerOK(manager, created)
  /\ DiskOK(disk, files, created)
  /\ manager.persist => manager.sessionFile \in 1..files

\* An entry that may be appended.
Fresh(e) ==
  /\ e \in Held(created + 1) /\ e.type \in EntryTypes /\ e.id = created + 1
  /\ e.type = "label" => e.ref \in Ids

LEMMA EntryFresh ==
  ASSUME BoundsAssumption, Base, created < MaxEntries, NEW type \in EntryTypes,
         NEW parentId \in 0..created, NEW ref \in 0..MaxEntries, NEW on \in BOOLEAN,
         type = "label" => ref \in Ids
  PROVE  Fresh(Entry(type, created + 1, parentId, ref, on))
<1> DEFINE e == Entry(type, created + 1, parentId, ref, on)
<1>1. /\ e.type = type /\ e.id = created + 1 /\ e.parentId = parentId /\ e.ref = ref
      /\ type # "session"
  BY TypesAreDistinct DEF Entry
<1>2. created \in Nat /\ MaxEntries \in Nat /\ created + 1 \in 0..MaxEntries
  BY DEF Base, BoundsAssumption
<1>3. parentId \in 0..MaxEntries /\ parentId < created + 1 /\ created + 1 <= created + 1
  BY <1>2
<1>4. e \in EntrySet
  BY <1>2, <1>3 DEF Entry, EntrySet
<1> HIDE DEF e
<1>5. e \in Stored(created + 1)
  BY <1>1, <1>3, <1>4 DEF Stored
<1> QED
  BY <1>1, <1>5 DEF Fresh, Held, e

LEMMA NewEntryFresh ==
  ASSUME BoundsAssumption, Base, created < MaxEntries, NEW type \in EntryTypes,
         NEW ref \in 0..MaxEntries, NEW on \in BOOLEAN, type = "label" => ref \in Ids
  PROVE  Fresh(NewEntry(type, ref, on))
<1>1. manager.leafId \in 0..created
  BY DEF Base, ManagerOK, Managers
<1> QED
  BY <1>1, EntryFresh DEF NewEntry

LEMMA AppendEntryKeeps ==
  ASSUME BoundsAssumption, Base, NEW e, created < MaxEntries => Fresh(e), AppendEntry(e)
  PROVE  Base' /\ Grows(disk, disk')
<1> DEFINE w == WithEntry(manager, e)
           n == created + 1
           b == IF w.persist THEN HasAssistant(w.fileEntries) ELSE w.flushed
           o == [w EXCEPT !.flushed = b]
           lines == Unwritten(w)
<1>1. /\ created < MaxEntries /\ created' = n /\ up' = up /\ files' = files
      /\ disk' = AppendLines(disk, w.sessionFile, lines)
  BY DEF AppendEntry
<1>2. created \in Nat /\ n \in 0..MaxEntries /\ created \in 0..MaxEntries /\ created <= n /\ files \in Nat
  BY <1>1 DEF Base, BoundsAssumption
<1>3. /\ ManagerOK(w, n) /\ w.persist = manager.persist /\ w.sessionFile = manager.sessionFile
      /\ w.flushed = manager.flushed
  BY <1>1, <1>2, WithEntryOK DEF Base, Fresh
<1>4. manager' = o
  BY DEF AppendEntry
<1>5. b \in BOOLEAN /\ w \in Managers(n)
  BY <1>3 DEF HasAssistant, ManagerOK, Managers
<1> HIDE DEF w, b
<1>6. ManagerOK(o, n) /\ o.persist = manager.persist /\ o.sessionFile = manager.sessionFile
  BY <1>3, <1>5, FlushedOK
<1> HIDE DEF o
<1>7. lines \in Seq(Stored(n)) /\ (lines # <<>> => w.persist)
  BY <1>3, UnwrittenTyped
<1>8. w.sessionFile \in 1..files \/ lines = <<>>
  BY <1>3, <1>7 DEF Base
<1>9. DiskOK(disk, files, n)
  BY <1>2, DiskLater DEF Base
<1> HIDE DEF lines, n
<1>10. DiskOK(disk', files, n) /\ Grows(disk, disk')
  BY <1>1, <1>2, <1>7, <1>8, <1>9, AppendLinesOK
<1> QED
  BY <1>1, <1>2, <1>4, <1>6, <1>10 DEF Base

LEMMA AppendsAreFresh ==
  ASSUME BoundsAssumption, Base,
         \/ \E role \in {"user", "assistant"} : AppendMessage(role)
         \/ AppendSetting \/ AppendCompaction \/ AppendLabel
         \/ \E id \in 0..MaxEntries : BranchWithSummary(id)
  PROVE  \E e : (created < MaxEntries => Fresh(e)) /\ AppendEntry(e)
<1>1. 0 \in 0..MaxEntries /\ MaxEntries \in Nat /\ created \in 0..MaxEntries
  BY DEF Base, BoundsAssumption
<1>2. manager.fileEntries \in Seq(Held(created)) /\ manager.leafId \in Nat
  BY <1>1 DEF Base, ManagerOK, Managers
<1>3. CASE \E role \in {"user", "assistant"} : AppendMessage(role)
  <2>1. PICK role \in {"user", "assistant"} : AppendEntry(NewEntry(role, Root, FALSE))
    BY <1>3 DEF AppendMessage
  <2>2. role \in EntryTypes /\ Root \in 0..MaxEntries
    BY <1>1 DEF EntryTypes, Root
  <2> QED
    BY <2>1, <2>2, NewEntryFresh
<1>4. CASE AppendSetting
  <2>1. AppendEntry(NewEntry("setting", Root, FALSE))
    BY <1>4 DEF AppendSetting
  <2>2. "setting" \in EntryTypes /\ Root \in 0..MaxEntries
    BY <1>1 DEF EntryTypes, Root
  <2> QED
    BY <2>1, <2>2, NewEntryFresh
<1>5. CASE AppendCompaction
  <2> DEFINE path == GetBranch(manager.fileEntries, manager.leafId)
  <2>1. PICK first \in CutPoints(path) : AppendEntry(NewEntry("compaction", first, FALSE))
    BY <1>5 DEF AppendCompaction
  <2>2. path \in Seq(Held(created))
    BY <1>1, <1>2, KeptTyped
  <2> HIDE DEF path
  <2>3. first \in {path[i].id : i \in DOMAIN path}
    BY <2>1 DEF CutPoints
  <2>4. \A e \in Held(created) : e.id \in 0..MaxEntries
    BY DEF Held, Stored, EntrySet
  <2>5. \A i \in DOMAIN path : path[i] \in Held(created)
    BY <2>2
  <2>6. first \in 0..MaxEntries /\ "compaction" \in EntryTypes
    BY <2>3, <2>4, <2>5 DEF EntryTypes
  <2> QED
    BY <2>1, <2>6, NewEntryFresh
<1>6. CASE AppendLabel
  <2>1. PICK target \in Ids, on \in BOOLEAN : AppendEntry(NewEntry("label", target, on))
    BY <1>6 DEF AppendLabel
  <2>2. Ids \subseteq 1..created
    BY <1>1, <1>2, EntriesOfHeld DEF Ids
  <2>3. target \in 0..MaxEntries /\ "label" \in EntryTypes
    BY <1>1, <2>1, <2>2 DEF EntryTypes
  <2> QED
    BY <2>1, <2>3, NewEntryFresh
<1>7. CASE \E id \in 0..MaxEntries : BranchWithSummary(id)
  <2>1. PICK id \in Ids \cup {Root} :
          AppendEntry(Entry("branch_summary", created + 1, id, Root, FALSE))
    BY <1>7 DEF BranchWithSummary
  <2>2. Ids \subseteq 1..created
    BY <1>1, <1>2, EntriesOfHeld DEF Ids
  <2>3. id \in 0..created /\ "branch_summary" \in EntryTypes /\ Root \in 0..MaxEntries
    BY <1>1, <2>1, <2>2 DEF EntryTypes, Root
  <2> QED
    BY <2>1, <2>3, EntryFresh
<1> QED
  BY <1>3, <1>4, <1>5, <1>6, <1>7

LEMMA BranchKeeps ==
  ASSUME BoundsAssumption, Base, ResetLeaf \/ \E id \in 0..MaxEntries : Branch(id)
  PROVE  Base' /\ disk' = disk
<1>1. PICK id \in Ids \cup {Root} :
        /\ manager' = [manager EXCEPT !.leafId = id]
        /\ UNCHANGED <<up, disk, created, files>>
  BY DEF ResetLeaf, Branch
<1>2. manager \in Managers(created) /\ manager.fileEntries \in Seq(Held(created)) /\ created \in 0..MaxEntries
  BY DEF Base, ManagerOK, Managers
<1>3. Ids \subseteq 1..created
  BY <1>2, EntriesOfHeld DEF Ids
<1>4. id \in 0..created
  BY <1>2, <1>3 DEF Root
<1>5. /\ manager' \in Managers(created) /\ manager'.persist = manager.persist
      /\ manager'.sessionFile = manager.sessionFile /\ manager'.fileEntries = manager.fileEntries
      /\ manager'.labels = manager.labels /\ manager'.leafId = id
  BY <1>1, <1>2, <1>4 DEF Managers
<1>6. ManagerOK(manager', created)
  BY <1>5 DEF Base, ManagerOK, Ids
<1> QED
  BY <1>1, <1>5, <1>6 DEF Base

LEMMA CreateBranchedSessionKeeps ==
  ASSUME BoundsAssumption, Base, NEW id \in 1..MaxEntries, CreateBranchedSession(id)
  PROVE  Base' /\ Grows(disk, disk')
<1> DEFINE x == Extracted(manager, disk, id, files + 1, created)
           made == x.made
           file == files + 1
<1>1. /\ manager.persist => files < MaxFiles
      /\ created + made <= MaxEntries
      /\ manager' = x.manager /\ disk' = x.disk /\ created' = created + made /\ up' = up
      /\ files' = IF manager.persist THEN files + 1 ELSE files
  BY DEF CreateBranchedSession
<1>2. /\ created \in 0..MaxEntries /\ ManagerOK(manager, created) /\ files \in Nat
      /\ DiskOK(disk, files, created) /\ MaxEntries \in Nat /\ MaxFiles \in Nat /\ id \in Nat
      /\ files \in 0..MaxFiles
  BY DEF Base, BoundsAssumption
<1>3. manager.persist => file <= MaxFiles
  BY <1>1, <1>2
<1>4. /\ made \in Nat
      /\ ManagerOK(x.manager, created + made)
      /\ x.manager.persist = manager.persist
      /\ manager.persist => x.manager.sessionFile = file
      /\ ~manager.persist => x.manager.sessionFile = manager.sessionFile
      /\ DiskOK(x.disk, IF manager.persist THEN files + 1 ELSE files, created + made)
      /\ Grows(disk, x.disk)
  BY <1>1, <1>2, <1>3, ExtractedOK
<1> HIDE DEF x, made
<1>5. created' \in 0..MaxEntries /\ files' \in 0..MaxFiles
  BY <1>1, <1>2, <1>4
<1>6. manager'.persist => manager'.sessionFile \in 1..files'
  BY <1>1, <1>2, <1>4
<1> QED
  BY <1>1, <1>4, <1>5, <1>6 DEF Base

\* newSession, called by itself and by a fork in front of the first message.
Begins(persist) ==
  /\ persist => files < MaxFiles
  /\ up' \in BOOLEAN
  /\ manager' = New(persist, IF persist THEN files + 1 ELSE 0)
  /\ files' = IF persist THEN files + 1 ELSE files
  /\ disk' = disk /\ created' = created

LEMMA BeginsKeeps ==
  ASSUME BoundsAssumption, Base, NEW persist \in BOOLEAN, Begins(persist)
  PROVE  Base' /\ disk' = disk
<1> DEFINE file == IF persist THEN files + 1 ELSE 0
<1>1. /\ persist => files < MaxFiles
      /\ up' \in BOOLEAN /\ manager' = New(persist, file)
      /\ files' = IF persist THEN files + 1 ELSE files
      /\ disk' = disk /\ created' = created
  BY DEF Begins
<1>2. /\ created \in 0..MaxEntries /\ files \in 0..MaxFiles /\ MaxFiles \in Nat
      /\ DiskOK(disk, files, created)
  BY DEF Base, BoundsAssumption
<1>3. files' \in 0..MaxFiles /\ file \in 0..MaxFiles /\ files <= files' /\ (persist => file \in 1..files')
  BY <1>1, <1>2
<1> HIDE DEF file
<1>4. /\ ManagerOK(New(persist, file), created)
      /\ New(persist, file).persist = persist /\ New(persist, file).sessionFile = file
  BY <1>2, <1>3, NewOK
<1>5. DiskOK(disk, files', created)
  BY <1>2, <1>3, DiskLater
<1> QED
  BY <1>1, <1>2, <1>3, <1>4, <1>5 DEF Base

LEMMA OpenKeeps ==
  ASSUME BoundsAssumption, Base, NEW file \in 1..MaxFiles, Open(file)
  PROVE  Base' /\ Grows(disk, disk')
<1> DEFINE o == Opened(file, disk)
<1>1. /\ up' = TRUE /\ manager' = o.manager /\ disk' = o.disk
      /\ files' = IF file > files THEN file ELSE files
      /\ created' = created
  BY DEF Open
<1>2. /\ created \in 0..MaxEntries /\ files \in 0..MaxFiles /\ MaxFiles \in Nat /\ files \in Nat
      /\ DiskOK(disk, files, created)
  BY DEF Base, BoundsAssumption
<1>3. /\ ManagerOK(o.manager, created) /\ o.manager.persist /\ o.manager.sessionFile = file
      /\ DiskOK(o.disk, files, created) /\ Grows(disk, o.disk)
  BY <1>2, OpenedOK
<1> HIDE DEF o
<1>4. files' \in 0..MaxFiles /\ files <= files' /\ file \in 1..files' /\ files' \in Nat
  BY <1>1, <1>2
<1>5. DiskOK(o.disk, files', created)
  BY <1>2, <1>3, <1>4, DiskLater
<1> QED
  BY <1>1, <1>2, <1>3, <1>4, <1>5 DEF Base

\* What forkFrom writes.
LEMMA CopyTyped ==
  ASSUME BoundsAssumption, NEW n \in 0..MaxEntries, NEW s \in Seq(Held(n))
  PROVE  /\ Proper(s) \in Seq(Held(n)) /\ ToSet(Proper(s)) = ById(s)
         /\ <<Header>> \o Proper(s) \in Seq(Held(n))
         /\ <<Header>> \o Proper(s) \in Seq(Stored(n))
<1>1. Proper(s) \in Seq({e \in Held(n) : e.type \in EntryTypes}) /\ ToSet(Proper(s)) = ById(s)
  BY OfTypesTyped DEF Proper, ById
<1>2. Proper(s) \in Seq(Held(n))
  BY <1>1, SeqMonotonic
<1>3. <<Header>> \in Seq(Held(n))
  BY HeaderHeld
<1>4. <<Header>> \o Proper(s) \in Seq(Held(n))
  BY <1>2, <1>3, ConcatProperties
<1> QED
  BY <1>1, <1>2, <1>4, HeldIsStored, SeqMonotonic

LEMMA ForkFromKeeps ==
  ASSUME BoundsAssumption, Base, NEW file \in 1..MaxFiles, ForkFrom(file)
  PROVE  Base' /\ Grows(disk, disk')
<1> DEFINE to == files + 1
           entries == <<Header>> \o Proper(Load(Lines(disk, file)))
           d == Put(disk, to, entries)
           o == Opened(to, d)
<1>1. /\ up' = TRUE /\ manager' = o.manager /\ disk' = o.disk
      /\ files' = to /\ created' = created /\ files < MaxFiles
  BY DEF ForkFrom
<1>2. /\ created \in 0..MaxEntries /\ files \in 0..MaxFiles /\ MaxFiles \in Nat /\ files \in Nat
      /\ DiskOK(disk, files, created)
  BY DEF Base, BoundsAssumption
<1>3. to \in Nat /\ files <= to /\ to \in 1..to /\ to \in 1..MaxFiles /\ to \in 0..MaxFiles /\ to \notin DOMAIN disk
  BY <1>1, <1>2 DEF DiskOK
<1>4. entries \in Seq(Stored(created))
  <2>1. Load(Lines(disk, file)) \in Seq(Held(created))
    BY <1>2, LinesOK, LoadTyped
  <2> QED
    BY <1>2, <2>1, CopyTyped
<1> HIDE DEF entries, to
<1>5. DiskOK(d, to, created) /\ Grows(disk, d)
  BY <1>2, <1>3, <1>4, PutOK, PutGrows
<1> HIDE DEF d
<1>6. /\ ManagerOK(o.manager, created) /\ o.manager.persist /\ o.manager.sessionFile = to
      /\ DiskOK(o.disk, to, created) /\ Grows(d, o.disk)
  BY <1>2, <1>3, <1>5, OpenedOK
<1> HIDE DEF o
<1>7. Grows(disk, o.disk)
  BY <1>2, <1>5, <1>6, GrowsTransitive DEF DiskOK
<1> QED
  BY <1>1, <1>2, <1>3, <1>6, <1>7 DEF Base

LEMMA EmptyFileKeeps ==
  ASSUME BoundsAssumption, Base, EmptyFile
  PROVE  Base' /\ Grows(disk, disk')
<1> DEFINE to == files + 1
           none == <<>>
<1>1. /\ disk' = Put(disk, to, none) /\ files' = to /\ files < MaxFiles
      /\ UNCHANGED <<up, manager, created>>
  BY DEF EmptyFile
<1>2. /\ created \in 0..MaxEntries /\ files \in 0..MaxFiles /\ MaxFiles \in Nat /\ files \in Nat
      /\ DiskOK(disk, files, created)
  BY DEF Base, BoundsAssumption
<1>3. to \in Nat /\ files <= to /\ to \in 1..to /\ to \in 0..MaxFiles /\ to \notin DOMAIN disk
  BY <1>1, <1>2 DEF DiskOK
<1>4. none \in Seq(Stored(created))
  OBVIOUS
<1>5. manager.persist => manager.sessionFile \in 1..to
  BY <1>2 DEF Base
<1> HIDE DEF none, to
<1>6. DiskOK(disk', to, created) /\ Grows(disk, disk')
  BY <1>1, <1>2, <1>3, <1>4, PutOK, PutGrows
<1> QED
  BY <1>1, <1>3, <1>5, <1>6 DEF Base

LEMMA StoppedOK ==
  ASSUME BoundsAssumption, NEW n \in 0..MaxEntries
  PROVE  ManagerOK(New(FALSE, 0), n) /\ New(FALSE, 0).persist = FALSE
<1>1. 0 \in 0..MaxFiles /\ FALSE \in BOOLEAN
  BY DEF BoundsAssumption
<1> QED
  BY <1>1, NewOK

LEMMA CrashKeeps ==
  ASSUME BoundsAssumption, Base, Crash
  PROVE  Base' /\ disk' = disk
<1>1. up' = FALSE /\ manager' = New(FALSE, 0) /\ UNCHANGED <<disk, created, files>>
  BY DEF Crash
<1>2. ManagerOK(New(FALSE, 0), created) /\ New(FALSE, 0).persist = FALSE
  BY StoppedOK DEF Base
<1> QED
  BY <1>1, <1>2 DEF Base

\* The three ways a fork goes.
ForkInMemory(parent) ==
  LET x == Extracted(manager, disk, parent, files + 1, created) IN
  /\ ~manager.persist
  /\ created + x.made <= MaxEntries
  /\ manager' = x.manager /\ disk' = x.disk /\ created' = created + x.made
  /\ files' = files /\ up' = up

ForkOfFile(parent) ==
  LET source == Opened(manager.sessionFile, disk)
      x == Extracted(source.manager, source.disk, parent, files + 1, created)
      target == Opened(files + 1, x.disk)
  IN  /\ manager.persist /\ files < MaxFiles
      /\ created + x.made <= MaxEntries
      /\ manager' = target.manager /\ disk' = target.disk /\ created' = created + x.made
      /\ files' = files + 1 /\ up' = up

LEMMA ForkCases ==
  ASSUME BoundsAssumption, Base, NEW id \in 1..MaxEntries, Fork(id)
  PROVE  \/ Begins(manager.persist)
         \/ \E parent \in Nat : ForkInMemory(parent)
         \/ \E parent \in Nat : ForkOfFile(parent)
<1> DEFINE entry == Last(GetBranch(manager.fileEntries, id))
           parent == entry.parentId
<1>1. created \in 0..MaxEntries /\ manager.fileEntries \in Seq(Held(created)) /\ id \in Nat /\ up \in BOOLEAN
  BY DEF Base, ManagerOK, Managers
<1>2. Rooted(manager.fileEntries)
  BY <1>1, EntriesOfHeld
<1>3. id \in IdsOf(manager.fileEntries)
  BY DEF Fork, Ids
<1>4. entry \in ById(manager.fileEntries)
  <2>1. PICK front \in Seq(ById(manager.fileEntries)), e \in ById(manager.fileEntries) :
          GetBranch(manager.fileEntries, id) = Append(front, e)
    BY <1>1, <1>2, <1>3, BranchTyped
  <2>2. Append(front, e) # <<>> /\ Append(front, e) \in Seq(ById(manager.fileEntries))
    BY AppendProperties
  <2> QED
    BY <2>1, <2>2, LastOfSeq
<1>5. parent \in Nat
  BY <1>2, <1>4 DEF Rooted
<1>6. CASE parent = Root
  <2>1. Begins(manager.persist)
    BY <1>1, <1>6 DEF Fork, Begins
  <2> QED
    BY <2>1
<1>7. CASE parent # Root /\ ~manager.persist
  <2>1. ForkInMemory(parent)
    BY <1>7 DEF Fork, ForkInMemory
  <2> QED
    BY <1>5, <2>1
<1>8. CASE parent # Root /\ manager.persist
  <2>1. ForkOfFile(parent)
    BY <1>8 DEF Fork, ForkOfFile
  <2> QED
    BY <1>5, <2>1
<1> QED
  BY <1>6, <1>7, <1>8

LEMMA ForkInMemoryKeeps ==
  ASSUME BoundsAssumption, Base, NEW parent \in Nat, ForkInMemory(parent)
  PROVE  Base' /\ Grows(disk, disk')
<1> DEFINE x == Extracted(manager, disk, parent, files + 1, created)
           made == x.made
           file == files + 1
<1>1. /\ ~manager.persist
      /\ created + made <= MaxEntries
      /\ manager' = x.manager /\ disk' = x.disk /\ created' = created + made /\ up' = up
      /\ files' = files
  BY DEF ForkInMemory
<1>2. /\ created \in 0..MaxEntries /\ ManagerOK(manager, created) /\ files \in Nat
      /\ DiskOK(disk, files, created) /\ MaxEntries \in Nat
  BY DEF Base, BoundsAssumption
<1>3. /\ made \in Nat
      /\ ManagerOK(x.manager, created + made)
      /\ x.manager.persist = manager.persist
      /\ DiskOK(x.disk, IF manager.persist THEN files + 1 ELSE files, created + made)
      /\ Grows(disk, x.disk)
  BY <1>1, <1>2, ExtractedOK
<1> HIDE DEF x, made
<1>4. created' \in 0..MaxEntries
  BY <1>1, <1>2, <1>3
<1> QED
  BY <1>1, <1>3, <1>4 DEF Base

LEMMA ForkOfFileKeeps ==
  ASSUME BoundsAssumption, Base, NEW parent \in Nat, ForkOfFile(parent)
  PROVE  Base' /\ Grows(disk, disk')
<1> DEFINE file == files + 1
           source == Opened(manager.sessionFile, disk)
           sm == source.manager
           sd == source.disk
           x == Extracted(sm, sd, parent, file, created)
           made == x.made
           xd == x.disk
           target == Opened(file, xd)
           n == created + made
<1>1. /\ manager.persist /\ files < MaxFiles
      /\ n <= MaxEntries
      /\ manager' = target.manager /\ disk' = target.disk /\ created' = n /\ up' = up
      /\ files' = file
  BY DEF ForkOfFile
<1>2. /\ created \in 0..MaxEntries /\ files \in Nat /\ files \in 0..MaxFiles
      /\ DiskOK(disk, files, created) /\ MaxEntries \in Nat /\ MaxFiles \in Nat
      /\ manager.sessionFile \in 1..files
  BY <1>1 DEF Base, BoundsAssumption
<1>3. manager.sessionFile \in 1..MaxFiles /\ file \in 1..MaxFiles /\ file <= MaxFiles /\ file \in Nat
  BY <1>1, <1>2
<1>4. ManagerOK(sm, created) /\ DiskOK(sd, files, created) /\ Grows(disk, sd) /\ sm.persist
  BY <1>2, <1>3, OpenedOK
<1> HIDE DEF sm, sd
<1>5. /\ made \in Nat
      /\ DiskOK(xd, IF sm.persist THEN files + 1 ELSE files, created + made)
      /\ Grows(sd, xd)
  BY <1>1, <1>2, <1>3, <1>4, ExtractedOK
<1>6. DiskOK(xd, file, n) /\ n \in 0..MaxEntries
  BY <1>1, <1>2, <1>4, <1>5
<1> HIDE DEF xd, made, n, file
<1>7. /\ ManagerOK(target.manager, n) /\ target.manager.sessionFile = file
      /\ DiskOK(target.disk, file, n) /\ Grows(xd, target.disk)
  BY <1>3, <1>6, OpenedOK
<1> HIDE DEF target
<1>8. Grows(disk, xd)
  BY <1>2, <1>4, <1>5, GrowsTransitive DEF DiskOK
<1>9. Grows(disk, target.disk)
  BY <1>2, <1>7, <1>8, GrowsTransitive DEF DiskOK
<1>10. file \in 0..MaxFiles /\ file \in 1..file
  BY <1>3
<1> QED
  BY <1>1, <1>2, <1>6, <1>7, <1>9, <1>10 DEF Base

\* A crash leaves the first n of the lines being appended, and may tear the next.
CutShort(e, n, end) ==
  LET lines == Unwritten(WithEntry(manager, e))
      cut == SubSeq(lines, 1, n) \o end
  IN  /\ Fresh(e) /\ n \in 0..Len(lines)
      /\ end = <<>> \/ ("torn" \in Disturbances /\ end = <<Torn>>)
      /\ created < MaxEntries /\ manager.persist
      /\ cut \in Seq(Stored(created + 1))
      /\ disk' = AppendLines(disk, manager.sessionFile, cut)
      /\ created' = created + 1 /\ up' = FALSE /\ manager' = New(FALSE, 0) /\ files' = files

LEMMA CrashDuringAppendIs ==
  ASSUME BoundsAssumption, Base, CrashDuringAppend
  PROVE  \E e, n, end : CutShort(e, n, end)
<1>1. created < MaxEntries /\ created' = created + 1 /\ up' = FALSE /\ manager' = New(FALSE, 0) /\ files' = files
  BY DEF CrashDuringAppend
<1>2. PICK role \in {"user", "assistant"} :
        LET lines == Unwritten(WithEntry(manager, NewEntry(role, Root, FALSE))) IN
        \E n \in 0..Len(lines), torn \in BOOLEAN :
          /\ torn => "torn" \in Disturbances /\ n < Len(lines)
          /\ n > 0 \/ torn
          /\ disk' = AppendLines(disk, manager.sessionFile,
                                 SubSeq(lines, 1, n) \o (IF torn THEN <<Torn>> ELSE <<>>))
  BY DEF CrashDuringAppend
<1> DEFINE e == NewEntry(role, Root, FALSE)
           lines == Unwritten(WithEntry(manager, e))
<1>3. PICK n \in 0..Len(lines), torn \in BOOLEAN :
        /\ torn => "torn" \in Disturbances /\ n < Len(lines)
        /\ n > 0 \/ torn
        /\ disk' = AppendLines(disk, manager.sessionFile,
                               SubSeq(lines, 1, n) \o (IF torn THEN <<Torn>> ELSE <<>>))
  BY <1>2
<1>4. Fresh(e)
  <2>1. role \in EntryTypes /\ role # "label" /\ Root \in 0..MaxEntries
    BY DEF EntryTypes, Root, BoundsAssumption
  <2> QED
    BY <1>1, <2>1, NewEntryFresh
<1>5. created \in Nat /\ created + 1 \in 0..MaxEntries
  BY <1>1 DEF Base, BoundsAssumption
<1> HIDE DEF e
<1>6. ManagerOK(WithEntry(manager, e), created + 1) /\ WithEntry(manager, e).persist = manager.persist
  BY <1>1, <1>4, <1>5, WithEntryOK DEF Base, Fresh
<1>7. lines \in Seq(Stored(created + 1)) /\ (lines # <<>> => manager.persist)
  BY <1>6, UnwrittenTyped
<1> DEFINE end == IF torn THEN <<Torn>> ELSE <<>>
<1>8. manager.persist
  <2> HIDE DEF lines
  <2>1. lines # <<>>
    BY <1>3, <1>7
  <2> QED
    BY <1>7, <2>1
<1>9. end \in Seq(Stored(created + 1)) /\ (end = <<>> \/ ("torn" \in Disturbances /\ end = <<Torn>>))
  <2>1. Torn \in Stored(created + 1)
    BY <1>5, HeaderHeld
  <2> HIDE DEF lines
  <2>2. CASE torn
    <3>1. end = <<Torn>> /\ "torn" \in Disturbances
      BY <1>3, <2>2
    <3>2. <<Torn>> \in Seq(Stored(created + 1))
      BY <2>1
    <3> HIDE DEF end
    <3> QED
      BY <3>1, <3>2
  <2>3. CASE ~torn
    <3>1. end = <<>>
      BY <2>3
    <3>2. <<>> \in Seq(Stored(created + 1))
      OBVIOUS
    <3> HIDE DEF end
    <3> QED
      BY <3>1, <3>2
  <2> QED
    BY <2>2, <2>3
<1> HIDE DEF end, lines
<1>10. SubSeq(lines, 1, n) \in Seq(Stored(created + 1))
  <2>1. \A i \in 1..n : lines[i] \in Stored(created + 1)
    BY <1>3, <1>7, ElementOfSeq, LenProperties
  <2>2. n \in Int
    BY <1>3, <1>7, LenProperties
  <2> QED
    BY <2>1, <2>2, SubSeqProperties
<1>11. SubSeq(lines, 1, n) \o end \in Seq(Stored(created + 1))
  BY <1>9, <1>10, ConcatProperties
<1>12. disk' = AppendLines(disk, manager.sessionFile, SubSeq(lines, 1, n) \o end)
  BY <1>3 DEF end
<1>13. CutShort(e, n, end)
  BY <1>1, <1>3, <1>4, <1>8, <1>9, <1>11, <1>12 DEF CutShort, lines
<1> QED
  BY <1>13

LEMMA CrashDuringAppendKeeps ==
  ASSUME BoundsAssumption, Base, CrashDuringAppend
  PROVE  Base' /\ Grows(disk, disk')
<1>1. PICK e, n, end : CutShort(e, n, end)
  BY CrashDuringAppendIs
<1> DEFINE cut == SubSeq(Unwritten(WithEntry(manager, e)), 1, n) \o end
<1>2. /\ created < MaxEntries /\ manager.persist
      /\ cut \in Seq(Stored(created + 1))
      /\ disk' = AppendLines(disk, manager.sessionFile, cut)
      /\ created' = created + 1 /\ up' = FALSE /\ manager' = New(FALSE, 0) /\ files' = files
  BY <1>1 DEF CutShort
<1> HIDE DEF cut
<1>3. /\ created \in 0..MaxEntries /\ created + 1 \in 0..MaxEntries /\ created <= created + 1
      /\ files \in 0..MaxFiles /\ files \in Nat /\ manager.sessionFile \in 1..files
      /\ DiskOK(disk, files, created)
  BY <1>2 DEF Base, BoundsAssumption
<1>4. DiskOK(disk, files, created + 1)
  BY <1>3, DiskLater
<1>5. DiskOK(disk', files, created + 1) /\ Grows(disk, disk')
  BY <1>2, <1>3, <1>4, AppendLinesOK
<1>6. ManagerOK(New(FALSE, 0), created + 1) /\ New(FALSE, 0).persist = FALSE
  BY <1>3, StoppedOK
<1> QED
  BY <1>2, <1>3, <1>5, <1>6 DEF Base

-----------------------------------------------------------------------------
(* Files only grow, and the labels of a session are those of its entries.   *)

LEMMA InitOK ==
  ASSUME BoundsAssumption, Init
  PROVE  Base
<1>1. 0 \in 0..MaxEntries /\ 0 \in 0..MaxFiles
  BY DEF BoundsAssumption
<1>2. ManagerOK(New(FALSE, 0), 0) /\ New(FALSE, 0).persist = FALSE
  BY <1>1, StoppedOK
<1>3. /\ up = FALSE /\ manager = New(FALSE, 0) /\ DOMAIN disk = {} /\ created = 0 /\ files = 0
  BY DEF Init
<1>4. DiskOK(disk, files, created)
  BY <1>3 DEF DiskOK
<1> QED
  BY <1>1, <1>2, <1>3, <1>4 DEF Base

LEMMA DiskGrowsItself ==
  ASSUME Base, disk' = disk
  PROVE  Grows(disk, disk')
BY GrowsReflexive DEF Base, DiskOK

LEMMA NextKeeps ==
  ASSUME BoundsAssumption, Base, [Next]_vars
  PROVE  Base' /\ Grows(disk, disk')
<1>1. CASE \/ \E role \in {"user", "assistant"} : AppendMessage(role)
           \/ AppendSetting \/ AppendCompaction \/ AppendLabel
           \/ \E id \in 0..MaxEntries : BranchWithSummary(id)
  BY <1>1, AppendsAreFresh, AppendEntryKeeps
<1>2. CASE ResetLeaf \/ \E id \in 0..MaxEntries : Branch(id)
  BY <1>2, BranchKeeps, DiskGrowsItself
<1>3. CASE \E id \in 1..MaxEntries : CreateBranchedSession(id)
  BY <1>3, CreateBranchedSessionKeeps
<1>4. CASE \E id \in 1..MaxEntries : Fork(id)
  <2>1. CASE Begins(manager.persist)
    <3>1. manager.persist \in BOOLEAN
      BY DEF Base, ManagerOK, Managers
    <3> QED
      BY <2>1, <3>1, BeginsKeeps, DiskGrowsItself
  <2>2. CASE \E parent \in Nat : ForkInMemory(parent)
    BY <2>2, ForkInMemoryKeeps
  <2>3. CASE \E parent \in Nat : ForkOfFile(parent)
    BY <2>3, ForkOfFileKeeps
  <2> QED
    BY <1>4, <2>1, <2>2, <2>3, ForkCases
<1>5. CASE \E persist \in BOOLEAN : NewSession(persist)
  <2>1. PICK persist \in BOOLEAN : NewSession(persist)
    BY <1>5
  <2>2. Begins(persist)
    BY <2>1 DEF NewSession, Begins
  <2> QED
    BY <2>2, BeginsKeeps, DiskGrowsItself
<1>6. CASE \E file \in 1..MaxFiles : Open(file)
  BY <1>6, OpenKeeps
<1>7. CASE \E file \in 1..MaxFiles : ForkFrom(file)
  BY <1>7, ForkFromKeeps
<1>8. CASE Crash
  BY <1>8, CrashKeeps, DiskGrowsItself
<1>9. CASE CrashDuringAppend
  BY <1>9, CrashDuringAppendKeeps
<1>10. CASE EmptyFile
  BY <1>10, EmptyFileKeeps
<1>11. CASE UNCHANGED vars
  <2>1. Base' /\ disk' = disk
    BY <1>11 DEF vars, Base
  <2> QED
    BY <2>1, DiskGrowsItself
<1> QED
  BY <1>1, <1>2, <1>3, <1>4, <1>5, <1>6, <1>7, <1>8, <1>9, <1>10, <1>11 DEF Next

\* What has grown has what was there as a prefix.
LEMMA GrowsIsPrefix ==
  ASSUME Base, Grows(disk, disk'), NEW f \in DOMAIN disk
  PROVE  f \in DOMAIN disk' /\ IsPrefix(Load(disk[f]), Load(disk'[f]))
<1> DEFINE a == Load(disk[f])
           b == Load(disk'[f])
<1>1. a \in Seq(EntrySet)
  <2>1. disk[f] \in Seq(Stored(created))
    BY DEF Base, DiskOK
  <2>2. a \in Seq(Held(created))
    BY <2>1, LoadTyped
  <2> HIDE DEF a
  <2> QED
    BY <2>2, HeldIsStored, SeqMonotonic
<1>2. PICK more \in Seq(EntrySet) : b = a \o more
  BY DEF Grows
<1>3. f \in DOMAIN disk'
  BY DEF Grows
<1> HIDE DEF a, b
<1>4. /\ Len(b) = Len(a) + Len(more) /\ Len(a) \in Nat /\ Len(more) \in Nat
      /\ \A i \in 1..Len(a) : b[i] = a[i]
  BY <1>1, <1>2, ConcatProperties, LenProperties
<1>5. IsPrefix(a, b)
  BY <1>1, <1>4 DEF IsPrefix
<1> QED
  BY <1>3, <1>5 DEF a, b

\* Whatever is appended, extracted, forked, reopened or cut short by a crash, and
\* whatever lines a crash tore, the entries a session file gives when it is loaded
\* stay its first entries for ever (_persist, setSessionFile, forkFrom).
THEOREM GrowTheorem == ASSUME BoundsAssumption PROVE Spec => FilesOnlyGrow
<1>1. Init => Base
  BY InitOK
<1>2. Base /\ [Next]_vars => Base'
  BY NextKeeps
<1>3. Base /\ [Next]_vars =>
        [\A f \in DOMAIN disk : f \in DOMAIN disk' /\ IsPrefix(Load(disk[f]), Load(disk'[f]))]_disk
  BY NextKeeps, GrowsIsPrefix
<1> QED
  BY <1>1, <1>2, <1>3, PTL DEF Spec, FilesOnlyGrow

\* The label map that appendLabelChange and createBranchedSession keep up to date
\* is the one _buildIndex makes of the same entries, at every moment.
THEOREM LabelsTheorem == ASSUME BoundsAssumption PROVE Spec => []LabelsReplay
<1>1. Init => Base
  BY InitOK
<1>2. Base /\ [Next]_vars => Base'
  BY NextKeeps
<1>3. Base => LabelsReplay
  BY DEF Base, ManagerOK, LabelsReplay
<1> QED
  BY <1>1, <1>2, <1>3, PTL DEF Spec

-----------------------------------------------------------------------------
(* Labels come after the entries they are on.                               *)

Closed(s) ==
  \A i \in DOMAIN s : s[i].type = "label" =>
    \E j \in 1..(i - 1) : s[j].type \in EntryTypes /\ s[j].id = s[i].ref

LEMMA ClosedLabels ==
  ASSUME NEW T, NEW s \in Seq(T), Closed(s)
  PROVE  Labels(s) \subseteq IdsOf(s)
<1>1. DOMAIN s = 1..Len(s) /\ Len(s) \in Nat
  BY LenProperties
<1>2. ASSUME NEW t \in Labels(s)
      PROVE  t \in IdsOf(s)
  <2>1. PICK i \in DOMAIN s : SetAt(s, i, t)
    BY <1>2, LabelsAreSet
  <2>2. PICK j \in 1..(i - 1) : s[j].type \in EntryTypes /\ s[j].id = t
    BY <2>1 DEF SetAt, Closed
  <2>3. j \in DOMAIN s
    BY <1>1, <2>1, <2>2
  <2> QED
    BY <2>2, <2>3 DEF IdsOf, ById, ToSet
<1> QED
  BY <1>2

LEMMA ClosedOfConcat ==
  ASSUME NEW T, NEW s \in Seq(T), NEW q \in Seq(T), Closed(s),
         \A i \in 1..Len(q) : q[i].type = "label" =>
           \/ q[i].ref \in IdsOf(s)
           \/ \E j \in 1..(i - 1) : q[j].type \in EntryTypes /\ q[j].id = q[i].ref
  PROVE  Closed(s \o q)
<1> DEFINE z == s \o q
           n == Len(s)
<1>1. /\ DOMAIN z = 1..(n + Len(q)) /\ DOMAIN s = 1..n /\ DOMAIN q = 1..Len(q)
      /\ n \in Nat /\ Len(q) \in Nat
      /\ \A i \in 1..(n + Len(q)) : z[i] = IF i <= n THEN s[i] ELSE q[i - n]
  BY ConcatProperties, LenProperties
<1> HIDE DEF z, n
<1>2. ASSUME NEW i \in DOMAIN z, z[i].type = "label"
      PROVE  \E j \in 1..(i - 1) : z[j].type \in EntryTypes /\ z[j].id = z[i].ref
  <2>1. CASE i <= n
    <3>1. i \in DOMAIN s /\ z[i] = s[i]
      BY <1>1, <2>1
    <3>2. PICK j \in 1..(i - 1) : s[j].type \in EntryTypes /\ s[j].id = s[i].ref
      BY <1>2, <3>1 DEF Closed
    <3>3. z[j] = s[j]
      BY <1>1, <2>1, <3>2
    <3> QED
      BY <3>1, <3>2, <3>3
  <2>2. CASE ~(i <= n)
    <3> DEFINE k == i - n
    <3>1. k \in 1..Len(q) /\ i = n + k /\ z[i] = q[k]
      BY <1>1, <2>2
    <3> HIDE DEF k
    <3>2. CASE q[k].ref \in IdsOf(s)
      <4>1. PICK j \in 1..n : s[j].type \in EntryTypes /\ s[j].id = q[k].ref
        BY <1>1, <3>2 DEF IdsOf, ById, ToSet
      <4>2. j \in 1..(i - 1) /\ z[j] = s[j]
        BY <1>1, <3>1, <4>1
      <4> QED
        BY <3>1, <4>1, <4>2
    <3>3. CASE \E j \in 1..(k - 1) : q[j].type \in EntryTypes /\ q[j].id = q[k].ref
      <4>1. PICK j \in 1..(k - 1) : q[j].type \in EntryTypes /\ q[j].id = q[k].ref
        BY <3>3
      <4>2. n + j \in 1..(i - 1) /\ n + j \in 1..(n + Len(q)) /\ ~(n + j <= n) /\ (n + j) - n = j
        BY <1>1, <3>1, <4>1
      <4>3. z[n + j] = q[j]
        BY <1>1, <4>2
      <4> QED
        BY <3>1, <4>1, <4>2, <4>3
    <3> QED
      BY <1>2, <3>1, <3>2, <3>3
  <2> QED
    BY <2>1, <2>2
<1>3. Closed(z)
  BY <1>2 DEF Closed
<1> QED
  BY <1>3 DEF z

LEMMA ClosedOfClosed ==
  ASSUME NEW T, NEW s \in Seq(T), NEW q \in Seq(T), Closed(s), Closed(q)
  PROVE  Closed(s \o q)
<1>1. DOMAIN q = 1..Len(q)
  BY LenProperties
<1>2. \A i \in 1..Len(q) : q[i].type = "label" =>
           \/ q[i].ref \in IdsOf(s)
           \/ \E j \in 1..(i - 1) : q[j].type \in EntryTypes /\ q[j].id = q[i].ref
  BY <1>1 DEF Closed
<1> QED
  BY <1>2, ClosedOfConcat

LEMMA ClosedOfAppend ==
  ASSUME NEW T, NEW s \in Seq(T), NEW e \in T
  PROVE  Closed(Append(s, e)) <=> Closed(s) /\ (e.type = "label" => e.ref \in IdsOf(s))
<1> DEFINE z == Append(s, e)
           n == Len(s)
<1>1. /\ DOMAIN z = 1..(n + 1) /\ DOMAIN s = 1..n /\ n \in Nat /\ z[n + 1] = e
      /\ \A i \in 1..n : z[i] = s[i]
  BY AppendProperties, LenProperties
<1> HIDE DEF z, n
<1>2. e.ref \in IdsOf(s) <=> \E j \in 1..n : z[j].type \in EntryTypes /\ z[j].id = e.ref
  BY <1>1 DEF IdsOf, ById, ToSet
<1>3. Closed(s) <=> \A i \in 1..n : z[i].type = "label" =>
                      \E j \in 1..(i - 1) : z[j].type \in EntryTypes /\ z[j].id = z[i].ref
  <2>1. \A i \in 1..n : \A j \in 1..(i - 1) : z[i] = s[i] /\ z[j] = s[j]
    BY <1>1
  <2> QED
    BY <1>1, <2>1 DEF Closed
<1>4. Closed(z) <=> /\ \A i \in 1..n : z[i].type = "label" =>
                         \E j \in 1..(i - 1) : z[j].type \in EntryTypes /\ z[j].id = z[i].ref
                    /\ z[n + 1].type = "label" =>
                         \E j \in 1..n : z[j].type \in EntryTypes /\ z[j].id = z[n + 1].ref
  <2>1. (n + 1) - 1 = n /\ \A i : i \in 1..(n + 1) <=> i \in 1..n \/ i = n + 1
    BY <1>1
  <2> QED
    BY <1>1, <2>1 DEF Closed
<1>5. Closed(z) <=> Closed(s) /\ (e.type = "label" => e.ref \in IdsOf(s))
  BY <1>1, <1>2, <1>3, <1>4
<1> QED
  BY <1>5 DEF z

LEMMA ClosedOfPrefix ==
  ASSUME NEW T, NEW s \in Seq(T), Closed(s), NEW n \in 0..Len(s)
  PROVE  SubSeq(s, 1, n) \in Seq(T) /\ Closed(SubSeq(s, 1, n))
         /\ Len(SubSeq(s, 1, n)) = n /\ \A i \in 1..n : SubSeq(s, 1, n)[i] = s[i]
<1> DEFINE z == SubSeq(s, 1, n)
<1>1. Len(s) \in Nat /\ DOMAIN s = 1..Len(s) /\ s \in [1..Len(s) -> T] /\ n \in Nat
  BY LenProperties
<1>2. \A i \in 1..n : s[i] \in T
  BY <1>1
<1>3. z \in Seq(T) /\ Len(z) = n /\ \A i \in 1..n : z[i] = s[i]
  BY <1>1, <1>2
<1> HIDE DEF z
<1>4. DOMAIN z = 1..n
  BY <1>3, LenProperties
<1>5. ASSUME NEW i \in 1..n, z[i].type = "label"
      PROVE  \E j \in 1..(i - 1) : z[j].type \in EntryTypes /\ z[j].id = z[i].ref
  <2>1. i \in DOMAIN s /\ z[i] = s[i]
    BY <1>1, <1>3
  <2>2. PICK j \in 1..(i - 1) : s[j].type \in EntryTypes /\ s[j].id = s[i].ref
    BY <1>5, <2>1 DEF Closed
  <2>3. z[j] = s[j]
    BY <1>1, <1>3, <2>2
  <2> QED
    BY <2>1, <2>2, <2>3
<1>6. Closed(z)
  BY <1>4, <1>5 DEF Closed
<1> QED
  BY <1>3, <1>6 DEF z

\* The entries without the headers.
LEMMA ClosedOfProper ==
  ASSUME NEW T, NEW s \in Seq(T), Closed(s)
  PROVE  Closed(Proper(s))
<1> DEFINE P == {t \in Seq(T) : Closed(t) => Closed(Proper(t))}
<1>1. <<>> \in P
  <2>1. Proper(<<>>) = <<>>
    BY OfTypesOfEmpty DEF Proper
  <2> QED
    BY <2>1
<1>2. ASSUME NEW t \in P, NEW e \in T
      PROVE  Append(t, e) \in P
  <2>1. Append(t, e) \in Seq(T)
    BY AppendProperties
  <2> SUFFICES ASSUME Closed(Append(t, e)) PROVE Closed(Proper(Append(t, e)))
    BY <2>1
  <2>2. Closed(t) /\ (e.type = "label" => e.ref \in IdsOf(t))
    BY ClosedOfAppend
  <2>3. Proper(Append(t, e)) = IF e.type \in EntryTypes THEN Append(Proper(t), e) ELSE Proper(t)
    BY OfTypesOfAppend DEF Proper
  <2> DEFINE Wanted == {x \in T : x.type \in EntryTypes}
  <2>4. Proper(t) \in Seq(Wanted) /\ ToSet(Proper(t)) = {x \in ToSet(t) : x.type \in EntryTypes}
    BY OfTypesTyped DEF Proper
  <2>5. ById(Proper(t)) = ById(t)
    BY <2>4 DEF ById
  <2>6. IdsOf(Proper(t)) = IdsOf(t)
    BY <2>5 DEF IdsOf
  <2>7. Closed(Proper(t))
    BY <2>2
  <2>8. CASE e.type \in EntryTypes
    <3>1. e \in Wanted
      BY <2>8
    <3> HIDE DEF Wanted
    <3>2. Closed(Append(Proper(t), e))
      BY <2>2, <2>4, <2>6, <2>7, <3>1, ClosedOfAppend
    <3> QED
      BY <2>3, <2>8, <3>2
  <2>9. CASE e.type \notin EntryTypes
    BY <2>3, <2>7, <2>9
  <2> QED
    BY <2>8, <2>9
<1> HIDE DEF P
<1>3. P \in SUBSET Seq(T)
  BY DEF P
<1>4. P = Seq(T)
  BY <1>1, <1>2, <1>3, SeqInduction
<1> QED
  BY <1>4 DEF P

-----------------------------------------------------------------------------
(* Sessions and files when no line is torn.                                 *)

Clean(s) ==
  /\ \A i \in DOMAIN s : s[i].type \in EntryTypes \cup {"session"}
  /\ s # <<>> => s[1] = Header
  /\ Closed(s)

DiskClean(d) == \A f \in DOMAIN d : Clean(d[f])

\* A session against the lines in its file.  Those of a session not flushed may be
\* fewer: a crash left the first of them, or none is written yet.
Complete(m, lines) ==
  /\ ById(lines) \subseteq ById(m.fileEntries)
  /\ m.flushed => /\ lines # <<>> /\ ById(lines) = ById(m.fileEntries)
                  /\ Labels(lines) = m.labels
  /\ HasAssistant(m.fileEntries) => m.flushed

Faithful ==
  /\ DiskClean(disk)
  /\ Closed(manager.fileEntries)
  /\ manager.persist => Complete(manager, Lines(disk, manager.sessionFile))

LEMMA CleanIsHeld ==
  ASSUME NEW n, NEW s \in Seq(Stored(n)), Clean(s)
  PROVE  s \in Seq(Held(n)) /\ Load(s) = s /\ (s # <<>> => Last(s) # Torn)
<1>1. DOMAIN s = 1..Len(s) /\ Len(s) \in Nat /\ s \in [1..Len(s) -> Stored(n)]
  BY LenProperties
<1>2. \A i \in 1..Len(s) : s[i] \in Held(n)
  BY <1>1 DEF Clean, Held
<1>3. s \in Seq(Held(n))
  <2>1. s \in [1..Len(s) -> Held(n)]
    BY <1>1, <1>2
  <2> QED
    BY <1>1, <2>1, SeqDef
<1>4. OfTypes(s, EntryTypes \cup {"session"}) = s
  <2>1. \A e \in Held(n) : e.type \in EntryTypes \cup {"session"}
    BY DEF Held
  <2> QED
    BY <1>3, <2>1, OfTypesOfAll
<1>5. s # <<>> => Head(s) = s[1] /\ s[1] = Header /\ Header.type = "session"
  BY <1>3 DEF Clean, Header, Plain, Entry
<1>6. Load(s) = s
  BY <1>4, <1>5 DEF Load
<1>7. s # <<>> => Last(s) # Torn
  <2>1. Torn \notin Held(n)
    BY TypesAreDistinct DEF Held, Torn, Plain, Entry
  <2> QED
    BY <1>3, <2>1, LastOfSeq
<1> QED
  BY <1>3, <1>6, <1>7

LEMMA HeldIsClean ==
  ASSUME NEW n, NEW s \in Seq(Held(n)), s # <<>> => s[1] = Header, Closed(s)
  PROVE  Clean(s)
BY DEF Clean, Held

LEMMA HeaderAlone ==
  /\ Clean(<<Header>>) /\ Closed(<<Header>>) /\ ~HasAssistant(<<Header>>)
  /\ ById(<<Header>>) = {} /\ ById(<<>>) = {} /\ Clean(<<>>)
<1>1. Header.type = "session"
  BY DEF Header, Plain, Entry
<1>2. ToSet(<<Header>>) = {Header} /\ ToSet(<<>>) = {} /\ DOMAIN <<Header>> = {1} /\ <<Header>>[1] = Header
  BY DEF ToSet
<1>3. Closed(<<Header>>) /\ Closed(<<>>)
  BY <1>1, <1>2 DEF Closed
<1>4. Clean(<<Header>>) /\ Clean(<<>>)
  BY <1>1, <1>2, <1>3 DEF Clean
<1>5. ById(<<Header>>) = {} /\ ById(<<>>) = {} /\ ~HasAssistant(<<Header>>)
  BY <1>1, <1>2, TypesAreDistinct DEF ById, HasAssistant
<1> QED
  BY <1>3, <1>4, <1>5

LEMMA PutClean ==
  ASSUME NEW d, DiskClean(d), NEW file, NEW lines, Clean(lines)
  PROVE  DiskClean(Put(d, file, lines)) /\ Lines(Put(d, file, lines), file) = lines
BY DEF DiskClean, Put, Lines

LEMMA LinesClean ==
  ASSUME NEW d, DiskClean(d), NEW file
  PROVE  Clean(Lines(d, file))
BY HeaderAlone DEF DiskClean, Lines

LEMMA AppendLinesClean ==
  ASSUME BoundsAssumption, NEW n \in 0..MaxEntries, NEW d, NEW k \in Nat, DiskOK(d, k, n), DiskClean(d),
         NEW file, NEW lines \in Seq(Held(n)), Clean(Lines(d, file) \o lines)
  PROVE  /\ DiskClean(AppendLines(d, file, lines))
         /\ Lines(AppendLines(d, file, lines), file) = Lines(d, file) \o lines
<1> DEFINE old == Lines(d, file)
<1>1. old \in Seq(Stored(n)) /\ Clean(old)
  BY LinesOK, LinesClean
<1> HIDE DEF old
<1>2. old \in Seq(Held(n)) /\ (old # <<>> => Last(old) # Torn)
  BY <1>1, CleanIsHeld
<1>3. CASE lines = <<>>
  <2>1. AppendLines(d, file, lines) = d
    BY <1>3 DEF AppendLines
  <2>2. old \o lines = old
    BY <1>2, <1>3, ConcatEmptySeq
  <2> QED
    BY <2>1, <2>2 DEF old
<1>4. CASE lines # <<>>
  <2>1. AppendLines(d, file, lines) = Put(d, file, old \o lines)
    BY <1>2, <1>4 DEF AppendLines, old
  <2>2. Clean(old \o lines)
    BY DEF old
  <2>3. DiskClean(Put(d, file, old \o lines)) /\ Lines(Put(d, file, old \o lines), file) = old \o lines
    <3> DEFINE new == old \o lines
    <3>1. Clean(new)
      BY <2>2
    <3> HIDE DEF new
    <3>2. DiskClean(Put(d, file, new)) /\ Lines(Put(d, file, new), file) = new
      BY <3>1, PutClean
    <3> QED
      BY <3>2 DEF new
  <2> QED
    BY <2>1, <2>3 DEF old
<1> QED
  BY <1>3, <1>4

LEMMA OpenedClean ==
  ASSUME BoundsAssumption, NEW n \in 0..MaxEntries, NEW k \in Nat, NEW d, DiskOK(d, k, n),
         DiskClean(d), NEW file \in 1..MaxFiles
  PROVE  /\ DiskClean(Opened(file, d).disk)
         /\ Closed(Opened(file, d).manager.fileEntries)
         /\ Complete(Opened(file, d).manager, Lines(Opened(file, d).disk, file))
<1> DEFINE o == Opened(file, d)
           m == o.manager
<1>1. ManagerOK(m, n) /\ OpenedAs(o, file, d)
  BY OpenedOK
<1> HIDE DEF o, m
<1>2. m.labels = Labels(m.fileEntries)
  BY <1>1 DEF ManagerOK
<1>3. CASE file \notin DOMAIN d
  <2>1. m = New(TRUE, file) /\ o.disk = d
    BY <1>1, <1>3 DEF OpenedAs, m
  <2>2. m.fileEntries = <<Header>> /\ m.flushed = FALSE
    BY <2>1 DEF New
  <2>3. Lines(o.disk, file) = <<>>
    BY <1>3, <2>1 DEF Lines
  <2>4. Complete(m, Lines(o.disk, file))
    BY <2>2, <2>3, HeaderAlone DEF Complete
  <2>5. DiskClean(o.disk) /\ Closed(m.fileEntries)
    BY <2>1, <2>2, HeaderAlone
  <2> QED
    BY <2>4, <2>5 DEF o, m
<1>4. CASE file \in DOMAIN d /\ Load(d[file]) = <<>>
  <2>1. m.flushed /\ m.fileEntries = <<Header>> /\ o.disk = Put(d, file, <<Header>>)
    BY <1>1, <1>4 DEF OpenedAs, m
  <2>2. DiskClean(o.disk) /\ Lines(o.disk, file) = <<Header>> /\ <<Header>> # <<>>
    BY <2>1, HeaderAlone, PutClean
  <2>3. Complete(m, Lines(o.disk, file)) /\ Closed(m.fileEntries)
    BY <1>2, <2>1, <2>2, HeaderAlone DEF Complete
  <2> QED
    BY <2>2, <2>3 DEF o, m
<1>5. CASE file \in DOMAIN d /\ Load(d[file]) # <<>>
  <2>1. m.flushed /\ m.fileEntries = Load(d[file]) /\ o.disk = d
    BY <1>1, <1>5 DEF OpenedAs, m
  <2>2. Clean(d[file]) /\ Load(d[file]) = d[file] /\ Lines(o.disk, file) = d[file] /\ d[file] # <<>>
    BY <1>5, <2>1, CleanIsHeld DEF DiskOK, DiskClean, Lines
  <2>3. Complete(m, Lines(o.disk, file)) /\ Closed(m.fileEntries)
    BY <1>2, <2>1, <2>2 DEF Complete, Clean
  <2> QED
    BY <2>1, <2>3 DEF o, m
<1> QED
  BY <1>3, <1>4, <1>5

\* The entries of an extracted session.
LEMMA RunClosed ==
  ASSUME BoundsAssumption, NEW n \in 0..MaxEntries, NEW kept \in Seq(Held(n)), NEW labels \in Seq(Held(n)),
         \A i \in 1..Len(kept) : kept[i].type \in EntryTypes \ {"label"},
         \A k \in 1..Len(labels) : \E e \in ToSet(kept) : e.id = labels[k].ref
  PROVE  Closed(<<Header>> \o kept \o labels)
<1> DEFINE T == Held(n)
           head == <<Header>>
           front == head \o kept
<1>1. Closed(head) /\ head \in Seq(T)
  BY HeaderAlone, HeaderHeld
<1> HIDE DEF T, head
<1>2. kept \in Seq(T) /\ labels \in Seq(T)
  BY DEF T
<1>3. Closed(kept) /\ DOMAIN kept = 1..Len(kept)
  BY <1>2, LenProperties DEF Closed
<1>4. Closed(front) /\ front \in Seq(T) /\ ToSet(front) = ToSet(head) \cup ToSet(kept)
  BY <1>1, <1>2, <1>3, ClosedOfClosed, ConcatProperties, ToSetOfConcat
<1> HIDE DEF front
<1>5. ASSUME NEW k \in 1..Len(labels) PROVE labels[k].ref \in IdsOf(front)
  <2>1. PICK e \in ToSet(kept) : e.id = labels[k].ref
    OBVIOUS
  <2>2. e.type \in EntryTypes
    BY <1>3 DEF ToSet
  <2> QED
    BY <1>4, <2>1, <2>2 DEF IdsOf, ById
<1>6. Closed(front \o labels)
  BY <1>2, <1>4, <1>5, ClosedOfConcat
<1> QED
  BY <1>6 DEF front, head

LEMMA ExtractedClean ==
  ASSUME BoundsAssumption, NEW next \in 0..MaxEntries, NEW m, ManagerOK(m, next),
         NEW k \in Nat, NEW d, DiskOK(d, k, next), DiskClean(d), NEW leafId \in Nat,
         NEW file, file = k + 1, m.persist => file <= MaxFiles,
         next + Extracted(m, d, leafId, file, next).made <= MaxEntries
  PROVE  LET x == Extracted(m, d, leafId, file, next) IN
         /\ DiskClean(x.disk) /\ Closed(x.manager.fileEntries)
         /\ m.persist => Complete(x.manager, Lines(x.disk, file))
<1> DEFINE x == Extracted(m, d, leafId, file, next)
           n == next + x.made
<1>1. PICK kept, labels : kept \in Seq(Unlabelled(next)) /\ ExtractedAs(m, d, leafId, file, next, kept, labels)
  BY ExtractedIs
<1> DEFINE entries == <<Header>> \o kept \o labels
           i == Indexed(m, entries)
<1>2. n \in 0..MaxEntries /\ next <= n /\ x.made = Len(labels) /\ LabelRun(labels, kept, next)
  BY <1>1 DEF ExtractedAs
<1>3. kept \in Seq(Held(n)) /\ labels \in Seq(Held(n))
  <2>1. labels \in Seq(Held(n))
    BY <1>2 DEF LabelRun
  <2>2. Held(next) \subseteq Held(n)
    BY <1>2, StoredGrows
  <2> HIDE DEF n
  <2> QED
    BY <1>1, <2>1, <2>2, SeqMonotonic DEF Unlabelled
<1>4. /\ x.manager = IF ~m.persist THEN i
                     ELSE [i EXCEPT !.sessionFile = file, !.flushed = HasAssistant(entries)]
      /\ x.disk = IF m.persist /\ HasAssistant(entries) THEN Put(d, file, entries) ELSE d
  BY <1>1 DEF ExtractedAs
<1>5. \A j \in 1..Len(kept) : kept[j].type \in EntryTypes \ {"label"}
  BY <1>1, ElementOfSeq DEF Unlabelled
<1>6. \A j \in 1..Len(labels) : \E e \in ToSet(kept) : e.id = labels[j].ref
  BY <1>2 DEF LabelRun
<1> HIDE DEF n, x
<1>7. Closed(entries)
  BY <1>2, <1>3, <1>5, <1>6, RunClosed
<1>8. entries \in Seq(Held(n)) /\ entries # <<>> /\ entries[1] = Header
  BY <1>2, <1>3, RunBehindHeader
<1> HIDE DEF entries
<1>9. Clean(entries)
  BY <1>7, <1>8, HeldIsClean
<1>10. m \in Managers(n)
  BY <1>2, ManagerLater DEF ManagerOK
<1>11. ManagerOK(i, n) /\ i.fileEntries = entries
  BY <1>2, <1>8, <1>10, IndexedOK
<1>12. i \in Managers(n) /\ i.labels = Labels(entries)
  BY <1>11 DEF ManagerOK
<1> HIDE DEF i
<1>13. CASE ~m.persist
  <2>1. x.manager = i /\ x.disk = d
    BY <1>4, <1>13
  <2> QED
    BY <1>7, <1>11, <1>13, <2>1 DEF x
<1>14. CASE m.persist
  <2> DEFINE b == HasAssistant(entries)
             o == [i EXCEPT !.sessionFile = file, !.flushed = b]
  <2>1. x.manager = o /\ x.disk = IF b THEN Put(d, file, entries) ELSE d
    BY <1>4, <1>14
  <2>2. b \in BOOLEAN /\ (b <=> HasAssistant(entries))
    BY DEF HasAssistant
  <2> HIDE DEF b
  <2>3. o.fileEntries = entries /\ o.labels = Labels(entries) /\ o.flushed = b
    BY <1>11, <1>12 DEF Managers
  <2> HIDE DEF o
  <2>4. CASE b
    <3>1. x.disk = Put(d, file, entries)
      BY <2>1, <2>4
    <3>2. DiskClean(x.disk) /\ Lines(x.disk, file) = entries
      BY <1>9, <3>1, PutClean
    <3>3. Complete(o, entries)
      BY <1>8, <2>3, <2>4 DEF Complete
    <3> QED
      BY <1>7, <2>1, <2>3, <3>2, <3>3 DEF x
  <2>5. CASE ~b
    <3>1. x.disk = d /\ file \notin DOMAIN d
      BY <2>1, <2>5 DEF DiskOK
    <3>2. Lines(x.disk, file) = <<>>
      BY <3>1 DEF Lines
    <3>3. Complete(o, <<>>)
      BY <2>2, <2>3, <2>5, HeaderAlone DEF Complete
    <3> QED
      BY <1>7, <2>1, <2>3, <3>1, <3>2, <3>3 DEF x
  <2> QED
    BY <2>4, <2>5
<1> QED
  BY <1>13, <1>14

LEMMA ByIdOfConcat ==
  ASSUME NEW T, NEW s \in Seq(T), NEW q \in Seq(T)
  PROVE  ById(s \o q) = ById(s) \cup ById(q)
<1>1. ToSet(s \o q) = ToSet(s) \cup ToSet(q)
  BY ToSetOfConcat
<1> QED
  BY <1>1 DEF ById

\* The first entries of a session, or all of them, behind lines of it.
LEMMA BehindIsClean ==
  ASSUME NEW n, NEW old \in Seq(Stored(n)), Clean(old), NEW lines \in Seq(Held(n)), Closed(lines),
         lines # <<>> => lines[1] = Header
  PROVE  Clean(old \o lines)
<1>1. old \in Seq(Held(n))
  BY CleanIsHeld
<1> DEFINE T == Held(n)
           z == old \o lines
<1>2. old \in Seq(T) /\ lines \in Seq(T)
  BY <1>1
<1> HIDE DEF T, z
<1>3. Closed(z)
  BY <1>2, ClosedOfClosed DEF Clean, z
<1>4. z \in Seq(T) /\ Len(z) = Len(old) + Len(lines) /\ Len(old) \in Nat /\ Len(lines) \in Nat
      /\ \A i \in 1..(Len(old) + Len(lines)) : z[i] = IF i <= Len(old) THEN old[i] ELSE lines[i - Len(old)]
  BY <1>2, ConcatProperties, LenProperties DEF z
<1>5. z # <<>> => z[1] = Header
  <2>1. CASE old = <<>>
    <3>1. z = lines
      BY <1>2, <2>1, ConcatEmptySeq DEF z
    <3> QED
      BY <3>1
  <2>2. CASE old # <<>>
    <3>1. Len(old) >= 1 /\ old[1] = Header
      BY <1>2, <1>4, <2>2, EmptySeq DEF Clean
    <3> QED
      BY <1>4, <3>1
  <2> QED
    BY <2>1, <2>2
<1>6. Clean(z)
  BY <1>3, <1>4, <1>5, HeldIsClean DEF T
<1> QED
  BY <1>6 DEF z

\* One entry more behind all the others.
LEMMA AppendedIsClean ==
  ASSUME NEW n, NEW old \in Seq(Stored(n)), Clean(old), old # <<>>, NEW e \in Held(n),
         e.type = "label" => e.ref \in IdsOf(old)
  PROVE  Clean(Append(old, e))
<1>1. old \in Seq(Held(n))
  BY CleanIsHeld
<1>2. Closed(Append(old, e))
  BY <1>1, ClosedOfAppend DEF Clean
<1>3. 1 \in 1..Len(old)
  BY <1>1, EmptySeq
<1>4. Append(old, e) \in Seq(Held(n)) /\ Append(old, e)[1] = Header
  BY <1>1, <1>3, AppendProperties DEF Clean
<1> QED
  BY <1>2, <1>4, HeldIsClean

\* A session with an entry more, e, and the lines its file may have then.
LEMMA AppendedEntries ==
  ASSUME BoundsAssumption, Base, Faithful, created < MaxEntries, NEW e, Fresh(e),
         NEW F, F = Append(manager.fileEntries, e), NEW w, w = WithEntry(manager, e)
  PROVE  /\ created + 1 \in 0..MaxEntries
         /\ F \in Seq(Held(created + 1)) /\ F # <<>> /\ F[1] = Header /\ Closed(F)
         /\ manager.fileEntries \in Seq(Held(created + 1)) /\ e \in Held(created + 1)
         /\ ById(F) = ById(manager.fileEntries) \cup {e} /\ Last(F) = e
         /\ w.fileEntries = F /\ w.persist = manager.persist
         /\ w.sessionFile = manager.sessionFile /\ w.flushed = manager.flushed
         /\ w.labels = Labels(F) /\ Labels(F) = LabelAfter(manager.labels, e)
         /\ w \in Managers(created + 1)
<1>1. created \in Nat /\ created \in 0..MaxEntries /\ created + 1 \in 0..MaxEntries /\ created <= created + 1
  BY DEF Base, BoundsAssumption
<1>2. /\ ManagerOK(w, created + 1) /\ w.persist = manager.persist /\ w.sessionFile = manager.sessionFile
      /\ w.flushed = manager.flushed /\ w.fileEntries = F
  BY <1>1, WithEntryOK DEF Base, Fresh
<1>3. F \in Seq(Held(created + 1)) /\ F # <<>> /\ F[1] = Header /\ w.labels = Labels(F) /\ w \in Managers(created + 1)
  BY <1>2 DEF ManagerOK, Managers
<1>4. ManagerOK(manager, created + 1) /\ e \in Held(created + 1)
  BY <1>1, ManagerLater DEF Base, Fresh
<1>5. manager.fileEntries \in Seq(Held(created + 1)) /\ manager.labels = Labels(manager.fileEntries)
  BY <1>4 DEF ManagerOK, Managers
<1>6. Labels(F) = LabelAfter(manager.labels, e)
  BY <1>4, <1>5, LabelsOfAppend
<1>7. Closed(F)
  BY <1>4, <1>5, ClosedOfAppend DEF Faithful, Fresh, Ids
<1>8. ById(F) = ById(manager.fileEntries) \cup {e}
  <2>1. ToSet(F) = ToSet(manager.fileEntries) \cup {e}
    BY <1>5, ToSetOfAppend
  <2> QED
    BY <2>1 DEF ById, Fresh
<1>9. Last(F) = e
  <2>1. F[Len(manager.fileEntries) + 1] = e /\ Len(F) = Len(manager.fileEntries) + 1
    BY <1>4, <1>5, AppendProperties
  <2> QED
    BY <2>1 DEF Last
<1> QED
  BY <1>1, <1>2, <1>3, <1>4, <1>5, <1>6, <1>7, <1>8, <1>9

LEMMA LinesBehind ==
  ASSUME BoundsAssumption, Base, Faithful, created < MaxEntries, NEW e, Fresh(e),
         NEW F, F = Append(manager.fileEntries, e),
         NEW old, old = Lines(disk, manager.sessionFile), manager.persist
  PROVE  /\ old \in Seq(Held(created + 1)) /\ Clean(old) /\ ById(old) \subseteq ById(F)
         /\ manager.flushed => /\ Clean(Append(old, e)) /\ ById(Append(old, e)) = ById(F)
                               /\ Labels(Append(old, e)) = Labels(F)
         /\ Clean(old \o F) /\ ById(old \o F) = ById(F) /\ Labels(old \o F) = Labels(F)
         /\ \A n \in 0..Len(F) : Clean(old \o SubSeq(F, 1, n)) /\ SubSeq(F, 1, n) \in Seq(Held(created + 1))
<1> DEFINE w == WithEntry(manager, e)
           T == Held(created + 1)
<1>1. /\ created + 1 \in 0..MaxEntries
      /\ F \in Seq(T) /\ F # <<>> /\ F[1] = Header /\ Closed(F) /\ e \in T
      /\ ById(F) = ById(manager.fileEntries) \cup {e}
      /\ Labels(F) = LabelAfter(manager.labels, e)
  BY AppendedEntries
<1>2. old \in Seq(Stored(created + 1)) /\ Clean(old)
  <2>1. created \in 0..MaxEntries /\ created <= created + 1 /\ files \in Nat /\ files <= files
    BY DEF Base
  <2>2. DiskOK(disk, files, created + 1)
    BY <1>1, <2>1, DiskLater DEF Base
  <2> QED
    BY <2>2, LinesOK, LinesClean DEF Faithful
<1>3. old \in Seq(T)
  BY <1>2, CleanIsHeld
<1>4. Complete(manager, old)
  BY DEF Faithful
<1>5. ById(old) \subseteq ById(F)
  BY <1>1, <1>4 DEF Complete
<1>6. ASSUME manager.flushed
      PROVE  Clean(Append(old, e)) /\ ById(Append(old, e)) = ById(F) /\ Labels(Append(old, e)) = Labels(F)
  <2>1. old # <<>> /\ ById(old) = ById(manager.fileEntries) /\ Labels(old) = manager.labels
    BY <1>4, <1>6 DEF Complete
  <2>2. IdsOf(old) = Ids
    BY <2>1 DEF IdsOf, Ids
  <2>3. e.type = "label" => e.ref \in IdsOf(old)
    BY <2>2 DEF Fresh
  <2>4. Clean(Append(old, e))
    BY <1>1, <1>2, <2>1, <2>3, AppendedIsClean
  <2>5. ToSet(Append(old, e)) = ToSet(old) \cup {e} /\ e.type \in EntryTypes
    BY <1>3, ToSetOfAppend DEF Fresh
  <2>6. ById(Append(old, e)) = ById(F)
    BY <1>1, <2>1, <2>5 DEF ById
  <2>7. Labels(Append(old, e)) = Labels(F)
    BY <1>1, <1>3, <2>1, LabelsOfAppend
  <2> QED
    BY <2>4, <2>6, <2>7
<1> HIDE DEF T
<1>7. Clean(old \o F)
  BY <1>1, <1>2, BehindIsClean DEF T
<1>8. ById(old \o F) = ById(F)
  <2>0. \A q, z \in Seq(T) : ById(q \o z) = ById(q) \cup ById(z)
    BY ByIdOfConcat
  <2>1. ById(old \o F) = ById(old) \cup ById(F)
    BY <1>1, <1>3, <2>0
  <2> QED
    BY <1>5, <2>1
<1>9. Labels(old \o F) = Labels(F)
  <2>1. ASSUME NEW x \in ToSet(old), x.type = "label"
        PROVE  x \in ToSet(F)
    <3>1. x \in ById(old)
      BY <2>1, TypesAreDistinct DEF ById
    <3> QED
      BY <1>5, <3>1 DEF ById
  <2> QED
    BY <1>1, <1>3, <2>1, LabelsOfRepeated
<1>10. ASSUME NEW n \in 0..Len(F)
       PROVE  Clean(old \o SubSeq(F, 1, n)) /\ SubSeq(F, 1, n) \in Seq(T)
  <2> DEFINE z == SubSeq(F, 1, n)
  <2>1. z \in Seq(T) /\ Closed(z) /\ Len(z) = n /\ \A i \in 1..n : z[i] = F[i]
    BY <1>1, ClosedOfPrefix
  <2> HIDE DEF z
  <2>2. z # <<>> => z[1] = Header
    <3>1. z # <<>> => 1 \in 1..n
      BY <2>1, EmptySeq, LenProperties
    <3> QED
      BY <1>1, <2>1, <3>1
  <2>3. Clean(old \o z)
    BY <1>2, <2>1, <2>2, BehindIsClean DEF T
  <2> QED
    BY <2>1, <2>3 DEF z
<1> QED
  BY <1>2, <1>3, <1>5, <1>6, <1>7, <1>8, <1>9, <1>10 DEF T

LEMMA AppendEntryFaithful ==
  ASSUME BoundsAssumption, Base, Faithful, NEW e, created < MaxEntries => Fresh(e), AppendEntry(e)
  PROVE  Faithful'
<1>1. created < MaxEntries /\ Fresh(e)
  BY DEF AppendEntry
<1>2. PICK F, w : F = Append(manager.fileEntries, e) /\ w = WithEntry(manager, e)
  OBVIOUS
<1> DEFINE b == IF w.persist THEN HasAssistant(F) ELSE w.flushed
           file == manager.sessionFile
           old == Lines(disk, file)
<1>0. /\ created + 1 \in 0..MaxEntries
      /\ F \in Seq(Held(created + 1)) /\ F # <<>> /\ Closed(F)
      /\ e \in Held(created + 1) /\ ById(F) = ById(manager.fileEntries) \cup {e} /\ Last(F) = e
      /\ w.fileEntries = F /\ w.persist = manager.persist
      /\ w.sessionFile = file /\ w.flushed = manager.flushed
      /\ w.labels = Labels(F) /\ w \in Managers(created + 1)
  <2>1. created + 1 \in 0..MaxEntries
    BY <1>1, <1>2, AppendedEntries
  <2>2. F \in Seq(Held(created + 1)) /\ F # <<>> /\ Closed(F)
    BY <1>1, <1>2, AppendedEntries
  <2>3. e \in Held(created + 1)
    BY <1>1, <1>2, AppendedEntries
  <2>4. ById(F) = ById(manager.fileEntries) \cup {e} /\ Last(F) = e
    BY <1>1, <1>2, AppendedEntries
  <2>5. w.fileEntries = F /\ w.persist = manager.persist
    BY <1>1, <1>2, AppendedEntries
  <2>6. w.sessionFile = file /\ w.flushed = manager.flushed
    BY <1>1, <1>2, AppendedEntries
  <2>7. w.labels = Labels(F) /\ w \in Managers(created + 1)
    BY <1>1, <1>2, AppendedEntries
  <2> QED
    BY <2>1, <2>2, <2>3, <2>4, <2>5, <2>6, <2>7
<1>3. manager' = [w EXCEPT !.flushed = b] /\ disk' = AppendLines(disk, file, Unwritten(w))
  BY <1>0, <1>2 DEF AppendEntry
<1>4. b \in BOOLEAN
  BY <1>0 DEF HasAssistant, Managers
<1>5. Unwritten(w) = IF ~manager.persist \/ ~HasAssistant(F) THEN <<>>
                     ELSE IF manager.flushed THEN <<e>> ELSE F
  BY <1>0 DEF Unwritten
<1>6. /\ manager'.fileEntries = F /\ manager'.persist = manager.persist
      /\ manager'.sessionFile = file /\ manager'.labels = Labels(F) /\ manager'.flushed = b
  BY <1>0, <1>3, <1>4 DEF Managers
<1>7. files \in Nat /\ DiskOK(disk, files, created + 1)
  <2>1. created \in 0..MaxEntries /\ created <= created + 1 /\ files \in Nat /\ files <= files
    BY DEF Base
  <2> QED
    BY <1>0, <2>1, DiskLater DEF Base
<1>8. DiskClean(disk)
  BY DEF Faithful
<1> HIDE DEF b, old
<1>9. CASE ~manager.persist
  <2>1. disk' = disk
    BY <1>3, <1>5, <1>9 DEF AppendLines
  <2> QED
    BY <1>0, <1>6, <1>8, <1>9, <2>1 DEF Faithful
<1>10. CASE manager.persist
  <2>1. /\ old \in Seq(Held(created + 1)) /\ Clean(old) /\ ById(old) \subseteq ById(F)
        /\ manager.flushed => /\ Clean(Append(old, e)) /\ ById(Append(old, e)) = ById(F)
                              /\ Labels(Append(old, e)) = Labels(F)
        /\ Clean(old \o F) /\ ById(old \o F) = ById(F) /\ Labels(old \o F) = Labels(F)
    <3> DEFINE was == Lines(disk, file)
    <3>1. /\ was \in Seq(Held(created + 1)) /\ Clean(was) /\ ById(was) \subseteq ById(F)
          /\ manager.flushed => /\ Clean(Append(was, e)) /\ ById(Append(was, e)) = ById(F)
                                /\ Labels(Append(was, e)) = Labels(F)
      BY <1>1, <1>10, <1>2, LinesBehind
    <3>2. Clean(was \o F) /\ ById(was \o F) = ById(F) /\ Labels(was \o F) = Labels(F)
      BY <1>1, <1>10, <1>2, LinesBehind
    <3> HIDE DEF was
    <3>3. old = was
      BY DEF old, was
    <3> QED
      BY <3>1, <3>2, <3>3
  <2>2. b <=> HasAssistant(F)
    BY <1>0, <1>10 DEF b
  <2>3. CASE ~b
    <3>1. disk' = disk
      BY <1>3, <1>5, <2>2, <2>3 DEF AppendLines
    <3>2. Complete(manager', old)
      BY <1>6, <2>1, <2>2, <2>3 DEF Complete
    <3> QED
      BY <1>0, <1>6, <1>8, <3>1, <3>2 DEF Faithful, old
  <2>4. CASE b
    <3> DEFINE lines == Unwritten(w)
    <3>1. /\ lines \in Seq(Held(created + 1)) /\ Clean(old \o lines)
          /\ ById(old \o lines) = ById(F) /\ Labels(old \o lines) = Labels(F) /\ old \o lines # <<>>
      <4>1. CASE manager.flushed
        <5>1. lines = <<e>>
          BY <1>5, <1>10, <2>2, <2>4, <4>1
        <5>2. old \o <<e>> = Append(old, e) /\ Append(old, e) # <<>>
          BY <1>0, <2>1, AppendProperties, AppendIsConcat
        <5>3. <<e>> \in Seq(Held(created + 1))
          BY <1>0
        <5> HIDE DEF lines
        <5> QED
          BY <2>1, <4>1, <5>1, <5>2, <5>3
      <4>2. CASE ~manager.flushed
        <5>1. lines = F
          BY <1>5, <1>10, <2>2, <2>4, <4>2
        <5>2. old \o F # <<>>
          <6> DEFINE T == Held(created + 1)
          <6>1. old \in Seq(T) /\ F \in Seq(T) /\ F # <<>>
            BY <1>0, <2>1
          <6> HIDE DEF T
          <6> QED
            BY <6>1, ConcatProperties, EmptySeq, LenProperties
        <5> HIDE DEF lines
        <5> QED
          BY <1>0, <2>1, <5>1, <5>2
      <4> QED
        BY <4>1, <4>2
    <3> HIDE DEF lines
    <3>2. DiskClean(disk') /\ Lines(disk', file) = old \o lines
      <4>1. disk' = AppendLines(disk, file, lines)
        BY <1>3 DEF lines
      <4>2. PICK was : was = Lines(disk, file) /\ was = old
        BY DEF old
      <4>3. Clean(Lines(disk, file) \o lines)
        BY <3>1, <4>2
      <4>4. DiskClean(AppendLines(disk, file, lines)) /\ Lines(AppendLines(disk, file, lines), file) = Lines(disk, file) \o lines
        BY <1>0, <1>7, <1>8, <3>1, <4>3, AppendLinesClean
      <4> QED
        BY <4>1, <4>2, <4>4
    <3>3. Complete(manager', old \o lines)
      BY <1>6, <2>2, <2>4, <3>1 DEF Complete
    <3> QED
      BY <1>0, <1>6, <3>2, <3>3 DEF Faithful
  <2> QED
    BY <2>3, <2>4
<1> QED
  BY <1>9, <1>10

LEMMA StoppedFaithful ==
  ASSUME manager' = New(FALSE, 0), DiskClean(disk')
  PROVE  Faithful'
BY HeaderAlone DEF Faithful, New

LEMMA CrashDuringAppendFaithful ==
  ASSUME BoundsAssumption, "torn" \notin Disturbances, Base, Faithful, CrashDuringAppend
  PROVE  Faithful'
<1>1. PICK e, n, end : CutShort(e, n, end)
  BY CrashDuringAppendIs
<1> DEFINE F == Append(manager.fileEntries, e)
           w == WithEntry(manager, e)
           file == manager.sessionFile
           old == Lines(disk, file)
           lines == Unwritten(w)
           cut == SubSeq(lines, 1, n)
<1>2. /\ Fresh(e) /\ n \in 0..Len(lines) /\ end = <<>> /\ created < MaxEntries /\ manager.persist
      /\ disk' = AppendLines(disk, file, cut \o end) /\ manager' = New(FALSE, 0)
  BY <1>1 DEF CutShort
<1>3. /\ created + 1 \in 0..MaxEntries
      /\ F \in Seq(Held(created + 1)) /\ F # <<>> /\ e \in Held(created + 1) /\ Last(F) = e
      /\ w.fileEntries = F /\ w.persist = manager.persist /\ w.flushed = manager.flushed
  BY <1>2, AppendedEntries
<1>4. /\ old \in Seq(Held(created + 1)) /\ Clean(old)
      /\ manager.flushed => Clean(Append(old, e))
      /\ \A k \in 0..Len(F) : Clean(old \o SubSeq(F, 1, k)) /\ SubSeq(F, 1, k) \in Seq(Held(created + 1))
  BY <1>2, LinesBehind
<1>5. lines = IF ~HasAssistant(F) THEN <<>> ELSE IF manager.flushed THEN <<e>> ELSE F
  BY <1>2, <1>3 DEF Unwritten
<1>6. files \in Nat /\ DiskOK(disk, files, created + 1)
  <2>1. created \in 0..MaxEntries /\ created <= created + 1 /\ files \in Nat /\ files <= files
    BY DEF Base
  <2> QED
    BY <1>3, <2>1, DiskLater DEF Base
<1> HIDE DEF F, w, lines, old
<1>7. cut \in Seq(Held(created + 1)) /\ Clean(old \o cut)
  <2>1. old \o <<>> = old
    BY <1>4, ConcatEmptySeq
  <2>2. CASE n = 0
    <3>1. cut = <<>>
      BY <2>2
    <3>2. <<>> \in Seq(Held(created + 1))
      OBVIOUS
    <3> HIDE DEF cut
    <3> QED
      BY <1>4, <2>1, <3>1, <3>2
  <2>3. CASE n # 0 /\ manager.flushed /\ HasAssistant(F)
    <3>1. lines = <<e>>
      BY <1>5, <2>3
    <3>2. n = 1
      BY <1>2, <2>3, <3>1
    <3>3. cut = <<e>>
      <4>1. SubSeq(<<e>>, 1, 1) = <<e>>
        <5>1. <<e>> \in Seq(Held(created + 1)) /\ Len(<<e>>) = 1
          BY <1>3
        <5> QED
          BY <5>1, SubSeqFull
      <4> QED
        BY <3>1, <3>2, <4>1
    <3>4. old \o <<e>> = Append(old, e) /\ <<e>> \in Seq(Held(created + 1))
      BY <1>3, <1>4, AppendIsConcat
    <3> HIDE DEF cut
    <3> QED
      BY <1>4, <2>3, <3>3, <3>4
  <2>4. CASE ~manager.flushed /\ HasAssistant(F)
    <3>1. lines = F
      BY <1>5, <2>4
    <3> QED
      BY <1>2, <1>4, <3>1
  <2>5. CASE n # 0 /\ ~HasAssistant(F)
    <3>1. lines = <<>>
      BY <1>5, <2>5
    <3> QED
      BY <1>2, <2>5, <3>1
  <2> QED
    BY <2>2, <2>3, <2>4, <2>5
<1> HIDE DEF cut
<1>8. cut \o end = cut
  BY <1>2, <1>7, ConcatEmptySeq
<1>9. DiskClean(disk')
  BY <1>2, <1>3, <1>6, <1>7, <1>8, AppendLinesClean DEF Faithful, old
<1> QED
  BY <1>2, <1>9, StoppedFaithful

LEMMA CreateBranchedSessionFaithful ==
  ASSUME BoundsAssumption, Base, Faithful, NEW id \in 1..MaxEntries, CreateBranchedSession(id)
  PROVE  Faithful'
<1> DEFINE x == Extracted(manager, disk, id, files + 1, created)
           made == x.made
           file == files + 1
<1>1. /\ manager.persist => files < MaxFiles
      /\ created + made <= MaxEntries
      /\ manager' = x.manager /\ disk' = x.disk
  BY DEF CreateBranchedSession
<1>2. /\ created \in 0..MaxEntries /\ ManagerOK(manager, created) /\ files \in Nat
      /\ DiskOK(disk, files, created) /\ MaxFiles \in Nat /\ id \in Nat
  BY DEF Base, BoundsAssumption
<1>3. manager.persist => file <= MaxFiles
  BY <1>1, <1>2
<1>4. DiskClean(disk)
  BY DEF Faithful
<1>5. /\ x.manager.persist = manager.persist
      /\ manager.persist => x.manager.sessionFile = file
  BY <1>1, <1>2, <1>3, ExtractedOK
<1>6. /\ DiskClean(x.disk) /\ Closed(x.manager.fileEntries)
      /\ manager.persist => Complete(x.manager, Lines(x.disk, file))
  BY <1>1, <1>2, <1>3, <1>4, ExtractedClean
<1> HIDE DEF x, made
<1> QED
  BY <1>1, <1>5, <1>6 DEF Faithful

LEMMA ForkInMemoryFaithful ==
  ASSUME BoundsAssumption, Base, Faithful, NEW parent \in Nat, ForkInMemory(parent)
  PROVE  Faithful'
<1> DEFINE x == Extracted(manager, disk, parent, files + 1, created)
           made == x.made
           file == files + 1
<1>1. /\ ~manager.persist
      /\ created + made <= MaxEntries
      /\ manager' = x.manager /\ disk' = x.disk
  BY DEF ForkInMemory
<1>2. /\ created \in 0..MaxEntries /\ ManagerOK(manager, created) /\ files \in Nat
      /\ DiskOK(disk, files, created)
  BY DEF Base
<1>3. DiskClean(disk)
  BY DEF Faithful
<1>4. x.manager.persist = manager.persist
  BY <1>1, <1>2, ExtractedOK
<1>5. DiskClean(x.disk) /\ Closed(x.manager.fileEntries)
  BY <1>1, <1>2, <1>3, ExtractedClean
<1> HIDE DEF x, made
<1> QED
  BY <1>1, <1>4, <1>5 DEF Faithful

LEMMA ForkOfFileFaithful ==
  ASSUME BoundsAssumption, Base, Faithful, NEW parent \in Nat, ForkOfFile(parent)
  PROVE  Faithful'
<1> DEFINE file == files + 1
           source == Opened(manager.sessionFile, disk)
           sm == source.manager
           sd == source.disk
           x == Extracted(sm, sd, parent, file, created)
           made == x.made
           xd == x.disk
           target == Opened(file, xd)
           n == created + made
<1>1. /\ manager.persist /\ files < MaxFiles
      /\ n <= MaxEntries
      /\ manager' = target.manager /\ disk' = target.disk
  BY DEF ForkOfFile
<1>2. /\ created \in 0..MaxEntries /\ files \in Nat /\ files \in 0..MaxFiles
      /\ DiskOK(disk, files, created) /\ MaxEntries \in Nat /\ MaxFiles \in Nat
      /\ manager.sessionFile \in 1..files
  BY <1>1 DEF Base, BoundsAssumption
<1>3. manager.sessionFile \in 1..MaxFiles /\ file \in 1..MaxFiles /\ file <= MaxFiles /\ file \in Nat
  BY <1>1, <1>2
<1>4. ManagerOK(sm, created) /\ DiskOK(sd, files, created) /\ sm.persist
  BY <1>2, <1>3, OpenedOK
<1>5. DiskClean(sd)
  BY <1>2, <1>3, OpenedClean DEF Faithful
<1> HIDE DEF sm, sd
<1>6. /\ made \in Nat
      /\ DiskOK(xd, IF sm.persist THEN files + 1 ELSE files, created + made)
  BY <1>1, <1>2, <1>3, <1>4, ExtractedOK
<1>7. DiskClean(xd)
  BY <1>1, <1>2, <1>3, <1>4, <1>5, ExtractedClean
<1>8. DiskOK(xd, file, n) /\ n \in 0..MaxEntries
  BY <1>1, <1>2, <1>4, <1>6
<1> HIDE DEF xd, made, n, file
<1>9. target.manager.sessionFile = file
  BY <1>3, <1>8, OpenedOK
<1>10. /\ DiskClean(target.disk) /\ Closed(target.manager.fileEntries)
       /\ Complete(target.manager, Lines(target.disk, file))
  BY <1>3, <1>7, <1>8, OpenedClean
<1> HIDE DEF target
<1> QED
  BY <1>1, <1>9, <1>10 DEF Faithful

LEMMA BeginsFaithful ==
  ASSUME BoundsAssumption, Base, Faithful, NEW persist \in BOOLEAN, Begins(persist)
  PROVE  Faithful'
<1> DEFINE file == IF persist THEN files + 1 ELSE 0
<1>1. /\ manager' = New(persist, file) /\ disk' = disk
  BY DEF Begins
<1>2. file \notin DOMAIN disk
  BY DEF Base, DiskOK
<1> HIDE DEF file
<1>3. /\ manager'.fileEntries = <<Header>> /\ manager'.flushed = FALSE /\ manager'.sessionFile = file
  BY <1>1 DEF New
<1>4. Lines(disk', manager'.sessionFile) = <<>>
  BY <1>1, <1>2, <1>3 DEF Lines
<1>5. Complete(manager', <<>>)
  BY <1>3, HeaderAlone DEF Complete
<1> QED
  BY <1>1, <1>3, <1>4, <1>5, HeaderAlone DEF Faithful

LEMMA OpenFaithful ==
  ASSUME BoundsAssumption, Base, Faithful, NEW file \in 1..MaxFiles, Open(file)
  PROVE  Faithful'
<1> DEFINE o == Opened(file, disk)
<1>1. manager' = o.manager /\ disk' = o.disk
  BY DEF Open
<1>2. created \in 0..MaxEntries /\ files \in Nat /\ DiskOK(disk, files, created) /\ DiskClean(disk)
  BY DEF Base, Faithful
<1>3. o.manager.sessionFile = file
  BY <1>2, OpenedOK
<1>4. /\ DiskClean(o.disk) /\ Closed(o.manager.fileEntries)
      /\ Complete(o.manager, Lines(o.disk, file))
  BY <1>2, OpenedClean
<1> HIDE DEF o
<1> QED
  BY <1>1, <1>3, <1>4 DEF Faithful

LEMMA ForkFromFaithful ==
  ASSUME BoundsAssumption, Base, Faithful, NEW file \in 1..MaxFiles, ForkFrom(file)
  PROVE  Faithful'
<1> DEFINE to == files + 1
           source == Load(Lines(disk, file))
           entries == <<Header>> \o Proper(source)
           d == Put(disk, to, entries)
           o == Opened(to, d)
<1>1. /\ manager' = o.manager /\ disk' = o.disk /\ files < MaxFiles
  BY DEF ForkFrom
<1>2. /\ created \in 0..MaxEntries /\ files \in 0..MaxFiles /\ MaxFiles \in Nat /\ files \in Nat
      /\ DiskOK(disk, files, created) /\ DiskClean(disk)
  BY DEF Base, BoundsAssumption, Faithful
<1>3. to \in Nat /\ files <= to /\ to \in 1..to /\ to \in 1..MaxFiles
  BY <1>1, <1>2
<1>4. source \in Seq(Held(created)) /\ Closed(source)
  <2>1. Lines(disk, file) \in Seq(Stored(created)) /\ Clean(Lines(disk, file))
    BY <1>2, LinesOK, LinesClean
  <2>2. source \in Seq(Held(created)) /\ source = Lines(disk, file)
    BY <2>1, CleanIsHeld
  <2> QED
    BY <2>1, <2>2 DEF Clean
<1> HIDE DEF source, to
<1>5. /\ Proper(source) \in Seq(Held(created)) /\ entries \in Seq(Held(created))
      /\ entries \in Seq(Stored(created))
  BY <1>2, <1>4, CopyTyped
<1>6. Closed(Proper(source)) /\ Proper(source)  \in Seq(Held(created))
  BY <1>4, <1>5, ClosedOfProper
<1>7. Closed(entries) /\ entries[1] = Header
  <2> DEFINE T == Held(created)
             head == <<Header>>
             rest == Proper(source)
  <2>1. head \in Seq(T) /\ rest \in Seq(T) /\ Closed(head) /\ Closed(rest) /\ Len(head) = 1 /\ head[1] = Header
    BY <1>2, <1>6, HeaderHeld, HeaderAlone
  <2>2. entries = head \o rest
    OBVIOUS
  <2> HIDE DEF T, head, rest, entries
  <2>3. (head \o rest)[1] = Header
    BY <2>1, ConcatProperties, LenProperties
  <2> QED
    BY <2>1, <2>2, <2>3, ClosedOfClosed
<1> HIDE DEF entries
<1>8. Clean(entries)
  BY <1>5, <1>7, HeldIsClean
<1>9. DiskOK(d, to, created) /\ DiskClean(d)
  BY <1>2, <1>3, <1>5, <1>8, PutOK, PutClean
<1> HIDE DEF d
<1>10. o.manager.sessionFile = to
  BY <1>2, <1>3, <1>9, OpenedOK
<1>11. /\ DiskClean(o.disk) /\ Closed(o.manager.fileEntries)
       /\ Complete(o.manager, Lines(o.disk, to))
  BY <1>2, <1>3, <1>9, OpenedClean
<1> HIDE DEF o
<1> QED
  BY <1>1, <1>10, <1>11 DEF Faithful

LEMMA EmptyFileFaithful ==
  ASSUME BoundsAssumption, Base, Faithful, EmptyFile
  PROVE  Faithful'
<1> DEFINE to == files + 1
           none == <<>>
<1>1. disk' = Put(disk, to, none) /\ manager' = manager
  BY DEF EmptyFile
<1>2. DiskClean(disk) /\ Clean(none)
  BY HeaderAlone DEF Faithful
<1> HIDE DEF none
<1>3. DiskClean(disk')
  BY <1>1, <1>2, PutClean
<1>4. manager.persist => Lines(disk', manager.sessionFile) = Lines(disk, manager.sessionFile)
  <2> SUFFICES ASSUME manager.persist PROVE Lines(disk', manager.sessionFile) = Lines(disk, manager.sessionFile)
    OBVIOUS
  <2>1. manager.sessionFile # to
    BY DEF Base
  <2> QED
    BY <1>1, <2>1 DEF Lines, Put
<1> QED
  BY <1>1, <1>3, <1>4 DEF Faithful

LEMMA BranchFaithful ==
  ASSUME Base, Faithful, ResetLeaf \/ \E id \in 0..MaxEntries : Branch(id)
  PROVE  Faithful'
<1>1. PICK id : manager' = [manager EXCEPT !.leafId = id] /\ disk' = disk
  BY DEF ResetLeaf, Branch
<1>2. manager \in Managers(created)
  BY DEF Base, ManagerOK
<1>3. /\ manager'.persist = manager.persist /\ manager'.sessionFile = manager.sessionFile
      /\ manager'.fileEntries = manager.fileEntries /\ manager'.labels = manager.labels
      /\ manager'.flushed = manager.flushed
  BY <1>1, <1>2 DEF Managers
<1> QED
  BY <1>1, <1>3 DEF Faithful, Complete

LEMMA NextFaithful ==
  ASSUME BoundsAssumption, "torn" \notin Disturbances, Base, Faithful, [Next]_vars
  PROVE  Faithful'
<1>1. CASE \/ \E role \in {"user", "assistant"} : AppendMessage(role)
           \/ AppendSetting \/ AppendCompaction \/ AppendLabel
           \/ \E id \in 0..MaxEntries : BranchWithSummary(id)
  BY <1>1, AppendsAreFresh, AppendEntryFaithful
<1>2. CASE ResetLeaf \/ \E id \in 0..MaxEntries : Branch(id)
  BY <1>2, BranchFaithful
<1>3. CASE \E id \in 1..MaxEntries : CreateBranchedSession(id)
  BY <1>3, CreateBranchedSessionFaithful
<1>4. CASE \E id \in 1..MaxEntries : Fork(id)
  <2>1. CASE Begins(manager.persist)
    <3>1. manager.persist \in BOOLEAN
      BY DEF Base, ManagerOK, Managers
    <3> QED
      BY <2>1, <3>1, BeginsFaithful
  <2>2. CASE \E parent \in Nat : ForkInMemory(parent)
    BY <2>2, ForkInMemoryFaithful
  <2>3. CASE \E parent \in Nat : ForkOfFile(parent)
    BY <2>3, ForkOfFileFaithful
  <2> QED
    BY <1>4, <2>1, <2>2, <2>3, ForkCases
<1>5. CASE \E persist \in BOOLEAN : NewSession(persist)
  <2>1. PICK persist \in BOOLEAN : NewSession(persist)
    BY <1>5
  <2>2. Begins(persist)
    BY <2>1 DEF NewSession, Begins
  <2> QED
    BY <2>2, BeginsFaithful
<1>6. CASE \E file \in 1..MaxFiles : Open(file)
  BY <1>6, OpenFaithful
<1>7. CASE \E file \in 1..MaxFiles : ForkFrom(file)
  BY <1>7, ForkFromFaithful
<1>8. CASE Crash
  <2>1. manager' = New(FALSE, 0) /\ disk' = disk
    BY <1>8 DEF Crash
  <2>2. DiskClean(disk')
    BY <2>1 DEF Faithful
  <2> QED
    BY <2>1, <2>2, StoppedFaithful
<1>9. CASE CrashDuringAppend
  BY <1>9, CrashDuringAppendFaithful
<1>10. CASE EmptyFile
  BY <1>10, EmptyFileFaithful
<1>11. CASE UNCHANGED vars
  BY <1>11 DEF vars, Faithful
<1> QED
  BY <1>1, <1>2, <1>3, <1>4, <1>5, <1>6, <1>7, <1>8, <1>9, <1>10, <1>11 DEF Next

LEMMA InitFaithful ==
  ASSUME Init
  PROVE  Faithful
<1>1. manager = New(FALSE, 0) /\ DOMAIN disk = {}
  BY DEF Init
<1> QED
  BY <1>1, HeaderAlone DEF Faithful, DiskClean, New

LEMMA BaseAndFaithful ==
  ASSUME BoundsAssumption, "torn" \notin Disturbances
  PROVE  Spec => [](Base /\ Faithful)
<1>1. Init => Base /\ Faithful
  BY InitOK, InitFaithful
<1>2. Base /\ Faithful /\ [Next]_vars => (Base /\ Faithful)'
  BY NextKeeps, NextFaithful
<1> QED
  BY <1>1, <1>2, PTL DEF Spec

\* While no line is torn (the entry behind a torn line, and with it what a label
\* is on, may be lost), the leaf of a session and the entries its labels are on are
\* entries of it, whatever is appended, moved to, extracted, forked, reopened or cut
\* between two lines by a crash (leafId and labelsById against fileEntries).
THEOREM TypeTheorem == ASSUME BoundsAssumption, "torn" \notin Disturbances PROVE Spec => []TypeOK
<1>1. Base /\ Faithful => TypeOK
  <2> SUFFICES ASSUME Base, Faithful PROVE TypeOK
    OBVIOUS
  <2>1. manager \in Managers(created) /\ created \in 0..MaxEntries /\ files \in Nat
    BY DEF Base, ManagerOK
  <2>2. manager.fileEntries \in Seq(Held(created))
    BY <2>1 DEF Managers
  <2>3. ToSet(manager.fileEntries) \subseteq EntrySet
    BY <2>2, ToSetTyped, HeldIsStored
  <2>4. manager.labels \subseteq Ids
    <3>1. manager.labels = Labels(manager.fileEntries) /\ Closed(manager.fileEntries)
      BY DEF Base, ManagerOK, Faithful
    <3> QED
      BY <2>2, <3>1, ClosedLabels DEF Ids
  <2>5. manager.leafId \in Ids \cup {Root}
    BY DEF Base, ManagerOK, Ids
  <2>6. \A f \in DOMAIN disk : ToSet(disk[f]) \subseteq EntrySet
    BY ToSetTyped, HeldIsStored DEF Base, DiskOK
  <2>7. DOMAIN disk \subseteq 1..files
    BY DEF Base, DiskOK
  <2>8. manager.persist \in BOOLEAN /\ manager.flushed \in BOOLEAN /\ manager.sessionFile \in 0..MaxFiles
    BY <2>1 DEF Managers
  <2> QED
    BY <2>3, <2>4, <2>5, <2>6, <2>7, <2>8 DEF TypeOK, Base
<1> QED
  BY <1>1, BaseAndFaithful, PTL

\* While no line is torn, loading the file of a session with an answer gives the
\* tree and the labels the session has in memory, after any appends, extractions,
\* forks, reloads and crashes, a crash in the first write included: the lines it
\* left are written again behind themselves (_persist against setSessionFile).
THEOREM ReloadTheorem == ASSUME BoundsAssumption, "torn" \notin Disturbances PROVE Spec => []ReloadIsFaithful
<1>1. Base /\ Faithful => ReloadIsFaithful
  <2> SUFFICES ASSUME Base, Faithful, manager.persist, HasAssistant(manager.fileEntries)
               PROVE  /\ ById(Load(Lines(disk, manager.sessionFile))) = ById(manager.fileEntries)
                      /\ Labels(Load(Lines(disk, manager.sessionFile))) = manager.labels
    BY DEF ReloadIsFaithful
  <2> DEFINE lines == Lines(disk, manager.sessionFile)
  <2>1. lines \in Seq(Stored(created)) /\ Clean(lines)
    BY LinesOK, LinesClean DEF Base, Faithful
  <2>2. Load(lines) = lines
    BY <2>1, CleanIsHeld
  <2>3. ById(lines) = ById(manager.fileEntries) /\ Labels(lines) = manager.labels
    BY DEF Faithful, Complete
  <2> QED
    BY <2>2, <2>3
<1> QED
  BY <1>1, BaseAndFaithful, PTL
===============================================================================
