------------------------- MODULE WaitingLineProofs -------------------------
(***************************************************************************)
(* What the operations on a line of waiters preserve.                      *)
(***************************************************************************)
EXTENDS WaitingLine, SequenceTheorems, TLAPS

\* Cutting a sequence keeps its elements' type (splice, shift).
LEMMA SubSeqType ==
  ASSUME NEW S, NEW s \in Seq(S), NEW m \in Nat \ {0}, NEW n \in Nat, n <= Len(s)
  PROVE  /\ SubSeq(s, m, n) \in Seq(S)
         /\ Len(SubSeq(s, m, n)) = IF m <= n THEN n - m + 1 ELSE 0
         /\ \A i \in 1 .. n - m + 1 : SubSeq(s, m, n)[i] = s[m + i - 1]
<1>1. \A i \in m .. n : s[i] \in S
  BY ElementOfSeq
<1> QED
  BY <1>1, SubSeqProperties

\* Removing the element at a position keeps the others in their order.
LEMMA RemoveAtProperties ==
  ASSUME NEW S, NEW line \in Seq(S), NEW j \in 1 .. Len(line)
  PROVE  /\ RemoveAt(line, j) \in Seq(S)
         /\ Len(RemoveAt(line, j)) = Len(line) - 1
         /\ \A i \in 1 .. Len(line) - 1 :
              RemoveAt(line, j)[i] = IF i < j THEN line[i] ELSE line[i + 1]
<1>1. RemoveAt(line, j) = SubSeq(line, 1, j - 1) \o SubSeq(line, j + 1, Len(line))
  BY DEF RemoveAt
<1>2. Len(line) \in Nat
  BY LenProperties
<1>3. /\ SubSeq(line, 1, j - 1) \in Seq(S)
      /\ Len(SubSeq(line, 1, j - 1)) = j - 1
      /\ \A i \in 1 .. j - 1 : SubSeq(line, 1, j - 1)[i] = line[i]
  BY <1>2, SubSeqType, j - 1 \in Nat, j - 1 <= Len(line)
<1>4. /\ SubSeq(line, j + 1, Len(line)) \in Seq(S)
      /\ Len(SubSeq(line, j + 1, Len(line))) = Len(line) - j
      /\ \A i \in 1 .. Len(line) - j : SubSeq(line, j + 1, Len(line))[i] = line[j + i]
  BY <1>2, SubSeqType, j + 1 \in Nat \ {0}
<1> DEFINE a == SubSeq(line, 1, j - 1)
           b == SubSeq(line, j + 1, Len(line))
           c == a \o b
<1> HIDE DEF a, b
<1>5. /\ c \in Seq(S)
      /\ Len(c) = Len(line) - 1
      /\ \A i \in 1 .. Len(line) - 1 :
           c[i] = IF i <= j - 1 THEN a[i] ELSE b[i - (j - 1)]
  <2>1. /\ c \in Seq(S)
        /\ Len(c) = Len(a) + Len(b)
        /\ \A i \in 1 .. Len(a) + Len(b) :
             c[i] = IF i <= Len(a) THEN a[i] ELSE b[i - Len(a)]
    BY <1>3, <1>4, ConcatProperties DEF a, b
  <2>2. Len(a) = j - 1 /\ Len(b) = Len(line) - j
    BY <1>3, <1>4 DEF a, b
  <2> QED
    BY <2>1, <2>2, <1>2
<1> HIDE DEF c
<1>6. ASSUME NEW i \in 1 .. Len(line) - 1
      PROVE  c[i] = IF i < j THEN line[i] ELSE line[i + 1]
  <2>1. CASE i < j
    BY <2>1, <1>2, <1>3, <1>5 DEF a
  <2>2. CASE i >= j
    <3>1. i - (j - 1) \in 1 .. Len(line) - j /\ j + (i - (j - 1)) = i + 1
      BY <2>2, <1>2
    <3>2. b[i - (j - 1)] = line[i + 1]
      BY <3>1, <1>4 DEF b
    <3> QED
      BY <2>2, <3>2, <1>2, <1>5
  <2> QED
    BY <2>1, <2>2, <1>2
<1>7. RemoveAt(line, j) = c
  BY <1>1 DEF a, b, c
<1> QED
  BY <1>5, <1>6, <1>7

\* A waiter that leaves is gone, once, and the others keep their order.
LEMMA LeaveLineProperties ==
  ASSUME NEW S, NEW line \in Seq(S), NEW w
  PROVE  /\ LeaveLine(line, w) \in Seq(S)
         /\ w \notin ToSet(line) => LeaveLine(line, w) = line
         /\ w \in ToSet(line) =>
              \E j \in 1 .. Len(line) :
                /\ line[j] = w
                /\ Len(LeaveLine(line, w)) = Len(line) - 1
                /\ \A i \in 1 .. Len(line) - 1 :
                     LeaveLine(line, w)[i] = IF i < j THEN line[i] ELSE line[i + 1]
<1>1. CASE w \notin ToSet(line)
  BY <1>1 DEF LeaveLine
<1>2. CASE w \in ToSet(line)
  <2> DEFINE j == CHOOSE i \in 1 .. Len(line) : line[i] = w
  <2>1. \E i \in 1 .. Len(line) : line[i] = w
    BY <1>2, LenProperties DEF ToSet
  <2>2. j \in 1 .. Len(line) /\ line[j] = w
    BY <2>1
  <2>3. LeaveLine(line, w) = RemoveAt(line, j)
    BY <1>2 DEF LeaveLine
  <2> HIDE DEF j
  <2> QED
    BY <1>2, <2>2, <2>3, RemoveAtProperties
<1> QED
  BY <1>1, <1>2

\* Elements of a line, by position.
LEMMA LineElements ==
  ASSUME NEW S, NEW line \in Seq(S)
  PROVE  /\ \A x : x \in ToSet(line) <=> \E i \in 1 .. Len(line) : line[i] = x
         /\ IsInjective(line) <=>
              \A i, j \in 1 .. Len(line) : line[i] = line[j] => i = j
  BY LenProperties DEF ToSet, IsInjective

\* A line is empty when nobody is in it.
LEMMA EmptyLine ==
  ASSUME NEW S, NEW line \in Seq(S)
  PROVE  line = <<>> <=> ToSet(line) = {}
<1>1. line = <<>> => ToSet(line) = {}
  BY DEF ToSet
<1>2. ASSUME line # <<>> PROVE line[1] \in ToSet(line)
  <2>1. 1 \in 1 .. Len(line)
    BY <1>2, EmptySeq, LenProperties
  <2> QED
    BY <2>1, LineElements
<1> QED
  BY <1>1, <1>2

\* Shifting the oldest waiter takes exactly that one out of the line.
LEMMA ShiftLine ==
  ASSUME NEW S, NEW line \in Seq(S), line # <<>>, IsInjective(line)
  PROVE  /\ Head(line) \in ToSet(line)
         /\ Tail(line) \in Seq(S)
         /\ ToSet(Tail(line)) = ToSet(line) \ {Head(line)}
         /\ IsInjective(Tail(line))
<1>1. /\ Len(line) \in Nat \ {0}
      /\ Tail(line) \in Seq(S)
      /\ Len(Tail(line)) = Len(line) - 1
      /\ \A i \in 1 .. Len(line) - 1 : Tail(line)[i] = line[i + 1]
      /\ Head(line) = line[1]
  BY HeadTailProperties, EmptySeq
<1>2. \A i, j \in 1 .. Len(line) : line[i] = line[j] => i = j
  BY LineElements
<1>3. \A x : x \in ToSet(line) <=> \E i \in 1 .. Len(line) : line[i] = x
  BY LineElements
<1>4. \A x : x \in ToSet(Tail(line)) <=> \E i \in 1 .. Len(line) - 1 : line[i + 1] = x
  <2> DEFINE rest == Tail(line)
  <2>1. rest \in Seq(S) /\ Len(rest) = Len(line) - 1
    BY <1>1
  <2>2. \A i \in 1 .. Len(line) - 1 : rest[i] = line[i + 1]
    BY <1>1
  <2> HIDE DEF rest
  <2>3. \A x : x \in ToSet(rest) <=> \E i \in 1 .. Len(rest) : rest[i] = x
    BY <2>1, LineElements
  <2>4. \A x : x \in ToSet(rest) <=> \E i \in 1 .. Len(line) - 1 : line[i + 1] = x
    BY <2>1, <2>2, <2>3
  <2> QED
    BY <2>4 DEF rest
<1>5. ToSet(Tail(line)) \subseteq ToSet(line) \ {Head(line)}
  <2> SUFFICES ASSUME NEW i \in 1 .. Len(line) - 1
               PROVE  line[i + 1] \in ToSet(line) \ {Head(line)}
    BY <1>4
  <2> QED
    BY <1>1, <1>2, <1>3
<1>6. ToSet(line) \ {Head(line)} \subseteq ToSet(Tail(line))
  <2> SUFFICES ASSUME NEW i \in 1 .. Len(line), line[i] # Head(line)
               PROVE  line[i] \in ToSet(Tail(line))
    BY <1>3
  <2>1. i - 1 \in 1 .. Len(line) - 1 /\ (i - 1) + 1 = i
    BY <1>1
  <2> QED
    BY <1>4, <2>1
<1>7. \A i, j \in 1 .. Len(Tail(line)) : Tail(line)[i] = Tail(line)[j] => i = j
  BY <1>1, <1>2
<1>8. IsInjective(Tail(line))
  BY <1>1, <1>7, LineElements
<1>9. Head(line) \in ToSet(line)
  BY <1>1, <1>3
<1> QED
  BY <1>1, <1>5, <1>6, <1>8, <1>9

\* Joining at the end.
LEMMA JoinLine ==
  ASSUME NEW S, NEW line \in Seq(S), NEW x \in S, IsInjective(line), x \notin ToSet(line)
  PROVE  /\ Append(line, x) \in Seq(S)
         /\ ToSet(Append(line, x)) = ToSet(line) \cup {x}
         /\ IsInjective(Append(line, x))
<1>1. /\ Len(line) \in Nat
      /\ Append(line, x) \in Seq(S)
      /\ Len(Append(line, x)) = Len(line) + 1
      /\ \A i \in 1 .. Len(line) : Append(line, x)[i] = line[i]
      /\ Append(line, x)[Len(line) + 1] = x
  BY AppendProperties, LenProperties
<1>2. \A i, j \in 1 .. Len(line) : line[i] = line[j] => i = j
  BY LineElements
<1>3. \A y : y \in ToSet(line) <=> \E i \in 1 .. Len(line) : line[i] = y
  BY LineElements
<1>4. \A y : y \in ToSet(Append(line, x)) <=> \E i \in 1 .. Len(line) + 1 : Append(line, x)[i] = y
  <2> DEFINE longer == Append(line, x)
  <2>1. longer \in Seq(S) /\ Len(longer) = Len(line) + 1
    BY <1>1
  <2> HIDE DEF longer
  <2>2. \A y : y \in ToSet(longer) <=> \E i \in 1 .. Len(longer) : longer[i] = y
    BY <2>1, LineElements
  <2>3. \A y : y \in ToSet(longer) <=> \E i \in 1 .. Len(line) + 1 : longer[i] = y
    BY <2>1, <2>2
  <2> QED
    BY <2>3 DEF longer
<1>5. ToSet(Append(line, x)) = ToSet(line) \cup {x}
  BY <1>1, <1>3, <1>4
<1>6. \A i, j \in 1 .. Len(line) + 1 : Append(line, x)[i] = Append(line, x)[j] => i = j
  BY <1>1, <1>2, <1>3
<1> QED
  BY <1>1, <1>5, <1>6, LineElements

\* Giving up.
LEMMA GiveUpLine ==
  ASSUME NEW S, NEW line \in Seq(S), NEW x, IsInjective(line)
  PROVE  /\ LeaveLine(line, x) \in Seq(S)
         /\ ToSet(LeaveLine(line, x)) = ToSet(line) \ {x}
         /\ IsInjective(LeaveLine(line, x))
<1>1. CASE x \notin ToSet(line)
  BY <1>1, LeaveLineProperties
<1>2. CASE x \in ToSet(line)
  <2> DEFINE left == LeaveLine(line, x)
  <2>1. left \in Seq(S) /\ Len(line) \in Nat
    BY LeaveLineProperties, LenProperties
  <2>2. PICK j \in 1 .. Len(line) :
          /\ line[j] = x
          /\ Len(left) = Len(line) - 1
          /\ \A i \in 1 .. Len(line) - 1 : left[i] = IF i < j THEN line[i] ELSE line[i + 1]
    BY <1>2, LeaveLineProperties
  <2> HIDE DEF left
  <2>3. \A i, k \in 1 .. Len(line) : line[i] = line[k] => i = k
    BY LineElements
  <2>4. \A y : y \in ToSet(line) <=> \E i \in 1 .. Len(line) : line[i] = y
    BY LineElements
  <2>5. \A y : y \in ToSet(left) <=> \E i \in 1 .. Len(line) - 1 : left[i] = y
    BY <2>1, <2>2, LineElements
  <2>6. ToSet(left) \subseteq ToSet(line) \ {x}
    <3> SUFFICES ASSUME NEW i \in 1 .. Len(line) - 1
                 PROVE  left[i] \in ToSet(line) \ {x}
      BY <2>5
    <3>1. CASE i < j
      BY <3>1, <2>1, <2>2, <2>3, <2>4
    <3>2. CASE ~(i < j)
      BY <3>2, <2>1, <2>2, <2>3, <2>4
    <3> QED
      BY <3>1, <3>2
  <2>7. ToSet(line) \ {x} \subseteq ToSet(left)
    <3> SUFFICES ASSUME NEW i \in 1 .. Len(line), line[i] # x
                 PROVE  line[i] \in ToSet(left)
      BY <2>4
    <3>1. CASE i < j
      <4>1. i \in 1 .. Len(line) - 1 /\ left[i] = line[i]
        BY <3>1, <2>1, <2>2
      <4> QED
        BY <4>1, <2>5
    <3>2. CASE i > j
      <4>1. i - 1 \in 1 .. Len(line) - 1 /\ left[i - 1] = line[i]
        BY <3>2, <2>1, <2>2
      <4> QED
        BY <4>1, <2>5
    <3> QED
      BY <3>1, <3>2, <2>2
  <2>8. \A i, k \in 1 .. Len(left) : left[i] = left[k] => i = k
    BY <2>1, <2>2, <2>3
  <2> QED
    BY <2>1, <2>6, <2>7, <2>8, LineElements DEF left
<1> QED
  BY <1>1, <1>2

\* Putting one line behind another that has nobody in common with it.
LEMMA JoinLines ==
  ASSUME NEW S, NEW s \in Seq(S), NEW t \in Seq(S),
         IsInjective(s), IsInjective(t), ToSet(s) \cap ToSet(t) = {}
  PROVE  /\ s \o t \in Seq(S)
         /\ ToSet(s \o t) = ToSet(s) \cup ToSet(t)
         /\ IsInjective(s \o t)
<1> DEFINE joined == s \o t
<1>1. /\ Len(s) \in Nat /\ Len(t) \in Nat
      /\ joined \in Seq(S) /\ Len(joined) = Len(s) + Len(t)
      /\ \A i \in 1 .. Len(s) + Len(t) :
           joined[i] = IF i <= Len(s) THEN s[i] ELSE t[i - Len(s)]
  BY LenProperties, ConcatProperties
<1> HIDE DEF joined
<1>2. /\ \A x : x \in ToSet(s) <=> \E i \in 1 .. Len(s) : s[i] = x
      /\ \A i, j \in 1 .. Len(s) : s[i] = s[j] => i = j
  BY LineElements
<1>3. /\ \A x : x \in ToSet(t) <=> \E i \in 1 .. Len(t) : t[i] = x
      /\ \A i, j \in 1 .. Len(t) : t[i] = t[j] => i = j
  BY LineElements
<1>4. \A x : x \in ToSet(joined) <=> \E i \in 1 .. Len(s) + Len(t) : joined[i] = x
  <2>1. joined \in Seq(S)
    BY <1>1
  <2>2. \A x : x \in ToSet(joined) <=> \E i \in 1 .. Len(joined) : joined[i] = x
    BY <2>1, LineElements
  <2> QED
    BY <1>1, <2>2
<1>5. \A i \in 1 .. Len(s) : joined[i] = s[i] /\ s[i] \in ToSet(s)
  BY <1>1, <1>2
<1>6. \A i \in 1 .. Len(s) + Len(t) : ~(i <= Len(s)) =>
        /\ i - Len(s) \in 1 .. Len(t)
        /\ joined[i] = t[i - Len(s)] /\ t[i - Len(s)] \in ToSet(t)
  BY <1>1, <1>3
<1>7. ToSet(joined) \subseteq ToSet(s) \cup ToSet(t)
  <2> SUFFICES ASSUME NEW i \in 1 .. Len(s) + Len(t)
               PROVE  joined[i] \in ToSet(s) \cup ToSet(t)
    BY <1>4
  <2>1. CASE i <= Len(s)
    BY <1>1, <1>5, <2>1
  <2> QED
    BY <1>6, <2>1
<1>8. ToSet(s) \subseteq ToSet(joined)
  <2> SUFFICES ASSUME NEW i \in 1 .. Len(s) PROVE s[i] \in ToSet(joined)
    BY <1>2
  <2>1. i \in 1 .. Len(s) + Len(t)
    BY <1>1
  <2> QED
    BY <1>4, <1>5, <2>1
<1>9. ToSet(t) \subseteq ToSet(joined)
  <2> SUFFICES ASSUME NEW i \in 1 .. Len(t) PROVE t[i] \in ToSet(joined)
    BY <1>3
  <2>1. i + Len(s) \in 1 .. Len(s) + Len(t) /\ ~(i + Len(s) <= Len(s)) /\ (i + Len(s)) - Len(s) = i
    BY <1>1
  <2> QED
    BY <1>4, <1>6, <2>1
<1>10. ASSUME NEW i \in 1 .. Len(s) + Len(t), NEW j \in 1 .. Len(s) + Len(t), joined[i] = joined[j]
       PROVE  i = j
  <2>1. CASE i <= Len(s) /\ j <= Len(s)
    BY <1>1, <1>2, <1>5, <1>10, <2>1
  <2>2. CASE ~(i <= Len(s)) /\ ~(j <= Len(s))
    <3>1. i - Len(s) \in 1 .. Len(t) /\ joined[i] = t[i - Len(s)]
      BY <1>6, <2>2
    <3>2. j - Len(s) \in 1 .. Len(t) /\ joined[j] = t[j - Len(s)]
      BY <1>6, <2>2
    <3>3. i - Len(s) = j - Len(s)
      BY <1>3, <1>10, <3>1, <3>2
    <3> QED
      BY <1>1, <3>3
  <2>3. CASE i <= Len(s) /\ ~(j <= Len(s))
    <3>1. joined[i] \in ToSet(s)
      <4>1. i \in 1 .. Len(s)
        BY <1>1, <2>3
      <4> QED
        BY <1>5, <4>1
    <3>2. joined[j] \in ToSet(t)
      BY <1>6, <2>3
    <3> QED
      BY <1>10, <3>1, <3>2
  <2>4. CASE j <= Len(s) /\ ~(i <= Len(s))
    <3>1. joined[j] \in ToSet(s)
      <4>1. j \in 1 .. Len(s)
        BY <1>1, <2>4
      <4> QED
        BY <1>5, <4>1
    <3>2. joined[i] \in ToSet(t)
      BY <1>6, <2>4
    <3> QED
      BY <1>10, <3>1, <3>2
  <2> QED
    BY <2>1, <2>2, <2>3, <2>4
<1>11. IsInjective(joined)
  BY <1>1, <1>10, LineElements
<1> QED
  BY <1>1, <1>7, <1>8, <1>9, <1>11 DEF joined

\* Letting the first n of a line go splits those in it.
LEMMA SplitLine ==
  ASSUME NEW S, NEW line \in Seq(S), IsInjective(line), NEW n \in Nat, n <= Len(line)
  PROVE  LET gone == SubSeq(line, 1, n)
             left == SubSeq(line, n + 1, Len(line))
         IN  /\ gone \in Seq(S) /\ IsInjective(gone)
             /\ left \in Seq(S) /\ IsInjective(left)
             /\ ToSet(gone) \cup ToSet(left) = ToSet(line)
             /\ ToSet(gone) \cap ToSet(left) = {}
<1> DEFINE gone == SubSeq(line, 1, n)
           left == SubSeq(line, n + 1, Len(line))
<1>0. Len(line) \in Nat
  BY LenProperties
<1>1. /\ gone \in Seq(S) /\ Len(gone) = n
      /\ \A i \in 1 .. n : gone[i] = line[i]
  <2>1. /\ SubSeq(line, 1, n) \in Seq(S)
        /\ Len(SubSeq(line, 1, n)) = IF 1 <= n THEN n - 1 + 1 ELSE 0
        /\ \A i \in 1 .. n - 1 + 1 : SubSeq(line, 1, n)[i] = line[1 + i - 1]
    BY <1>0, SubSeqType, 1 \in Nat \ {0}
  <2>2. Len(gone) = n
    BY <2>1
  <2> QED
    BY <2>1, <2>2
<1>2. /\ left \in Seq(S) /\ Len(left) = Len(line) - n
      /\ \A i \in 1 .. Len(line) - n : left[i] = line[n + i]
  <2>1. /\ left \in Seq(S)
        /\ Len(left) = IF n + 1 <= Len(line) THEN Len(line) - (n + 1) + 1 ELSE 0
        /\ \A i \in 1 .. Len(line) - (n + 1) + 1 : left[i] = line[(n + 1) + i - 1]
    BY <1>0, SubSeqType, n + 1 \in Nat \ {0}
  <2> HIDE DEF left
  <2>2. Len(left) = Len(line) - n
    BY <1>0, <2>1
  <2>3. ASSUME NEW i \in 1 .. Len(line) - n PROVE left[i] = line[n + i]
    <3>1. i \in 1 .. Len(line) - (n + 1) + 1 /\ (n + 1) + i - 1 = n + i
      BY <1>0
    <3> QED
      BY <2>1, <3>1
  <2> QED
    BY <2>1, <2>2, <2>3
<1> HIDE DEF gone, left
<1>3. /\ \A x : x \in ToSet(line) <=> \E i \in 1 .. Len(line) : line[i] = x
      /\ \A i, j \in 1 .. Len(line) : line[i] = line[j] => i = j
  BY LineElements
<1>4. \A x : x \in ToSet(gone) <=> \E i \in 1 .. n : gone[i] = x
  BY <1>1, LineElements
<1>5. \A x : x \in ToSet(left) <=> \E i \in 1 .. Len(line) - n : left[i] = x
  BY <1>2, LineElements
<1>6. \A i, j \in 1 .. n : gone[i] = gone[j] => i = j
  BY <1>0, <1>1, <1>3
<1>7. IsInjective(gone)
  BY <1>1, <1>6, LineElements
<1>8. ASSUME NEW i \in 1 .. Len(line) - n, NEW j \in 1 .. Len(line) - n, left[i] = left[j]
      PROVE  i = j
  <2>1. n + i \in 1 .. Len(line) /\ n + j \in 1 .. Len(line) /\ line[n + i] = line[n + j]
    BY <1>0, <1>2, <1>8
  <2> QED
    BY <1>0, <1>3, <2>1
<1>9. IsInjective(left)
  BY <1>2, <1>8, LineElements
<1>10. ToSet(gone) \subseteq ToSet(line) /\ ToSet(left) \subseteq ToSet(line)
  <2>1. ASSUME NEW i \in 1 .. n PROVE gone[i] \in ToSet(line)
    BY <1>0, <1>1, <1>3
  <2>2. ASSUME NEW i \in 1 .. Len(line) - n PROVE left[i] \in ToSet(line)
    <3>1. n + i \in 1 .. Len(line)
      BY <1>0
    <3> QED
      BY <1>2, <1>3, <3>1
  <2> QED
    BY <1>4, <1>5, <2>1, <2>2
<1>11. ToSet(line) \subseteq ToSet(gone) \cup ToSet(left)
  <2> SUFFICES ASSUME NEW i \in 1 .. Len(line) PROVE line[i] \in ToSet(gone) \cup ToSet(left)
    BY <1>3
  <2>1. CASE i <= n
    BY <1>1, <1>4, <2>1
  <2>2. CASE ~(i <= n)
    <3>1. i - n \in 1 .. Len(line) - n /\ n + (i - n) = i
      BY <1>0, <2>2
    <3> QED
      BY <1>2, <1>5, <3>1
  <2> QED
    BY <2>1, <2>2
<1>12. ASSUME NEW i \in 1 .. n, NEW j \in 1 .. Len(line) - n PROVE gone[i] # left[j]
  <2>1. i \in 1 .. Len(line) /\ n + j \in 1 .. Len(line) /\ i # n + j
    BY <1>0
  <2> QED
    BY <1>1, <1>2, <1>3, <2>1
<1>13. ToSet(gone) \cap ToSet(left) = {}
  BY <1>4, <1>5, <1>12
<1> QED
  BY <1>1, <1>2, <1>7, <1>9, <1>10, <1>11, <1>13 DEF gone, left

\* Cutting a line that stands behind another one.
LEMMA CutBehind ==
  ASSUME NEW S, NEW s \in Seq(S), NEW t \in Seq(S), NEW n \in Nat, n <= Len(t)
  PROVE  /\ SubSeq(s \o t, 1, Len(s) + n) = s \o SubSeq(t, 1, n)
         /\ SubSeq(s \o t, Len(s) + n + 1, Len(s \o t)) = SubSeq(t, n + 1, Len(t))
<1> DEFINE joined == s \o t
           p == SubSeq(joined, 1, Len(s) + n)
           q == SubSeq(joined, Len(s) + n + 1, Len(joined))
           a == SubSeq(t, 1, n)
           b == SubSeq(t, n + 1, Len(t))
           sa == s \o a
<1>1. /\ Len(s) \in Nat /\ Len(t) \in Nat
      /\ joined \in Seq(S) /\ Len(joined) = Len(s) + Len(t)
      /\ \A i \in 1 .. Len(s) + Len(t) :
           joined[i] = IF i <= Len(s) THEN s[i] ELSE t[i - Len(s)]
  BY LenProperties, ConcatProperties
<1> HIDE DEF joined
<1>2. joined \in Seq(S) /\ Len(joined) \in Nat
  BY <1>1
<1>3. /\ p \in Seq(S) /\ Len(p) = Len(s) + n
      /\ \A i \in 1 .. Len(s) + n : p[i] = joined[i]
  <2>1. Len(s) + n \in Nat /\ Len(s) + n <= Len(joined)
    BY <1>1
  <2>2. /\ p \in Seq(S)
        /\ Len(p) = IF 1 <= Len(s) + n THEN Len(s) + n - 1 + 1 ELSE 0
        /\ \A i \in 1 .. Len(s) + n - 1 + 1 : p[i] = joined[1 + i - 1]
    BY <1>2, <2>1, SubSeqType, 1 \in Nat \ {0}
  <2> HIDE DEF p
  <2> QED
    BY <1>1, <2>1, <2>2
<1>4. /\ q \in Seq(S) /\ Len(q) = Len(t) - n
      /\ \A i \in 1 .. Len(t) - n : q[i] = joined[Len(s) + n + i]
  <2>1. Len(s) + n + 1 \in Nat \ {0}
    BY <1>1
  <2>2. /\ q \in Seq(S)
        /\ Len(q) = IF Len(s) + n + 1 <= Len(joined) THEN Len(joined) - (Len(s) + n + 1) + 1 ELSE 0
        /\ \A i \in 1 .. Len(joined) - (Len(s) + n + 1) + 1 :
             q[i] = joined[(Len(s) + n + 1) + i - 1]
    BY <1>2, <2>1, SubSeqType
  <2> HIDE DEF q
  <2>3. Len(q) = Len(t) - n
    BY <1>1, <2>2
  <2>4. ASSUME NEW i \in 1 .. Len(t) - n PROVE q[i] = joined[Len(s) + n + i]
    <3>1. i \in 1 .. Len(joined) - (Len(s) + n + 1) + 1 /\ (Len(s) + n + 1) + i - 1 = Len(s) + n + i
      BY <1>1
    <3> QED
      BY <2>2, <3>1
  <2> QED
    BY <2>2, <2>3, <2>4
<1>5. /\ a \in Seq(S) /\ Len(a) = n
      /\ \A i \in 1 .. n : a[i] = t[i]
  <2>1. /\ a \in Seq(S)
        /\ Len(a) = IF 1 <= n THEN n - 1 + 1 ELSE 0
        /\ \A i \in 1 .. n - 1 + 1 : a[i] = t[1 + i - 1]
    BY <1>1, SubSeqType, 1 \in Nat \ {0}
  <2> HIDE DEF a
  <2> QED
    BY <2>1
<1>6. /\ b \in Seq(S) /\ Len(b) = Len(t) - n
      /\ \A i \in 1 .. Len(t) - n : b[i] = t[n + i]
  <2>1. /\ b \in Seq(S)
        /\ Len(b) = IF n + 1 <= Len(t) THEN Len(t) - (n + 1) + 1 ELSE 0
        /\ \A i \in 1 .. Len(t) - (n + 1) + 1 : b[i] = t[(n + 1) + i - 1]
    BY <1>1, SubSeqType, n + 1 \in Nat \ {0}
  <2> HIDE DEF b
  <2>2. Len(b) = Len(t) - n
    BY <1>1, <2>1
  <2>3. ASSUME NEW i \in 1 .. Len(t) - n PROVE b[i] = t[n + i]
    <3>1. i \in 1 .. Len(t) - (n + 1) + 1 /\ (n + 1) + i - 1 = n + i
      BY <1>1
    <3> QED
      BY <2>1, <3>1
  <2> QED
    BY <2>1, <2>2, <2>3
<1> HIDE DEF a, b, p, q
<1>7. /\ sa \in Seq(S) /\ Len(sa) = Len(s) + n
      /\ \A i \in 1 .. Len(s) + n : sa[i] = IF i <= Len(s) THEN s[i] ELSE a[i - Len(s)]
  <2>1. /\ s \o a \in Seq(S) /\ Len(s \o a) = Len(s) + Len(a)
        /\ \A i \in 1 .. Len(s) + Len(a) : (s \o a)[i] = IF i <= Len(s) THEN s[i] ELSE a[i - Len(s)]
    BY <1>5, ConcatProperties
  <2> QED
    BY <1>5, <2>1
<1> HIDE DEF sa
<1>8. ASSUME NEW i \in 1 .. Len(s) + n PROVE p[i] = sa[i]
  <2>1. i \in 1 .. Len(s) + Len(t)
    BY <1>1
  <2>2. CASE i <= Len(s)
    BY <1>1, <1>3, <1>7, <2>1, <2>2
  <2>3. CASE ~(i <= Len(s))
    <3>1. i - Len(s) \in 1 .. n
      BY <1>1, <2>3
    <3> QED
      BY <1>1, <1>3, <1>5, <1>7, <2>1, <2>3, <3>1
  <2> QED
    BY <2>2, <2>3
<1>9. p = sa
  BY <1>3, <1>7, <1>8, SeqEqual
<1>10. ASSUME NEW i \in 1 .. Len(t) - n PROVE q[i] = b[i]
  <2>1. /\ Len(s) + n + i \in 1 .. Len(s) + Len(t) /\ ~(Len(s) + n + i <= Len(s))
        /\ (Len(s) + n + i) - Len(s) = n + i
    BY <1>1
  <2> QED
    BY <1>1, <1>4, <1>6, <2>1
<1>11. q = b
  BY <1>4, <1>6, <1>10, SeqEqual
<1> QED
  BY <1>9, <1>11 DEF joined, p, q, a, b, sa

\* Giving up a place in a line that stands behind another one.
LEMMA GiveUpBehind ==
  ASSUME NEW S, NEW front \in Seq(S), NEW line \in Seq(S), NEW x, x \in ToSet(line)
  PROVE  \E i \in Len(front) + 1 .. Len(front \o line) :
           front \o LeaveLine(line, x) = RemoveAt(front \o line, i)
<1> DEFINE j == CHOOSE i \in 1 .. Len(line) : line[i] = x
           a == SubSeq(line, 1, j - 1)
           b == SubSeq(line, j + 1, Len(line))
           joined == front \o line
<1>1. j \in 1 .. Len(line) /\ Len(line) \in Nat /\ Len(front) \in Nat
  <2>1. \E i \in 1 .. Len(line) : line[i] = x
    BY LineElements
  <2> QED
    BY <2>1, LenProperties
<1>2. LeaveLine(line, x) = a \o b
  BY DEF LeaveLine, RemoveAt
<1> HIDE DEF j
<1>3. Len(joined) = Len(front) + Len(line)
  BY ConcatProperties
<1>4. a \in Seq(S) /\ b \in Seq(S)
  <2>1. j - 1 \in Nat /\ j - 1 <= Len(line) /\ j + 1 \in Nat \ {0}
    BY <1>1
  <2> QED
    BY <1>1, <2>1, SubSeqType, 1 \in Nat \ {0}
<1>5. SubSeq(joined, 1, (Len(front) + j) - 1) = front \o a
  <2>1. j - 1 \in Nat /\ j - 1 <= Len(line) /\ Len(front) + (j - 1) = (Len(front) + j) - 1
    BY <1>1
  <2>2. SubSeq(joined, 1, Len(front) + (j - 1)) = front \o SubSeq(line, 1, j - 1)
    BY <2>1, CutBehind
  <2> QED
    BY <2>1, <2>2
<1>6. SubSeq(joined, (Len(front) + j) + 1, Len(joined)) = b
  <2>1. j \in Nat /\ j <= Len(line)
    BY <1>1
  <2> QED
    BY <2>1, CutBehind
<1>7. RemoveAt(joined, Len(front) + j) = (front \o a) \o b
  BY <1>5, <1>6 DEF RemoveAt
<1> HIDE DEF a, b, joined
<1>8. (front \o a) \o b = front \o (a \o b)
  BY <1>4, ConcatAssociative
<1>9. Len(front) + j \in Len(front) + 1 .. Len(joined)
  BY <1>1, <1>3
<1>10. \E i \in Len(front) + 1 .. Len(joined) : front \o LeaveLine(line, x) = RemoveAt(joined, i)
  BY <1>2, <1>7, <1>8, <1>9
<1> QED
  BY <1>10 DEF joined
=============================================================================
