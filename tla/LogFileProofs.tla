---------------------------- MODULE LogFileProofs ----------------------------
(***************************************************************************)
(* What a process may write, for lines, messages and events of any length  *)
(* and number: the redactor line by line, a text as the lines it is made   *)
(* of, and the log as the texts that were handed to its writer.            *)
(***************************************************************************)
EXTENDS LogFile, OrderedProofs, SequenceTheorems

(* A later position is covered whenever an earlier one is. *)
LEMMA CoversOnwards ==
    ASSUME NEW line \in Seq(Token), NEW j \in Nat, NEW i \in Nat, NEW k \in Nat,
           i <= k, Covers(line, j, i)
    PROVE  Covers(line, j, k)
<1>1. CASE SeparatorsAfter(line, j) = {} /\ i > j
  BY <1>1 DEF Covers
<1>2. CASE \E s \in SeparatorsAfter(line, j) : \E t \in (s + 1)..i : line[t] # Space
  <2>1. PICK s \in SeparatorsAfter(line, j) : \E t \in (s + 1)..i : line[t] # Space
    BY <1>2
  <2>2. s \in Int
    BY DEF SeparatorsAfter
  <2>3. PICK t \in (s + 1)..i : line[t] # Space
    BY <2>1
  <2>4. t \in (s + 1)..k
    BY <2>2
  <2>5. \E u \in (s + 1)..k : line[u] # Space
    BY <2>3, <2>4
  <2>. QED BY <2>5 DEF Covers
<1>. QED BY <1>1, <1>2 DEF Covers

(* The cut leaves whole what no key covers, and nothing more. *)
LEMMA KeptIsPrefix ==
    ASSUME NEW line \in Seq(Token)
    PROVE  /\ Corte(line) \in 0..Len(line)
           /\ \A i \in 1..Corte(line) : i \in Kept(line)
<1>1. Kept(line) \subseteq 1..Len(line)
  BY DEF Kept
<1>2. /\ Len(line) \in Nat /\ IsFiniteSet(1..Len(line))
      /\ Cardinality(1..Len(line)) = Len(line)
  <2>1. Len(line) \in Nat
    OBVIOUS
  <2>. QED BY <2>1, FS_Interval
<1>3. /\ IsFiniteSet(Kept(line)) /\ Corte(line) \in Nat /\ Corte(line) <= Len(line)
  BY <1>1, <1>2, FS_Subset, FS_CardinalityType DEF Corte
<1>4. ASSUME NEW i \in 1..Corte(line), i \notin Kept(line)
      PROVE  FALSE
  <2>1. i \in 1..Len(line)
    BY <1>3
  <2>2. PICK j \in Keys(line) : Covers(line, j, i)
    BY <1>4, <2>1 DEF Kept
  <2>3. j \in Nat
    BY DEF Keys
  <2>4. \A k \in Kept(line) : k < i
    BY <1>1, <2>1, <2>2, <2>3, CoversOnwards DEF Kept
  <2>5. Kept(line) \subseteq 1..(i - 1)
    BY <1>1, <2>1, <2>4
  <2>6. IsFiniteSet(1..(i - 1)) /\ Cardinality(1..(i - 1)) = i - 1
    BY <2>1, FS_Interval
  <2>7. Corte(line) <= i - 1
    BY <2>5, <2>6, FS_Subset DEF Corte
  <2>. QED BY <1>3, <2>1, <2>7
<1>. QED BY <1>3, <1>4

(***************************************************************************)
(* No line, however long and however many keys it names, keeps a value     *)
(* that one of them announces (log.rs: corte, "para que nada sensible      *)
(* quede antes del corte").                                                *)
(***************************************************************************)
THEOREM AnnouncedValuesGo ==
    ASSUME NEW line \in Seq(Token),
           \A i \in DOMAIN line : line[i] = Secret => Announced(line, i)
    PROVE  \A i \in DOMAIN RedactLine(line) : RedactLine(line)[i] # Secret
<1>. DEFINE head == SubSeq(line, 1, Corte(line))
<1>1. ASSUME NEW i \in DOMAIN line, Announced(line, i), line[i] = Secret
      PROVE  i \notin Kept(line)
  <2>1. PICK j \in Keys(line) :
            /\ j < i
            /\ \/ \E s \in (j + 1)..(i - 1) : line[s] \in Separators
               \/ \A s \in (j + 1)..Len(line) : line[s] \notin Separators
    BY <1>1 DEF Announced
  <2>2. CASE \A s \in (j + 1)..Len(line) : line[s] \notin Separators
    <3>1. SeparatorsAfter(line, j) = {}
      BY <2>2 DEF SeparatorsAfter
    <3>. QED BY <2>1, <3>1 DEF Covers, Kept, Keys
  <2>3. CASE \E s \in (j + 1)..(i - 1) : line[s] \in Separators
    <3>1. PICK s \in SeparatorsAfter(line, j) : s \in (j + 1)..(i - 1)
      BY <2>3 DEF SeparatorsAfter, Keys
    <3>2. i \in (s + 1)..i /\ line[i] # Space
      BY <1>1, <3>1 DEF Secret, Space
    <3>. QED BY <3>1, <3>2 DEF Covers, Kept
  <2>. QED BY <2>1, <2>2, <2>3
<1>2. CASE Keys(line) = {}
  BY <1>2 DEF RedactLine, Announced
<1>3. CASE Keys(line) # {}
  <2>1. head \in Seq(Token) /\ Len(head) = Corte(line)
    BY KeptIsPrefix
  <2>2. \A i \in 1..Corte(line) : head[i] = line[i] /\ line[i] # Secret
    BY <1>1, KeptIsPrefix
  <2>3. Ending(line) \in {<<>>, <<NewLine>>}
    BY DEF Ending
  <2>4. RedactLine(line) = head \o <<Tapado>> \o Ending(line)
    BY <1>3 DEF RedactLine
  <2>5. Tapado # Secret /\ NewLine # Secret
    BY DEF Tapado, NewLine, Secret
  <2>. DEFINE tapped == head \o <<Tapado>>
  <2>6. /\ tapped \in Seq(Token)
        /\ \A i \in DOMAIN tapped : tapped[i] # Secret
    BY <2>1, <2>2, <2>5 DEF Token
  <2>7. tapped \o <<>> = tapped
    BY <2>6
  <2>8. CASE Ending(line) = <<>>
    BY <2>4, <2>6, <2>7, <2>8
  <2>9. CASE Ending(line) = <<NewLine>>
    <3>1. RedactLine(line) = tapped \o <<NewLine>>
      BY <2>4, <2>9
    <3>. HIDE DEF tapped
    <3>. QED BY <2>5, <2>6, <3>1
  <2>. QED BY <2>3, <2>8, <2>9
<1>. QED BY <1>2, <1>3

-----------------------------------------------------------------------------
(***************************************************************************)
(* A text, line by line.                                                   *)
(***************************************************************************)
IsLine(t) == t \in Text /\ t # <<>> /\ \A i \in 1..(Len(t) - 1) : t[i] # NewLine
Ended(t) == t = <<>> \/ t[Len(t)] = NewLine

LEMMA EndsType ==
    ASSUME NEW t \in Text
    PROVE  /\ Ends(t) \in SUBSET (1..Len(t)) /\ Ends(t) \in SUBSET Nat
           /\ IsFiniteSet(Ends(t))
<1>1. Len(t) \in Nat /\ DOMAIN t = 1..Len(t)
  BY DEF Text
<1>2. Ends(t) \subseteq 1..Len(t)
  BY <1>1 DEF Ends
<1>3. IsFiniteSet(1..Len(t)) /\ 1..Len(t) \subseteq Nat
  BY <1>1, FS_Interval
<1>. QED BY <1>2, <1>3, FS_Subset

LEMMA LinesType ==
    ASSUME NEW t \in Text
    PROVE  /\ Lines(t) \in Seq(Text) /\ Len(Lines(t)) = Cardinality(Ends(t))
           /\ DOMAIN Lines(t) = 1..Cardinality(Ends(t))
           /\ Cardinality(Ends(t)) \in Nat
<1>. DEFINE ends == Ascending(Ends(t))
            Line(k) == SubSeq(t, IF k = 1 THEN 1 ELSE ends[k - 1] + 1, ends[k])
<1>1. /\ ends \in Seq(Ends(t)) /\ Len(ends) = Cardinality(Ends(t))
      /\ DOMAIN ends = 1..Cardinality(Ends(t)) /\ Cardinality(Ends(t)) \in Nat
  BY EndsType, AscendingType
<1>2. \A k \in 1..Cardinality(Ends(t)) : ends[k] \in 1..Len(t)
  <2>. HIDE DEF ends
  <2>. QED BY <1>1, EndsType
<1>. HIDE DEF ends
<1>3. ASSUME NEW k \in 1..Cardinality(Ends(t)) PROVE Line(k) \in Text
  <2>1. \A i \in 1..Len(t) : t[i] \in Token
    BY DEF Text
  <2>2. Len(t) \in Nat
    BY DEF Text
  <2>. DEFINE m == IF k = 1 THEN 1 ELSE ends[k - 1] + 1
  <2>3. m \in Nat /\ m >= 1
    BY <1>1, <1>2
  <2>4. ends[k] \in 1..Len(t)
    BY <1>2
  <2>. HIDE DEF m
  <2>5. m \in Int /\ ends[k] \in Int /\ \A i \in m..ends[k] : t[i] \in Token
    BY <2>1, <2>2, <2>3, <2>4
  <2>6. SubSeq(t, m, ends[k]) \in Seq(Token)
    BY <2>5, SubSeqProperties
  <2>. QED BY <2>6 DEF m, Text
<1>4. Lines(t) = [k \in 1..Cardinality(Ends(t)) |-> Line(k)]
  BY <1>1 DEF Lines, ends
<1>. HIDE DEF Line
<1>5. Lines(t) \in [1..Cardinality(Ends(t)) -> Text]
  BY <1>3, <1>4
<1>. QED BY <1>1, <1>5

(* split_inclusive of a text that ends its last line, and of one more line. *)
LEMMA LinesAppend ==
    ASSUME NEW t \in Text, Ended(t), NEW r, IsLine(r)
    PROVE  /\ t \o r \in Text
           /\ Lines(t \o r) = Append(Lines(t), r)
<1>. DEFINE u == t \o r
            n == Cardinality(Ends(t))
            endsT == Ascending(Ends(t))
            endsU == Ascending(Ends(u))
<1>1. /\ u \in Text /\ Len(u) = Len(t) + Len(r)
      /\ Len(t) \in Nat /\ Len(r) \in Nat \ {0}
      /\ r \in Text
  BY ConcatProperties DEF IsLine, Text
<1>2. /\ \A i \in 1..Len(t) : u[i] = t[i]
      /\ \A i \in 1..Len(r) : u[Len(t) + i] = r[i]
  BY <1>1 DEF Text
<1>. HIDE DEF u
<1>3. Ends(u) = Ends(t) \cup {Len(u)}
  <2>1. DOMAIN t = 1..Len(t) /\ DOMAIN u = 1..Len(u)
    BY <1>1 DEF Text
  <2>2. ASSUME NEW e \in 1..Len(t) PROVE e \in Ends(u) <=> e \in Ends(t)
    <3>1. u[e] = t[e] /\ e # Len(u) /\ e \in 1..Len(u)
      BY <1>1, <1>2
    <3>2. e = Len(t) => t[e] = NewLine
      BY <1>1 DEF Ended, Text
    <3>. QED BY <2>1, <3>1, <3>2 DEF Ends
  <2>3. ASSUME NEW e \in (Len(t) + 1)..Len(u) PROVE e \in Ends(u) <=> e = Len(u)
    <3>1. e - Len(t) \in 1..Len(r) /\ Len(t) + (e - Len(t)) = e /\ e \in 1..Len(u)
      BY <1>1
    <3>2. u[e] = r[e - Len(t)]
      BY <1>2, <3>1
    <3>3. e # Len(u) => r[e - Len(t)] # NewLine
      BY <1>1, <3>1 DEF IsLine
    <3>. QED BY <2>1, <3>1, <3>2, <3>3 DEF Ends
  <2>4. Ends(t) \subseteq 1..Len(t) /\ Ends(u) \subseteq 1..Len(u)
    BY <1>1, EndsType
  <2>5. 1..Len(u) = 1..Len(t) \cup (Len(t) + 1)..Len(u) /\ Len(u) \in (Len(t) + 1)..Len(u)
    BY <1>1
  <2>. QED BY <2>2, <2>3, <2>4, <2>5
<1>4. /\ n \in Nat /\ endsT \in Seq(1..Len(t)) /\ Len(endsT) = n
      /\ endsU = Append(endsT, Len(u))
  <2>1. /\ Ends(t) \in SUBSET (1..Len(t)) /\ Ends(t) \in SUBSET Nat
        /\ IsFiniteSet(Ends(t))
    BY EndsType
  <2>2. Len(u) \in Nat /\ \A e \in Ends(t) : e < Len(u)
    BY <1>1, <2>1
  <2>3. endsU = Append(endsT, Len(u))
    BY <1>3, <2>1, <2>2, AscendingAppend
  <2>4. endsT \in Seq(Ends(t)) /\ Len(endsT) = n /\ n \in Nat
    BY <2>1, AscendingType
  <2>. HIDE DEF endsT, n
  <2>. QED BY <2>1, <2>3, <2>4
<1>5. n > 0 => endsT[n] = Len(t)
  <2>1. CASE t = <<>>
    <3>1. Ends(t) = {}
      BY <2>1 DEF Ends
    <3>. QED BY <3>1, FS_EmptySet
  <2>2. CASE t # <<>>
    <3>1. Len(t) \in Ends(t)
      BY <1>1, <2>2 DEF Ends, Text
    <3>2. \A e \in Ends(t) : e <= Len(t)
      BY <1>1, EndsType
    <3>. QED BY <3>1, <3>2, EndsType, AscendingLast
  <2>. QED BY <2>1, <2>2
<1>6. n = 0 => t = <<>>
  <2>1. ASSUME t # <<>> PROVE Ends(t) # {}
    BY <1>1, <2>1 DEF Ends, Text
  <2>. QED BY <2>1, EndsType, FS_EmptySet
<1>. HIDE DEF endsT, endsU, n
<1>7. /\ \A k \in 1..n : endsU[k] = endsT[k] /\ endsT[k] \in 1..Len(t)
      /\ endsU[n + 1] = Len(u)
      /\ DOMAIN endsU = 1..(n + 1) /\ DOMAIN endsT = 1..n
  <2>1. Len(u) \in Nat /\ endsT \in Seq(Nat)
    BY <1>1, <1>4
  <2>2. /\ Append(endsT, Len(u)) \in Seq(Nat)
        /\ Len(Append(endsT, Len(u))) = n + 1
        /\ \A k \in 1..n : Append(endsT, Len(u))[k] = endsT[k]
        /\ Append(endsT, Len(u))[n + 1] = Len(u)
    BY <1>4, <2>1, AppendProperties
  <2>3. DOMAIN endsU = 1..(n + 1) /\ DOMAIN endsT = 1..n
    BY <1>4, <2>1, <2>2, LenProperties
  <2>4. \A k \in 1..n : endsT[k] \in 1..Len(t)
    BY <1>4, ElementOfSeq
  <2>. QED BY <1>4, <2>2, <2>3, <2>4
<1>. DEFINE StartT(k) == IF k = 1 THEN 1 ELSE endsT[k - 1] + 1
            StartU(k) == IF k = 1 THEN 1 ELSE endsU[k - 1] + 1
<1>8. ASSUME NEW k \in 1..n
      PROVE  SubSeq(u, StartU(k), endsU[k]) = SubSeq(t, StartT(k), endsT[k])
  <2>1. StartU(k) = StartT(k) /\ StartT(k) \in Nat \ {0}
    BY <1>4, <1>7
  <2>2. endsU[k] = endsT[k] /\ endsT[k] \in 1..Len(t)
    BY <1>7
  <2>. HIDE DEF StartU, StartT
  <2>. DEFINE a == SubSeq(u, StartU(k), endsU[k])
              b == SubSeq(t, StartT(k), endsT[k])
  <2>3. \A i \in StartT(k)..endsT[k] : t[i] \in Token /\ u[i] = t[i]
    BY <1>2, <2>1, <2>2 DEF Text
  <2>4. /\ b \in Seq(Token)
        /\ Len(b) = IF StartT(k) <= endsT[k] THEN endsT[k] - StartT(k) + 1 ELSE 0
        /\ \A i \in 1..(endsT[k] - StartT(k) + 1) : b[i] = t[StartT(k) + i - 1]
    BY <2>1, <2>2, <2>3, SubSeqProperties
  <2>5. /\ a \in Seq(Token)
        /\ Len(a) = IF StartT(k) <= endsT[k] THEN endsT[k] - StartT(k) + 1 ELSE 0
        /\ \A i \in 1..(endsT[k] - StartT(k) + 1) : a[i] = u[StartT(k) + i - 1]
    BY <2>1, <2>2, <2>3, SubSeqProperties
  <2>. HIDE DEF a, b
  <2>6. \A i \in 1..Len(a) : a[i] = b[i]
    <3>1. ASSUME NEW i \in 1..Len(a) PROVE a[i] = b[i]
      <4>1. /\ i \in 1..(endsT[k] - StartT(k) + 1)
            /\ StartT(k) + i - 1 \in StartT(k)..endsT[k]
        BY <2>1, <2>2, <2>5
      <4>. QED BY <2>3, <2>4, <2>5, <4>1
    <3>. QED BY <3>1
  <2>7. Len(a) = Len(b)
    BY <2>4, <2>5
  <2>8. a = b
    BY <2>4, <2>5, <2>6, <2>7, SeqEqual
  <2>. QED BY <2>8 DEF a, b
<1>9. SubSeq(u, StartU(n + 1), endsU[n + 1]) = r
  <2>1. StartU(n + 1) = Len(t) + 1
    <3>1. CASE n = 0
      BY <1>6, <3>1
    <3>2. CASE n # 0
      BY <1>1, <1>4, <1>5, <1>7, <3>2
    <3>. QED BY <3>1, <3>2
  <2>. HIDE DEF StartU
  <2>2. SubSeq(u, Len(t) + 1, Len(u)) \in Seq(Token)
        /\ Len(SubSeq(u, Len(t) + 1, Len(u))) = Len(r)
        /\ \A i \in 1..Len(r) : SubSeq(u, Len(t) + 1, Len(u))[i] = u[Len(t) + i]
    BY <1>1 DEF Text
  <2>3. r \in Seq(Token)
    BY <1>1 DEF Text
  <2>4. \A i \in 1..Len(r) : SubSeq(u, Len(t) + 1, Len(u))[i] = r[i]
    BY <1>2, <2>2
  <2>5. SubSeq(u, Len(t) + 1, Len(u)) = r
    BY <2>2, <2>3, <2>4, SeqEqual
  <2>. QED BY <1>7, <2>1, <2>5
<1>10. Lines(u) = [k \in 1..(n + 1) |-> SubSeq(u, StartU(k), endsU[k])]
  BY <1>7 DEF Lines, endsU
<1>11. Lines(t) = [k \in 1..n |-> SubSeq(t, StartT(k), endsT[k])]
  BY <1>7 DEF Lines, endsT
<1>. HIDE DEF StartU, StartT
<1>12. /\ Lines(t) \in Seq(Text) /\ Len(Lines(t)) = n
       /\ Lines(u) \in Seq(Text) /\ Len(Lines(u)) = n + 1
  <2>1. Lines(t) \in Seq(Text) /\ Lines(u) \in Seq(Text)
    BY <1>1, LinesType
  <2>. QED BY <1>4, <1>10, <1>11, <2>1
<1>13. \A k \in 1..(n + 1) : Lines(u)[k] = Append(Lines(t), r)[k]
  <2>1. /\ \A k \in 1..n : Append(Lines(t), r)[k] = Lines(t)[k]
        /\ Append(Lines(t), r)[n + 1] = r
    BY <1>1, <1>12, AppendProperties
  <2>2. ASSUME NEW k \in 1..n PROVE Lines(u)[k] = Lines(t)[k]
    <3>1. k \in 1..(n + 1)
      BY <1>4
    <3>2. Lines(u)[k] = SubSeq(u, StartU(k), endsU[k])
      BY <1>10, <3>1
    <3>3. Lines(t)[k] = SubSeq(t, StartT(k), endsT[k])
      BY <1>11
    <3>. QED BY <1>8, <3>2, <3>3
  <2>3. Lines(u)[n + 1] = r
    BY <1>4, <1>9, <1>10
  <2>4. \A k \in 1..(n + 1) : k \in 1..n \/ k = n + 1
    BY <1>4
  <2>. QED BY <2>1, <2>2, <2>3, <2>4
<1>14. Append(Lines(t), r) \in Seq(Text) /\ Len(Append(Lines(t), r)) = n + 1
  BY <1>1, <1>12
<1>15. Lines(u) = Append(Lines(t), r)
  BY <1>12, <1>13, <1>14, SeqEqual
<1>. QED BY <1>1, <1>15 DEF u

LEMMA NoLines == Lines(<<>>) = <<>>
<1>1. Ends(<<>>) = {}
  BY DEF Ends
<1>. QED BY <1>1, AscendingEmpty DEF Lines

(* Any text but the empty one is its last line after an ended text. *)
LEMMA LastLine ==
    ASSUME NEW t \in Text, t # <<>>
    PROVE  \E a \in Text, r \in Text :
              t = a \o r /\ Ended(a) /\ IsLine(r) /\ Len(a) < Len(t)
<1>1. Len(t) \in Nat \ {0} /\ DOMAIN t = 1..Len(t) /\ \A i \in 1..Len(t) : t[i] \in Token
  BY DEF Text
<1>. DEFINE n == Len(t) - 1
            breaks == {e \in 0..n : e = 0 \/ t[e] = NewLine}
<1>2. PICK m \in breaks : \A e \in breaks : e <= m
  <2>1. n \in Nat /\ breaks \in SUBSET (0..n) /\ 0 \in breaks
    BY <1>1
  <2>. HIDE DEF breaks, n
  <2>. QED BY <2>1, GreatestMember
<1>3. m \in 0..(Len(t) - 1) /\ (m = 0 \/ t[m] = NewLine)
  BY <1>2
<1>4. \A e \in (m + 1)..(Len(t) - 1) : t[e] # NewLine
  <2>1. ASSUME NEW e \in (m + 1)..(Len(t) - 1), t[e] = NewLine PROVE FALSE
    <3>1. e \in breaks
      BY <1>1, <1>3, <2>1
    <3>2. e <= m
      BY <1>2, <3>1
    <3>. QED BY <1>1, <1>3, <3>2
  <2>. QED BY <2>1
<1>. HIDE DEF breaks, n
<1>. DEFINE a == SubSeq(t, 1, m)
            r == SubSeq(t, m + 1, Len(t))
<1>5. a \in Text /\ Len(a) = m /\ \A i \in 1..m : a[i] = t[i]
  <2>1. \A i \in 1..m : t[i] \in Token
    BY <1>1, <1>3
  <2>2. /\ a \in Seq(Token) /\ Len(a) = IF 1 <= m THEN m - 1 + 1 ELSE 0
        /\ \A i \in 1..(m - 1 + 1) : a[i] = t[1 + i - 1]
    BY <1>3, <2>1, SubSeqProperties
  <2>. QED BY <1>3, <2>2 DEF Text
<1>6. r \in Text /\ Len(r) = Len(t) - m /\ \A i \in 1..(Len(t) - m) : r[i] = t[m + i]
  <2>1. \A i \in (m + 1)..Len(t) : t[i] \in Token
    BY <1>1, <1>3
  <2>2. /\ r \in Seq(Token) /\ Len(r) = IF m + 1 <= Len(t) THEN Len(t) - (m + 1) + 1 ELSE 0
        /\ \A i \in 1..(Len(t) - (m + 1) + 1) : r[i] = t[(m + 1) + i - 1]
    BY <1>1, <1>3, <2>1, SubSeqProperties
  <2>. QED BY <1>1, <1>3, <2>2 DEF Text
<1>. HIDE DEF a, r
<1>7. t = a \o r
  <2>1. /\ a \o r \in Seq(Token) /\ Len(a \o r) = Len(t)
        /\ \A i \in 1..Len(t) : (a \o r)[i] = IF i <= m THEN a[i] ELSE r[i - m]
    <3>1. Len(a) + Len(r) = Len(t) /\ a \in Seq(Token) /\ r \in Seq(Token)
      BY <1>1, <1>3, <1>5, <1>6 DEF Text
    <3>. QED BY <1>5, <3>1, ConcatProperties
  <2>2. \A i \in 1..Len(t) : (a \o r)[i] = t[i]
    BY <1>1, <1>3, <1>5, <1>6, <2>1
  <2>. QED BY <1>1, <2>1, <2>2, SeqEqual DEF Text
<1>8. Ended(a)
  <2>1. m = 0 => a = <<>>
    BY <1>5 DEF Text
  <2>. QED BY <1>3, <1>5, <2>1 DEF Ended
<1>9. IsLine(r)
  <2>1. r # <<>>
    BY <1>1, <1>3, <1>6 DEF Text
  <2>2. ASSUME NEW i \in 1..(Len(r) - 1) PROVE r[i] # NewLine
    <3>1. m + i \in (m + 1)..(Len(t) - 1) /\ i \in 1..(Len(t) - m)
      BY <1>1, <1>3, <1>6
    <3>. QED BY <1>4, <1>6, <3>1
  <2>. QED BY <1>6, <2>1, <2>2 DEF IsLine
<1>10. Len(a) < Len(t)
  BY <1>1, <1>3, <1>5
<1>. QED BY <1>5, <1>6, <1>7, <1>8, <1>9, <1>10

(* What holds of no text, and of one line more than it holds of, holds of   *)
(* every text.                                                             *)
LEMMA TextInduction ==
    ASSUME NEW A \in SUBSET Text, <<>> \in A,
           \A a \in A, r \in Text : Ended(a) /\ IsLine(r) => a \o r \in A
    PROVE  A = Text
<1>. DEFINE S == {n \in Nat : \A t \in Text : Len(t) <= n => t \in A}
<1>1. 0 \in S
  <2>1. ASSUME NEW t \in Text, Len(t) <= 0 PROVE t = <<>>
    BY <2>1 DEF Text
  <2>. QED BY <2>1
<1>2. ASSUME NEW n \in S PROVE n + 1 \in S
  <2>1. ASSUME NEW t \in Text, Len(t) <= n + 1 PROVE t \in A
    <3>1. CASE t = <<>>
      BY <3>1
    <3>2. CASE t # <<>>
      <4>1. PICK a \in Text, r \in Text :
                t = a \o r /\ Ended(a) /\ IsLine(r) /\ Len(a) < Len(t)
        BY <3>2, LastLine
      <4>2. Len(a) \in Nat /\ Len(t) \in Nat
        BY DEF Text
      <4>3. a \in A
        BY <2>1, <4>1, <4>2
      <4>. QED BY <4>1, <4>3
    <3>. QED BY <3>1, <3>2
  <2>. QED BY <2>1
<1>3. S = Nat
  <2>. HIDE DEF S
  <2>. QED BY <1>1, <1>2, SetInduction DEF S
<1>4. ASSUME NEW t \in Text PROVE t \in A
  <2>1. Len(t) \in S
    <3>1. Len(t) \in Nat
      BY DEF Text
    <3>. HIDE DEF S
    <3>. QED BY <1>3, <3>1
  <2>2. Len(t) <= Len(t)
    BY DEF Text
  <2>. QED BY <2>1, <2>2
<1>. QED BY <1>4

-----------------------------------------------------------------------------
(***************************************************************************)
(* FlattenSeq, whose definition is recursive: there is one function that   *)
(* answers it, and it concatenates.                                        *)
(***************************************************************************)
Flattens(ss, f, n) ==
    \A i \in 1..n : f[i] = IF i = 1 THEN ss[i] ELSE f[i - 1] \o ss[i]

LEMMA FlattenExists ==
    ASSUME NEW T, NEW ss \in Seq(Seq(T))
    PROVE  \E f \in [1..Len(ss) -> Seq(T)] : Flattens(ss, f, Len(ss))
<1>. DEFINE S == {n \in Nat : n <= Len(ss) => \E f \in [1..n -> Seq(T)] : Flattens(ss, f, n)}
<1>1. 0 \in S
  <2>. DEFINE f == [i \in 1..0 |-> <<>>]
  <2>1. f \in [1..0 -> Seq(T)] /\ Flattens(ss, f, 0)
    BY DEF Flattens
  <2>. HIDE DEF f
  <2>. QED BY <2>1
<1>2. ASSUME NEW n \in S PROVE n + 1 \in S
  <2>1. SUFFICES ASSUME n + 1 <= Len(ss)
                 PROVE  \E f \in [1..(n + 1) -> Seq(T)] : Flattens(ss, f, n + 1)
    <3>1. n \in Nat /\ n + 1 \in Nat
      OBVIOUS
    <3>. QED BY <3>1
  <2>2. PICK g \in [1..n -> Seq(T)] : Flattens(ss, g, n)
    <3>1. n \in Nat /\ n <= Len(ss) /\ Len(ss) \in Nat
      BY <2>1, LenProperties
    <3>. QED BY <3>1
  <2>. DEFINE last == IF n = 0 THEN ss[1] ELSE g[n] \o ss[n + 1]
              f == [i \in 1..(n + 1) |-> IF i = n + 1 THEN last ELSE g[i]]
  <2>3. last \in Seq(T)
    <3>1. n + 1 \in 1..Len(ss) /\ ss[n + 1] \in Seq(T)
      BY <2>1, ElementOfSeq
    <3>2. n # 0 => g[n] \in Seq(T)
      OBVIOUS
    <3>. QED BY <3>1, <3>2, ConcatProperties
  <2>4. f \in [1..(n + 1) -> Seq(T)]
    <3>1. \A i \in 1..(n + 1) : i # n + 1 => g[i] \in Seq(T)
      OBVIOUS
    <3>. HIDE DEF last
    <3>. QED BY <2>3, <3>1
  <2>5. ASSUME NEW i \in 1..(n + 1)
        PROVE  f[i] = IF i = 1 THEN ss[i] ELSE f[i - 1] \o ss[i]
    <3>1. CASE i = n + 1
      <4>1. CASE n = 0
        BY <3>1, <4>1
      <4>2. CASE n # 0
        <5>1. f[i] = last /\ last = g[n] \o ss[n + 1] /\ i # 1 /\ i - 1 = n
          <6>1. f[i] = last
            BY <3>1
          <6>2. last = g[n] \o ss[n + 1]
            BY <4>2
          <6>3. i # 1 /\ i - 1 = n
            BY <3>1, <4>2
          <6>. QED BY <6>1, <6>2, <6>3
        <5>2. f[n] = g[n]
          BY <4>2
        <5>. QED BY <3>1, <5>1, <5>2
      <4>. QED BY <4>1, <4>2
    <3>2. CASE i # n + 1
      <4>1. i \in 1..n /\ f[i] = g[i] /\ (i # 1 => i - 1 \in 1..n /\ f[i - 1] = g[i - 1])
        BY <3>2
      <4>. HIDE DEF f
      <4>. QED BY <2>2, <4>1 DEF Flattens
    <3>. QED BY <3>1, <3>2
  <2>. HIDE DEF f
  <2>. QED BY <2>4, <2>5 DEF Flattens
<1>3. S = Nat
  <2>. HIDE DEF S
  <2>. QED BY <1>1, <1>2, SetInduction DEF S
<1>4. Len(ss) \in S
  <2>. HIDE DEF S
  <2>. QED BY <1>3, LenProperties
<1>. QED BY <1>4

LEMMA FlattenUnique ==
    ASSUME NEW T, NEW ss \in Seq(Seq(T)), NEW f, NEW g, NEW k \in Nat,
           Flattens(ss, f, k), Flattens(ss, g, k)
    PROVE  \A i \in 1..k : f[i] = g[i]
<1>. DEFINE S == {n \in Nat : n \in 1..k => f[n] = g[n]}
<1>1. 0 \in S
  OBVIOUS
<1>2. ASSUME NEW n \in S PROVE n + 1 \in S
  <2>1. SUFFICES ASSUME n + 1 \in 1..k PROVE f[n + 1] = g[n + 1]
    OBVIOUS
  <2>2. CASE n = 0
    BY <2>1, <2>2 DEF Flattens
  <2>3. CASE n # 0
    <3>1. f[n] = g[n] /\ n + 1 # 1 /\ (n + 1) - 1 = n
      BY <2>1, <2>3
    <3>2. f[n + 1] = f[n] \o ss[n + 1] /\ g[n + 1] = g[n] \o ss[n + 1]
      BY <2>1, <3>1 DEF Flattens
    <3>. QED BY <3>1, <3>2
  <2>. QED BY <2>2, <2>3
<1>3. S = Nat
  <2>. HIDE DEF S
  <2>. QED BY <1>1, <1>2, SetInduction DEF S
<1>4. ASSUME NEW i \in 1..k PROVE i \in S
  <2>. HIDE DEF S
  <2>. QED BY <1>3
<1>. QED BY <1>4

LEMMA FlattenIs ==
    ASSUME NEW T, NEW ss \in Seq(Seq(T)), ss # <<>>
    PROVE  \E f \in [1..Len(ss) -> Seq(T)] :
              Flattens(ss, f, Len(ss)) /\ FlattenSeq(ss) = f[Len(ss)]
<1>. DEFINE Body(h) == [i \in 1..Len(ss) |-> IF i = 1 THEN ss[i] ELSE h[i - 1] \o ss[i]]
            f == CHOOSE h : h = Body(h)
<1>1. PICK g \in [1..Len(ss) -> Seq(T)] : Flattens(ss, g, Len(ss))
  BY FlattenExists
<1>2. g = Body(g)
  BY <1>1 DEF Flattens
<1>3. f = Body(f)
  BY <1>2
<1>4. Flattens(ss, f, Len(ss))
  <2>1. \A i \in 1..Len(ss) : Body(f)[i] = IF i = 1 THEN ss[i] ELSE f[i - 1] \o ss[i]
    OBVIOUS
  <2>. HIDE DEF f
  <2>. QED BY <1>3, <2>1 DEF Flattens
<1>5. Len(ss) \in Nat \ {0}
  BY EmptySeq, LenProperties
<1>6. f[Len(ss)] = g[Len(ss)]
  <2>1. \A i \in 1..Len(ss) : f[i] = g[i]
    <3>. HIDE DEF f
    <3>. QED BY <1>1, <1>4, <1>5, FlattenUnique
  <2>. HIDE DEF f
  <2>. QED BY <1>5, <2>1
<1>7. FlattenSeq(ss) = f[Len(ss)]
  BY <1>5 DEF FlattenSeq
<1>. HIDE DEF f
<1>. QED BY <1>1, <1>6, <1>7

LEMMA FlattenEmpty == FlattenSeq(<<>>) = <<>>
BY DEF FlattenSeq

LEMMA FlattenType ==
    ASSUME NEW T, NEW ss \in Seq(Seq(T))
    PROVE  FlattenSeq(ss) \in Seq(T)
<1>1. CASE ss = <<>>
  <2>1. FlattenSeq(ss) = <<>>
    BY <1>1, FlattenEmpty
  <2>2. <<>> \in Seq(T)
    OBVIOUS
  <2>. QED BY <2>1, <2>2
<1>2. CASE ss # <<>>
  <2>1. Len(ss) \in 1..Len(ss)
    BY <1>2, EmptySeq
  <2>2. PICK f \in [1..Len(ss) -> Seq(T)] : FlattenSeq(ss) = f[Len(ss)]
    BY <1>2, FlattenIs
  <2>. QED BY <2>1, <2>2
<1>. QED BY <1>1, <1>2

LEMMA FlattenAppend ==
    ASSUME NEW T, NEW ss \in Seq(Seq(T)), NEW x \in Seq(T)
    PROVE  FlattenSeq(Append(ss, x)) = FlattenSeq(ss) \o x
<1>. DEFINE tt == Append(ss, x)
            n == Len(ss)
<1>1. /\ tt \in Seq(Seq(T)) /\ tt # <<>> /\ Len(tt) = n + 1 /\ n \in Nat
      /\ tt[n + 1] = x /\ \A i \in 1..n : tt[i] = ss[i]
  BY AppendProperties, LenProperties
<1>. HIDE DEF tt
<1>2. PICK f \in [1..(n + 1) -> Seq(T)] :
            Flattens(tt, f, n + 1) /\ FlattenSeq(tt) = f[n + 1]
  BY <1>1, FlattenIs
<1>3. CASE ss = <<>>
  <2>1. n = 0
    BY <1>3
  <2>2. FlattenSeq(tt) = x
    BY <1>1, <1>2, <2>1 DEF Flattens
  <2>3. FlattenSeq(ss) \o x = x
    BY <1>3, FlattenEmpty, ConcatEmptySeq
  <2>. QED BY <2>2, <2>3 DEF tt
<1>4. CASE ss # <<>>
  <2>1. n # 0
    BY <1>4, EmptySeq
  <2>2. PICK g \in [1..n -> Seq(T)] : Flattens(ss, g, n) /\ FlattenSeq(ss) = g[n]
    BY <1>4, FlattenIs
  <2>3. Flattens(ss, f, n)
    <3>1. ASSUME NEW i \in 1..n
          PROVE  f[i] = IF i = 1 THEN ss[i] ELSE f[i - 1] \o ss[i]
      <4>1. i \in 1..(n + 1) /\ tt[i] = ss[i]
        BY <1>1
      <4>. QED BY <1>2, <4>1 DEF Flattens
    <3>. QED BY <3>1 DEF Flattens
  <2>4. f[n] = g[n]
    <3>1. \A i \in 1..n : f[i] = g[i]
      BY <1>1, <2>2, <2>3, FlattenUnique
    <3>. QED BY <1>1, <2>1, <3>1
  <2>5. f[n + 1] = f[n] \o x
    <3>1. n + 1 \in 1..(n + 1) /\ n + 1 # 1 /\ (n + 1) - 1 = n
      BY <1>1, <2>1
    <3>. QED BY <1>1, <1>2, <3>1 DEF Flattens
  <2>. QED BY <1>2, <2>2, <2>4, <2>5 DEF tt
<1>. QED BY <1>3, <1>4

-----------------------------------------------------------------------------
(***************************************************************************)
(* A text, redacted.                                                       *)
(***************************************************************************)
LEMMA RedactLineType == ASSUME NEW line \in Text PROVE RedactLine(line) \in Text
<1>. DEFINE head == SubSeq(line, 1, Corte(line))
<1>1. head \in Seq(Token)
  BY KeptIsPrefix DEF Text
<1>2. <<Tapado>> \in Seq(Token) /\ Ending(line) \in Seq(Token)
  <2>1. Tapado \in Token /\ NewLine \in Token
    BY DEF Token
  <2>2. Ending(line) = <<>> \/ Ending(line) = <<NewLine>>
    BY DEF Ending
  <2>3. CASE Ending(line) = <<>>
    BY <2>1, <2>3
  <2>4. CASE Ending(line) = <<NewLine>>
    BY <2>1, <2>4
  <2>. QED BY <2>2, <2>3, <2>4
<1>. HIDE DEF head
<1>3. head \o <<Tapado>> \o Ending(line) \in Seq(Token)
  BY <1>1, <1>2, ConcatProperties
<1>. QED BY <1>3 DEF RedactLine, Text, head

LEMMA RedactedType ==
    ASSUME NEW t \in Text
    PROVE  /\ [k \in DOMAIN Lines(t) |-> RedactLine(Lines(t)[k])] \in Seq(Text)
           /\ Redacted(t) \in Text
<1>. DEFINE lines == Lines(t)
            redacted == [k \in DOMAIN lines |-> RedactLine(lines[k])]
<1>1. lines \in Seq(Text) /\ DOMAIN lines = 1..Len(lines) /\ Len(lines) \in Nat
  BY LinesType, LenProperties
<1>2. \A k \in 1..Len(lines) : RedactLine(lines[k]) \in Text
  <2>. HIDE DEF lines
  <2>. QED BY <1>1, RedactLineType, ElementOfSeq
<1>3. redacted \in Seq(Text)
  <2>1. redacted \in [1..Len(lines) -> Text]
    <3>. HIDE DEF lines
    <3>. QED BY <1>1, <1>2
  <2>. HIDE DEF redacted
  <2>. QED BY <1>1, <2>1
<1>4. FlattenSeq(redacted) \in Text
  <2>. HIDE DEF redacted
  <2>. QED BY <1>3, FlattenType DEF Text
<1>. QED BY <1>3, <1>4 DEF Redacted

(* What is redacted of a text and one line more. *)
LEMMA RedactedAppend ==
    ASSUME NEW t \in Text, Ended(t), NEW r, IsLine(r)
    PROVE  Redacted(t \o r) = Redacted(t) \o RedactLine(r)
<1>. DEFINE RL(ls) == [k \in DOMAIN ls |-> RedactLine(ls[k])]
            n == Len(Lines(t))
<1>1. /\ Lines(t) \in Seq(Text) /\ n \in Nat /\ DOMAIN Lines(t) = 1..n
      /\ r \in Text /\ RedactLine(r) \in Text /\ RL(Lines(t)) \in Seq(Text)
  BY LinesType, LenProperties, RedactLineType, RedactedType DEF IsLine
<1>2. Lines(t \o r) = Append(Lines(t), r) /\ t \o r \in Text
  BY LinesAppend
<1>3. /\ Len(Append(Lines(t), r)) = n + 1 /\ DOMAIN Append(Lines(t), r) = 1..(n + 1)
      /\ \A k \in 1..n : Append(Lines(t), r)[k] = Lines(t)[k]
      /\ Append(Lines(t), r)[n + 1] = r
  <2>1. Append(Lines(t), r) \in Seq(Text) /\ Len(Append(Lines(t), r)) = n + 1
    BY <1>1, AppendProperties
  <2>2. DOMAIN Append(Lines(t), r) = 1..(n + 1)
    BY <2>1, LenProperties
  <2>. QED BY <1>1, <2>1, <2>2, AppendProperties
<1>4. RL(Append(Lines(t), r)) = Append(RL(Lines(t)), RedactLine(r))
  <2>. DEFINE left == RL(Append(Lines(t), r))
              right == Append(RL(Lines(t)), RedactLine(r))
  <2>1. left \in Seq(Text) /\ Len(left) = n + 1
    <3>1. left \in Seq(Text)
      BY <1>2, RedactedType
    <3>2. DOMAIN left = 1..(n + 1)
      BY <1>3
    <3>3. Len(left) \in Nat /\ DOMAIN left = 1..Len(left)
      <4>. HIDE DEF left
      <4>. QED BY <3>1, LenProperties
    <3>. HIDE DEF left
    <3>. QED BY <1>1, <3>1, <3>2, <3>3
  <2>2. Len(RL(Lines(t))) = n
    <3>1. DOMAIN RL(Lines(t)) = 1..n
      BY <1>1
    <3>2. Len(RL(Lines(t))) \in Nat /\ DOMAIN RL(Lines(t)) = 1..Len(RL(Lines(t)))
      <4>. HIDE DEF RL
      <4>. QED BY <1>1, LenProperties
    <3>. HIDE DEF RL
    <3>. QED BY <1>1, <3>1, <3>2
  <2>3. /\ right \in Seq(Text) /\ Len(right) = n + 1
        /\ \A k \in 1..n : right[k] = RL(Lines(t))[k]
        /\ right[n + 1] = RedactLine(r)
    <3>. HIDE DEF RL
    <3>. QED BY <1>1, <2>2, AppendProperties
  <2>4. ASSUME NEW k \in 1..(n + 1) PROVE left[k] = right[k]
    <3>1. left[k] = RedactLine(Append(Lines(t), r)[k])
      BY <1>3
    <3>2. CASE k = n + 1
      BY <1>3, <2>3, <3>1, <3>2
    <3>3. CASE k # n + 1
      <4>1. k \in 1..n
        BY <1>1, <3>3
      <4>2. RL(Lines(t))[k] = RedactLine(Lines(t)[k])
        BY <1>1, <4>1
      <4>. HIDE DEF RL
      <4>. QED BY <1>3, <2>3, <3>1, <4>1, <4>2
    <3>. QED BY <3>2, <3>3
  <2>. HIDE DEF left, right
  <2>. QED BY <2>1, <2>3, <2>4, SeqEqual DEF left, right
<1>5. Redacted(t) = FlattenSeq(RL(Lines(t))) /\ Redacted(t \o r) = FlattenSeq(RL(Append(Lines(t), r)))
  BY <1>2 DEF Redacted
<1>. HIDE DEF RL
<1>. QED BY <1>1, <1>4, <1>5, FlattenAppend DEF Text

LEMMA RedactedEmpty == Redacted(<<>>) = <<>>
BY NoLines, FlattenEmpty DEF Redacted

(* The cut spares the first key on the line, and takes the line's newline. *)
LEMMA CutPlace ==
    ASSUME NEW line, IsLine(line), Ended(line), Keys(line) # {}
    PROVE  /\ Corte(line) \in 1..(Len(line) - 1)
           /\ \E j \in Keys(line) : j <= Corte(line)
<1>1. /\ line \in Seq(Token) /\ Len(line) \in Nat \ {0} /\ DOMAIN line = 1..Len(line)
      /\ line[Len(line)] = NewLine
  BY DEF IsLine, Ended, Text
<1>2. Keys(line) \in SUBSET (1..Len(line)) /\ Keys(line) \in SUBSET Nat
  BY <1>1 DEF Keys
<1>3. PICK j \in Keys(line) : \A k \in Keys(line) : j <= k
  BY <1>2, LeastMember
<1>4. 1..j \subseteq Kept(line)
  <2>1. ASSUME NEW i \in 1..j, NEW k \in Keys(line), Covers(line, k, i) PROVE FALSE
    <3>1. i <= k /\ i \in Nat /\ k \in Nat /\ j \in Nat
      BY <1>2, <1>3
    <3>2. \A s \in SeparatorsAfter(line, k) : s \in Int /\ s > k
      BY <1>1, <3>1 DEF SeparatorsAfter
    <3>. QED BY <2>1, <3>1, <3>2 DEF Covers
  <2>2. 1..j \subseteq DOMAIN line
    BY <1>1, <1>2
  <2>. QED BY <2>1, <2>2 DEF Kept
<1>5. j <= Corte(line)
  <2>1. Kept(line) \subseteq 1..Len(line) /\ IsFiniteSet(1..Len(line))
    BY <1>1, FS_Interval DEF Kept
  <2>2. IsFiniteSet(Kept(line))
    BY <2>1, FS_Subset
  <2>3. j \in Nat /\ j >= 1
    BY <1>2
  <2>4. IsFiniteSet(1..j) /\ Cardinality(1..j) = j
    BY <2>3, FS_Interval
  <2>. QED BY <1>4, <2>2, <2>4, FS_Subset DEF Corte
<1>6. Len(line) \notin Kept(line)
  <2>1. line[j] # NewLine /\ j \in 1..Len(line)
    BY <1>2 DEF Keys, Secretas, NewLine
  <2>2. j < Len(line)
    BY <1>1, <2>1
  <2>3. CASE SeparatorsAfter(line, j) = {}
    BY <1>1, <2>2, <2>3 DEF Covers, Kept
  <2>4. CASE SeparatorsAfter(line, j) # {}
    <3>1. PICK s \in SeparatorsAfter(line, j) : TRUE
      BY <2>4
    <3>2. s \in (j + 1)..Len(line) /\ line[s] # NewLine
      BY DEF SeparatorsAfter, Separators, NewLine
    <3>3. Len(line) \in (s + 1)..Len(line) /\ line[Len(line)] # Space
      BY <1>1, <3>2, <2>1 DEF NewLine, Space
    <3>. QED BY <3>1, <3>3 DEF Covers, Kept
  <2>. QED BY <2>3, <2>4
<1>7. Corte(line) # Len(line)
  BY <1>1, <1>6, KeptIsPrefix
<1>8. Corte(line) \in 0..Len(line)
  BY <1>1, KeptIsPrefix
<1>9. j \in Nat /\ j >= 1
  BY <1>2
<1>. QED BY <1>1, <1>3, <1>5, <1>7, <1>8, <1>9

LEMMA TwoTokens ==
    ASSUME NEW T, NEW a \in T, NEW b \in T
    PROVE  <<a>> \o <<b>> = <<a, b>>
<1>1. <<a>> \in Seq(T) /\ Len(<<a>>) = 1 /\ <<b>> \in Seq(T) /\ Len(<<b>>) = 1
  OBVIOUS
<1>2. /\ <<a>> \o <<b>> \in Seq(T) /\ Len(<<a>> \o <<b>>) = 2
      /\ (<<a>> \o <<b>>)[1] = a /\ (<<a>> \o <<b>>)[2] = b
  BY <1>1
<1>3. <<a, b>> \in Seq(T) /\ Len(<<a, b>>) = 2
  OBVIOUS
<1>4. \A i \in 1..2 : (<<a>> \o <<b>>)[i] = <<a, b>>[i]
  BY <1>2
<1>. QED BY <1>2, <1>3, <1>4, SeqEqual

(* A line that is redacted stays a line, and stays what it was or tells    *)
(* that a value was there.                                                 *)
LEMMA LineSurvives ==
    ASSUME NEW line, IsLine(line), Ended(line)
    PROVE  /\ IsLine(RedactLine(line)) /\ Ended(RedactLine(line))
           /\ Survives(line, RedactLine(line))
<1>1. /\ line \in Seq(Token) /\ Len(line) \in Nat \ {0} /\ line \in Text
      /\ line[Len(line)] = NewLine /\ line # <<>>
      /\ \A i \in 1..(Len(line) - 1) : line[i] # NewLine
  BY DEF IsLine, Ended, Text
<1>2. CASE Keys(line) = {}
  BY <1>2 DEF RedactLine, Survives
<1>3. CASE Keys(line) # {}
  <2>. DEFINE n == Corte(line)
              head == SubSeq(line, 1, n)
              tail == <<Tapado, NewLine>>
              short == head \o tail
  <2>1. n \in 1..(Len(line) - 1) /\ \E j \in Keys(line) : j <= n
    BY <1>3, CutPlace
  <2>. HIDE DEF n
  <2>2. head \in Seq(Token) /\ Len(head) = n /\ \A i \in 1..n : head[i] = line[i]
    BY <1>1, <2>1
  <2>3. /\ tail \in Seq(Token) /\ Len(tail) = 2 /\ tail[1] = Tapado /\ tail[2] = NewLine
        /\ <<Tapado>> \in Seq(Token) /\ <<NewLine>> \in Seq(Token)
        /\ <<Tapado>> \o <<NewLine>> = tail
    <3>1. Tapado \in Token /\ NewLine \in Token
      BY DEF Token
    <3>2. tail \in Seq(Token) /\ Len(tail) = 2 /\ tail[1] = Tapado /\ tail[2] = NewLine
      BY <3>1
    <3>3. <<Tapado>> \in Seq(Token) /\ <<NewLine>> \in Seq(Token)
      BY <3>1
    <3>4. <<Tapado>> \o <<NewLine>> = tail
      BY <3>1, TwoTokens
    <3>. QED BY <3>2, <3>3, <3>4
  <2>. HIDE DEF head, tail
  <2>4. RedactLine(line) = short
    <3>1. Ending(line) = <<NewLine>>
      BY <1>1 DEF Ending
    <3>2. RedactLine(line) = (head \o <<Tapado>>) \o <<NewLine>>
      BY <1>3, <3>1 DEF RedactLine, head, n
    <3>3. (head \o <<Tapado>>) \o <<NewLine>> = head \o (<<Tapado>> \o <<NewLine>>)
      BY <2>2, <2>3, ConcatAssociative
    <3>. QED BY <2>3, <3>2, <3>3
  <2>5. /\ short \in Seq(Token) /\ Len(short) = n + 2
        /\ \A i \in 1..(n + 2) : short[i] = IF i <= n THEN head[i] ELSE tail[i - n]
    <3>1. Len(head) + Len(tail) = n + 2
      BY <2>1, <2>2, <2>3
    <3>2. /\ short \in Seq(Token) /\ Len(short) = Len(head) + Len(tail)
          /\ \A i \in 1..(Len(head) + Len(tail)) :
                short[i] = IF i <= Len(head) THEN head[i] ELSE tail[i - Len(head)]
      BY <2>2, <2>3, ConcatProperties, ZenonT(30)
    <3>3. Len(head) = n
      BY <2>2
    <3>. HIDE DEF short
    <3>. QED BY <3>1, <3>2, <3>3
  <2>. HIDE DEF short
  <2>6. IsLine(short)
    <3>1. short \in Text /\ short # <<>>
      BY <2>1, <2>5 DEF Text
    <3>2. ASSUME NEW i \in 1..(Len(short) - 1) PROVE short[i] # NewLine
      <4>1. CASE i <= n
        BY <1>1, <2>1, <2>2, <2>5, <4>1
      <4>2. CASE i = n + 1
        BY <2>1, <2>3, <2>5, <4>2 DEF Tapado, NewLine
      <4>. QED BY <2>1, <2>5, <4>1, <4>2
    <3>. QED BY <3>1, <3>2 DEF IsLine
  <2>7. Ended(short)
    <3>1. short[n + 2] = tail[2]
      BY <2>1, <2>5
    <3>. QED BY <2>3, <2>5, <3>1 DEF Ended
  <2>8. Survives(line, short)
    <3>1. n \in 1..Len(line)
      BY <1>1, <2>1
    <3>. QED BY <1>3, <2>1, <3>1 DEF Survives, short, head, tail
  <2>. QED BY <2>4, <2>6, <2>7, <2>8
<1>. QED BY <1>2, <1>3

-----------------------------------------------------------------------------
(***************************************************************************)
(* What a text tells of its values.                                        *)
(***************************************************************************)
TellsLine(line) == \A i \in DOMAIN line : line[i] = Secret => Announced(line, i)

LEMMA TextAssociative ==
    ASSUME NEW a \in Text, NEW b \in Text, NEW c \in Text
    PROVE  (a \o b) \o c = a \o (b \o c)
BY ConcatAssociative DEF Text

LEMMA EndedConcat ==
    ASSUME NEW a \in Text, NEW b \in Text, b # <<>>
    PROVE  /\ a \o b \in Text /\ a \o b # <<>>
           /\ (a \o b)[Len(a \o b)] = b[Len(b)]
<1>1. /\ a \o b \in Seq(Token) /\ Len(a \o b) = Len(a) + Len(b)
      /\ \A i \in 1..(Len(a) + Len(b)) :
            (a \o b)[i] = IF i <= Len(a) THEN a[i] ELSE b[i - Len(a)]
  BY ConcatProperties DEF Text
<1>2. Len(a) \in Nat /\ Len(b) \in Nat \ {0}
  BY DEF Text
<1>. QED BY <1>1, <1>2 DEF Text

LEMMA EndedBoth ==
    ASSUME NEW a \in Text, NEW b \in Text, Ended(a), Ended(b)
    PROVE  Ended(a \o b)
<1>1. CASE b = <<>>
  <2>1. a \o b = a
    BY <1>1, ConcatEmptySeq DEF Text
  <2>. QED BY <2>1
<1>2. CASE b # <<>>
  BY <1>2, EndedConcat DEF Ended
<1>. QED BY <1>1, <1>2

LEMMA TellsAppend ==
    ASSUME NEW t \in Text, Ended(t), NEW r, IsLine(r)
    PROVE  Tells(t \o r) <=> Tells(t) /\ TellsLine(r)
<1>. DEFINE ls == Lines(t)
            n == Len(ls)
            more == Append(ls, r)
<1>1. Lines(t \o r) = more
  BY LinesAppend
<1>2. ls \in Seq(Text) /\ n \in Nat /\ DOMAIN ls = 1..n /\ r \in Text
  BY LinesType, LenProperties DEF IsLine
<1>3. /\ DOMAIN more = 1..(n + 1) /\ more[n + 1] = r
      /\ \A k \in 1..n : more[k] = ls[k]
  <2>. HIDE DEF ls
  <2>1. more \in Seq(Text) /\ Len(more) = n + 1
    BY <1>2, AppendProperties
  <2>2. DOMAIN more = 1..Len(more)
    <3>. HIDE DEF more
    <3>. QED BY <2>1, LenProperties
  <2>. QED BY <1>2, <2>1, <2>2, AppendProperties
<1>4. Tells(t \o r) <=> \A k \in 1..(n + 1) : TellsLine(more[k])
  <2>. HIDE DEF more
  <2>. QED BY <1>1, <1>3 DEF Tells, TellsLine
<1>5. Tells(t) <=> \A k \in 1..n : TellsLine(ls[k])
  BY <1>2 DEF Tells, TellsLine
<1>. HIDE DEF more, ls
<1>6. \A k \in 1..(n + 1) : k \in 1..n \/ k = n + 1
  BY <1>2
<1>7. 1..n \subseteq 1..(n + 1) /\ n + 1 \in 1..(n + 1)
  BY <1>2
<1>. QED BY <1>3, <1>4, <1>5, <1>6, <1>7

LEMMA TellsNothing == Tells(<<>>)
BY NoLines DEF Tells

LEMMA TellsConcat ==
    ASSUME NEW t \in Text, Ended(t), Tells(t), NEW u \in Text, Tells(u)
    PROVE  Tells(t \o u)
<1>. DEFINE A == {a \in Text : Tells(a) => Tells(t \o a)}
<1>1. <<>> \in A
  <2>1. t \o <<>> = t /\ <<>> \in Text
    BY ConcatEmptySeq DEF Text
  <2>. QED BY <2>1
<1>2. ASSUME NEW a \in A, NEW r \in Text, Ended(a), IsLine(r) PROVE a \o r \in A
  <2>1. a \in Text /\ a \o r \in Text /\ t \o a \in Text /\ Ended(t \o a)
    BY <1>2, EndedBoth, ConcatProperties DEF Text
  <2>2. t \o (a \o r) = (t \o a) \o r
    BY <2>1, TextAssociative, SMTT(30)
  <2>3. ASSUME Tells(a \o r) PROVE Tells(t \o (a \o r))
    <3>1. Tells(a) /\ TellsLine(r)
      BY <1>2, <2>1, <2>3, TellsAppend
    <3>2. Tells(t \o a)
      BY <3>1
    <3>. QED BY <1>2, <2>1, <2>2, <3>1, <3>2, TellsAppend
  <2>. QED BY <2>1, <2>3
<1>3. A = Text
  <2>. HIDE DEF A
  <2>. QED BY <1>1, <1>2, TextInduction DEF A
<1>. QED BY <1>3

LEMMA TellsOneLine ==
    ASSUME NEW r, IsLine(r), TellsLine(r)
    PROVE  Tells(r)
<1>1. <<>> \o r = r /\ <<>> \in Text
  BY ConcatEmptySeq DEF IsLine, Text
<1>2. Ended(<<>>)
  BY DEF Ended
<1>. QED BY <1>1, <1>2, TellsNothing, TellsAppend

(* The newline that ends an event announces nothing, and takes nothing back. *)
LEMMA TellsEnded ==
    ASSUME NEW t \in Text, Tells(t)
    PROVE  /\ t \o <<NewLine>> \in Text /\ t \o <<NewLine>> # <<>>
           /\ Ended(t \o <<NewLine>>) /\ Tells(t \o <<NewLine>>)
<1>. DEFINE nl == <<NewLine>>
<1>1. nl \in Text /\ nl # <<>> /\ Len(nl) = 1 /\ nl[1] = NewLine
  <2>1. NewLine \in Token
    BY DEF Token
  <2>. QED BY <2>1 DEF Text
<1>. HIDE DEF nl
<1>2. IsLine(nl) /\ TellsLine(nl)
  <2>1. IsLine(nl)
    BY <1>1 DEF IsLine
  <2>2. DOMAIN nl = 1..1
    BY <1>1 DEF Text
  <2>3. TellsLine(nl)
    BY <1>1, <2>2 DEF TellsLine, NewLine, Secret
  <2>. QED BY <2>1, <2>3
<1>3. t \o nl \in Text /\ t \o nl # <<>> /\ Ended(t \o nl)
  BY <1>1, EndedConcat DEF Ended
<1>4. CASE Ended(t)
  BY <1>2, <1>3, <1>4, TellsAppend DEF nl
<1>5. CASE ~ Ended(t)
  <2>1. t # <<>> /\ t[Len(t)] # NewLine
    BY <1>5 DEF Ended
  <2>2. PICK a \in Text, r \in Text :
            t = a \o r /\ Ended(a) /\ IsLine(r) /\ Len(a) < Len(t)
    BY <2>1, LastLine
  <2>3. Tells(a) /\ TellsLine(r)
    BY <2>2, TellsAppend
  <2>4. r # <<>> /\ r[Len(r)] # NewLine
    BY <2>1, <2>2, EndedConcat DEF IsLine
  <2>. DEFINE line == r \o nl
              m == Len(r)
  <2>5. /\ line \in Text /\ Len(line) = m + 1 /\ m \in Nat \ {0}
        /\ \A i \in 1..m : line[i] = r[i]
        /\ line[m + 1] = NewLine
        /\ DOMAIN line = 1..(m + 1) /\ DOMAIN r = 1..m
    <3>1. m \in Nat \ {0} /\ r \in Seq(Token) /\ nl \in Seq(Token)
      BY <1>1, <2>4 DEF Text
    <3>2. /\ line \in Seq(Token) /\ Len(line) = m + 1
          /\ \A i \in 1..(m + 1) : line[i] = IF i <= m THEN r[i] ELSE nl[i - m]
      BY <1>1, <3>1, ConcatProperties
    <3>. HIDE DEF line
    <3>. QED BY <1>1, <3>1, <3>2, LenProperties DEF Text
  <2>. HIDE DEF line
  <2>6. IsLine(line)
    <3>1. ASSUME NEW i \in 1..m PROVE line[i] # NewLine
      BY <2>2, <2>4, <2>5, <3>1 DEF IsLine
    <3>2. line # <<>>
      BY <2>5 DEF Text
    <3>. QED BY <2>5, <3>1, <3>2 DEF IsLine
  <2>7. TellsLine(line)
    <3>1. ASSUME NEW i \in 1..(m + 1), line[i] = Secret PROVE Announced(line, i)
      <4>1. i # m + 1
        BY <2>5, <3>1 DEF NewLine, Secret
      <4>2. i \in 1..m /\ r[i] = Secret
        BY <2>5, <3>1, <4>1
      <4>3. Announced(r, i)
        BY <2>3, <2>5, <4>2 DEF TellsLine
      <4>4. PICK j \in Keys(r) :
                /\ j < i
                /\ \/ \E s \in (j + 1)..(i - 1) : r[s] \in Separators
                   \/ \A s \in (j + 1)..m : r[s] \notin Separators
        BY <4>3 DEF Announced
      <4>5. j \in 1..m /\ j \in Keys(line)
        BY <2>5 DEF Keys
      <4>6. CASE \E s \in (j + 1)..(i - 1) : r[s] \in Separators
        <5>1. \E s \in (j + 1)..(i - 1) : line[s] \in Separators
          BY <2>5, <4>2, <4>5, <4>6
        <5>. QED BY <4>4, <4>5, <5>1 DEF Announced
      <4>7. CASE \A s \in (j + 1)..m : r[s] \notin Separators
        <5>1. ASSUME NEW s \in (j + 1)..(m + 1) PROVE line[s] \notin Separators
          <6>1. CASE s = m + 1
            BY <2>5, <6>1 DEF NewLine, Separators
          <6>2. CASE s # m + 1
            BY <2>5, <4>5, <4>7, <6>2
          <6>. QED BY <6>1, <6>2
        <5>. QED BY <2>5, <4>4, <4>5, <5>1 DEF Announced
      <4>. QED BY <4>4, <4>6, <4>7
    <3>. QED BY <2>5, <3>1 DEF TellsLine
  <2>8. t \o nl = a \o line
    BY <1>1, <2>2, ConcatAssociative DEF Text, line
  <2>. QED BY <1>3, <2>2, <2>3, <2>6, <2>7, <2>8, TellsAppend DEF nl
<1>. QED BY <1>3, <1>4, <1>5 DEF nl

-----------------------------------------------------------------------------
(***************************************************************************)
(* What a redacted text shows of its values, and of its lines.             *)
(***************************************************************************)
Clean(t) == \A i \in DOMAIN t : t[i] # Secret

LEMMA CleanConcat ==
    ASSUME NEW a \in Text, NEW b \in Text, Clean(a), Clean(b)
    PROVE  a \o b \in Text /\ Clean(a \o b)
<1>1. /\ a \o b \in Seq(Token) /\ Len(a \o b) = Len(a) + Len(b)
      /\ \A i \in 1..(Len(a) + Len(b)) :
            (a \o b)[i] = IF i <= Len(a) THEN a[i] ELSE b[i - Len(a)]
  BY ConcatProperties DEF Text
<1>2. /\ Len(a) \in Nat /\ Len(b) \in Nat
      /\ DOMAIN a = 1..Len(a) /\ DOMAIN b = 1..Len(b)
      /\ DOMAIN (a \o b) = 1..(Len(a) + Len(b))
  BY <1>1, LenProperties DEF Text
<1>. QED BY <1>1, <1>2 DEF Clean, Text

LEMMA CleanPrefix ==
    ASSUME NEW t \in Text, Clean(t), NEW n \in 0..Len(t)
    PROVE  SubSeq(t, 1, n) \in Text /\ Clean(SubSeq(t, 1, n))
<1>1. \A i \in 1..n : t[i] \in Token /\ t[i] # Secret
  BY DEF Clean, Text
<1>2. /\ SubSeq(t, 1, n) \in Seq(Token) /\ Len(SubSeq(t, 1, n)) = n
      /\ \A i \in 1..n : SubSeq(t, 1, n)[i] = t[i]
  <2>1. n \in Nat /\ t \in Seq(Token)
    BY DEF Text
  <2>. QED BY <1>1, <2>1
<1>3. DOMAIN SubSeq(t, 1, n) = 1..n
  BY <1>2, LenProperties
<1>. QED BY <1>1, <1>2, <1>3 DEF Clean, Text

(* Nothing that announces its values keeps one, whatever its lines. *)
LEMMA RedactedClean ==
    ASSUME NEW t \in Text, Tells(t)
    PROVE  Clean(Redacted(t))
<1>. DEFINE A == {a \in Text : Tells(a) => Clean(Redacted(a))}
<1>1. <<>> \in A
  BY RedactedEmpty DEF Clean, Text
<1>2. ASSUME NEW a \in A, NEW r \in Text, Ended(a), IsLine(r) PROVE a \o r \in A
  <2>1. a \in Text /\ a \o r \in Text
    BY ConcatProperties DEF Text
  <2>2. ASSUME Tells(a \o r) PROVE Clean(Redacted(a \o r))
    <3>1. Tells(a) /\ TellsLine(r)
      BY <1>2, <2>1, <2>2, TellsAppend
    <3>2. Clean(RedactLine(r))
      BY <3>1, AnnouncedValuesGo DEF Clean, TellsLine, Text
    <3>3. Redacted(a) \in Text /\ RedactLine(r) \in Text /\ Clean(Redacted(a))
      BY <2>1, <3>1, RedactedType, RedactLineType
    <3>. QED BY <1>2, <2>1, <3>2, <3>3, CleanConcat, RedactedAppend
  <2>. QED BY <2>1, <2>2
<1>3. A = Text
  <2>. HIDE DEF A
  <2>. QED BY <1>1, <1>2, TextInduction DEF A
<1>. QED BY <1>3

(* What is written tells, line for line, of what was logged. *)
Match(logged, written) ==
    /\ Ended(logged) /\ Ended(written)
    /\ Len(Lines(written)) = Len(Lines(logged))
    /\ \A k \in DOMAIN Lines(logged) : Survives(Lines(logged)[k], Lines(written)[k])

LEMMA MatchLine ==
    ASSUME NEW d \in Text, NEW f \in Text, Match(d, f), NEW r, IsLine(r), Ended(r)
    PROVE  Match(d \o r, f \o RedactLine(r))
<1>. DEFINE ds == Lines(d)
            fs == Lines(f)
            w == RedactLine(r)
            n == Len(ds)
<1>1. /\ IsLine(w) /\ Ended(w) /\ Survives(r, w) /\ r \in Text /\ w \in Text
  BY LineSurvives DEF IsLine
<1>. HIDE DEF w
<1>2. Lines(d \o r) = Append(ds, r) /\ Lines(f \o w) = Append(fs, w)
  BY <1>1, LinesAppend DEF Match
<1>3. Ended(d \o r) /\ Ended(f \o w)
  BY <1>1, EndedBoth DEF Match
<1>4. /\ ds \in Seq(Text) /\ fs \in Seq(Text) /\ n \in Nat /\ Len(fs) = n
      /\ DOMAIN ds = 1..n
  BY LinesType, LenProperties DEF Match
<1>5. \A k \in 1..n : Survives(ds[k], fs[k])
  BY <1>4 DEF Match
<1>. HIDE DEF ds, fs
<1>6. /\ Append(ds, r) \in Seq(Text) /\ Len(Append(ds, r)) = n + 1
      /\ DOMAIN Append(ds, r) = 1..(n + 1)
      /\ \A k \in 1..n : Append(ds, r)[k] = ds[k]
      /\ Append(ds, r)[n + 1] = r
  <2>1. Append(ds, r) \in Seq(Text) /\ Len(Append(ds, r)) = n + 1
    BY <1>1, <1>4, AppendProperties
  <2>. QED BY <1>1, <1>4, <2>1, AppendProperties, LenProperties
<1>7. /\ Len(Append(fs, w)) = n + 1
      /\ \A k \in 1..n : Append(fs, w)[k] = fs[k]
      /\ Append(fs, w)[n + 1] = w
  BY <1>1, <1>4, AppendProperties
<1>8. ASSUME NEW k \in 1..(n + 1)
      PROVE  Survives(Append(ds, r)[k], Append(fs, w)[k])
  <2>1. CASE k = n + 1
    BY <1>1, <1>6, <1>7, <2>1
  <2>2. CASE k # n + 1
    <3>1. k \in 1..n
      BY <1>4, <2>2
    <3>. QED BY <1>5, <1>6, <1>7, <3>1
  <2>. QED BY <2>1, <2>2
<1>. QED BY <1>2, <1>3, <1>6, <1>7, <1>8 DEF Match, w

LEMMA MatchText ==
    ASSUME NEW d \in Text, NEW f \in Text, Match(d, f), NEW t \in Text, Ended(t)
    PROVE  Match(d \o t, f \o Redacted(t))
<1>. DEFINE A == {a \in Text : Ended(a) => Match(d \o a, f \o Redacted(a))}
<1>1. <<>> \in A
  <2>1. d \o <<>> = d /\ f \o Redacted(<<>>) = f /\ <<>> \in Text
    BY RedactedEmpty, ConcatEmptySeq DEF Text
  <2>. QED BY <2>1
<1>2. ASSUME NEW a \in Text, a \in A, NEW r \in Text, Ended(a), IsLine(r)
      PROVE  a \o r \in A
  <2>1. a \in Text /\ a \o r \in Text /\ d \o a \in Text
    BY ConcatProperties DEF Text
  <2>2. /\ Redacted(a) \in Text /\ RedactLine(r) \in Text
        /\ f \o Redacted(a) \in Text
    BY <2>1, RedactedType, RedactLineType, ConcatProperties DEF Text
  <2>3. ASSUME Ended(a \o r) PROVE Match(d \o (a \o r), f \o Redacted(a \o r))
    <3>1. Ended(r)
      BY <1>2, <2>1, <2>3, EndedConcat DEF Ended, IsLine
    <3>2. Match(d \o a, f \o Redacted(a))
      BY <1>2
    <3>3. Match((d \o a) \o r, (f \o Redacted(a)) \o RedactLine(r))
      BY <1>2, <2>1, <2>2, <3>1, <3>2, MatchLine
    <3>4. d \o (a \o r) = (d \o a) \o r
      BY TextAssociative, SMTT(30)
    <3>5. f \o (Redacted(a) \o RedactLine(r)) = (f \o Redacted(a)) \o RedactLine(r)
      BY RedactedType, RedactLineType, TextAssociative, SMTT(30)
    <3>6. Redacted(a \o r) = Redacted(a) \o RedactLine(r)
      BY <1>2, <2>1, RedactedAppend
    <3>. QED BY <3>3, <3>4, <3>5, <3>6
  <2>. QED BY <2>1, <2>3
<1>3. A = Text
  <2>. HIDE DEF A
  <2>. QED BY <1>1, <1>2, TextInduction DEF A
<1>. QED BY <1>3

-----------------------------------------------------------------------------
(***************************************************************************)
(* What is logged: EasyTier's dump of a configuration, and any message.    *)
(***************************************************************************)
LEMMA FieldTells ==
    ASSUME NEW key \in Secretas
    PROVE  IsLine(Field(key)) /\ Ended(Field(key)) /\ TellsLine(Field(key))
<1>1. /\ key \in Token /\ Space \in Token /\ "=" \in Token /\ Secret \in Token
      /\ NewLine \in Token
  BY DEF Token, Separators
<1>. DEFINE field == Field(key)
<1>2. /\ field \in Seq(Token) /\ Len(field) = 7 /\ DOMAIN field = 1..7
      /\ field[1] = key /\ field[2] = Space /\ field[3] = "=" /\ field[4] = Space
      /\ field[5] = Secret /\ field[6] = "=" /\ field[7] = NewLine
  BY <1>1 DEF Field
<1>. HIDE DEF field
<1>3. key # NewLine /\ Space # NewLine /\ "=" # NewLine /\ Secret # NewLine
  BY DEF Secretas, Space, Secret, NewLine
<1>4. key # Secret /\ Space # Secret /\ "=" # Secret /\ Secret # NewLine
  BY DEF Secretas, Space, Secret, NewLine
<1>5. \A i \in 1..7 : i = 1 \/ i = 2 \/ i = 3 \/ i = 4 \/ i = 5 \/ i = 6 \/ i = 7
  OBVIOUS
<1>6. IsLine(field)
  <2>1. field # <<>>
    BY <1>2
  <2>2. ASSUME NEW i \in 1..6 PROVE field[i] # NewLine
    <3>1. i = 1 \/ i = 2 \/ i = 3 \/ i = 4 \/ i = 5 \/ i = 6
      OBVIOUS
    <3>. QED BY <1>2, <1>3, <3>1
  <2>. QED BY <1>2, <2>1, <2>2 DEF IsLine, Text
<1>7. Ended(field)
  BY <1>2 DEF Ended
<1>8. Announced(field, 5)
  <2>1. 1 \in Keys(field)
    BY <1>2 DEF Keys
  <2>2. 3 \in (1 + 1)..(5 - 1) /\ field[3] \in Separators
    BY <1>2 DEF Separators
  <2>. QED BY <2>1, <2>2 DEF Announced
<1>9. \A i \in 1..7 : field[i] = Secret => i = 5
  BY <1>2, <1>4, <1>5
<1>. QED BY <1>2, <1>6, <1>7, <1>8, <1>9 DEF TellsLine, field

LEMMA DumpTells ==
    ASSUME NEW node
    PROVE  Dump(node) \in Text /\ Tells(Dump(node))
<1>. DEFINE first == <<Word, NewLine>>
            named == IF node.secret = NoSecret THEN <<>> ELSE Field("network_secret")
            key == Field("local_private_key")
<1>1. first \in Text /\ Ended(first) /\ Tells(first)
  <2>1. Word \in Token /\ NewLine \in Token
    BY DEF Token
  <2>2. first \in Text /\ Len(first) = 2 /\ first[1] = Word /\ first[2] = NewLine
        /\ DOMAIN first = 1..2 /\ first # <<>>
    BY <2>1 DEF Text
  <2>. HIDE DEF first
  <2>3. \A i \in 1..2 : first[i] # Secret
    BY <2>2 DEF Word, NewLine, Secret
  <2>4. IsLine(first) /\ TellsLine(first)
    BY <2>2, <2>3 DEF IsLine, TellsLine, Word, NewLine
  <2>. QED BY <2>2, <2>4, TellsOneLine DEF Ended
<1>2. named \in Text /\ Ended(named) /\ Tells(named)
  <2>1. <<>> \in Text /\ Ended(<<>>) /\ Tells(<<>>)
    BY TellsNothing DEF Ended, Text
  <2>2. LET field == Field("network_secret")
        IN  field \in Text /\ Ended(field) /\ Tells(field)
    BY FieldTells, TellsOneLine DEF Secretas, IsLine
  <2>. QED BY <2>1, <2>2
<1>3. key \in Text /\ Ended(key) /\ Tells(key)
  BY FieldTells, TellsOneLine DEF Secretas, IsLine
<1>. HIDE DEF first, named, key
<1>4. first \o named \in Text /\ Ended(first \o named) /\ Tells(first \o named)
  BY <1>1, <1>2, EndedBoth, TellsConcat, ConcatProperties DEF Text
<1>5. (first \o named) \o key \in Text /\ Tells((first \o named) \o key)
  BY <1>3, <1>4, TellsConcat, ConcatProperties DEF Text
<1>6. Dump(node) = (first \o named) \o key
  BY DEF Dump, first, named, key
<1>. QED BY <1>5, <1>6

-----------------------------------------------------------------------------
(***************************************************************************)
(* The log.  What is left to write is whole lines that announce their      *)
(* values; and until a write fails, what was logged before it is in the    *)
(* file line for line.                                                     *)
(***************************************************************************)
LogInv ==
    /\ LogTypeOK
    /\ Ended(pending) /\ Tells(pending)
    /\ Clean(file) /\ Clean(stderr)
    /\ ~faulted => \E done \in Text : emitted = done \o pending /\ Match(done, file)

LEMMA LogInitInv == LogInit => LogInv
<1>. SUFFICES ASSUME LogInit PROVE LogInv
  OBVIOUS
<1>1. /\ pending = <<>> /\ file = <<>> /\ stderr = <<>> /\ emitted = <<>>
      /\ defaults = {} /\ proc = "none" /\ once = "never" /\ nodes = {}
      /\ events = 0 /\ faulted = FALSE
  BY DEF LogInit
<1>2. <<>> \in Text /\ Ended(<<>>) /\ Clean(<<>>)
  BY DEF Text, Ended, Clean
<1>3. LogTypeOK
  <2>1. 0 \in 0..MaxEvents
    BY EventsAssumption
  <2>2. {pending, file, stderr, emitted} \subseteq Text
    BY <1>1, <1>2
  <2>3. \A n \in nodes : n.on \subseteq Capabilities
    BY <1>1
  <2>. QED BY <1>1, <2>1, <2>2, <2>3 DEF LogTypeOK
<1>4. Match(<<>>, <<>>)
  BY <1>2, NoLines DEF Match
<1>5. <<>> \o <<>> = <<>>
  BY ConcatEmptySeq, EmptySeq
<1>. QED BY <1>1, <1>2, <1>3, <1>4, <1>5, TellsNothing DEF LogInv

(* What a builder turns on, EasyTier has. *)
LEMMA BuiltType ==
    ASSUME NEW cmd \in {"host", "join_rendezvous", "join"}, NEW args,
           defaults \subseteq Capabilities, Built(cmd, args) # Refused
    PROVE  Built(cmd, args).on \subseteq Capabilities
<1>. DEFINE stated == (Base(defaults) \ OffInEach) \cup {"secure_mode"}
            node == Built(cmd, args)
<1>1. stated \subseteq Capabilities
  BY DEF Base, Flags, Capabilities, Required, OnByFlag
<1>2. node \in {Host(args, defaults, Secret), Rendezvous(args, defaults, Secret),
                Guest(args, defaults)}
  BY DEF Built
<1>. HIDE DEF node
<1>3. node # Refused => node.on = stated
  BY <1>2 DEF Host, Rendezvous, Guest, Node
<1>. QED BY <1>1, <1>3 DEF node

(* An event is handed over when nothing waits, and it tells. *)
LEMMA LogsInv ==
    ASSUME LogInv, pending = <<>>, NEW t \in Text, Tells(t), Logs(t),
           LogTypeOK', Clean(stderr'), UNCHANGED <<file, faulted>>
    PROVE  LogInv'
<1>. DEFINE event == t \o <<NewLine>>
<1>1. event \in Text /\ Ended(event) /\ Tells(event)
  BY TellsEnded
<1>2. pending' = event /\ emitted' = emitted \o event
  BY DEF Logs
<1>. HIDE DEF event
<1>3. ASSUME ~ faulted
      PROVE  \E done \in Text : emitted' = done \o pending' /\ Match(done, file)
  <2>1. PICK done \in Text : emitted = done \o pending /\ Match(done, file)
    BY <1>3 DEF LogInv
  <2>2. emitted = done
    BY <2>1, ConcatEmptySeq DEF Text
  <2>. QED BY <1>2, <2>1, <2>2
<1>. QED BY <1>1, <1>2, <1>3 DEF LogInv

LEMMA NothingLogged ==
    ASSUME LogInv, LogTypeOK', Clean(stderr'), UNCHANGED <<pending, emitted, file, faulted>>
    PROVE  LogInv'
BY DEF LogInv

(* A line of fixed text, which stderr may have got. *)
LEMMA FixedText == <<Word, NewLine>> \in Text /\ Clean(<<Word, NewLine>>)
<1>1. Word \in Token /\ NewLine \in Token
  BY DEF Token
<1>2. /\ <<Word, NewLine>> \in Seq(Token) /\ DOMAIN <<Word, NewLine>> = 1..2
      /\ <<Word, NewLine>>[1] = Word /\ <<Word, NewLine>>[2] = NewLine
  BY <1>1
<1>3. \A i \in 1..2 : <<Word, NewLine>>[i] # Secret
  BY <1>2 DEF Word, NewLine, Secret
<1>. QED BY <1>2, <1>3 DEF Clean, Text

LEMMA FixedLine ==
    ASSUME LogInv, stderr' \in {stderr, stderr \o <<Word, NewLine>>}
    PROVE  stderr' \in Text /\ Clean(stderr')
<1>1. stderr \in Text /\ Clean(stderr)
  BY DEF LogInv, LogTypeOK
<1>. QED BY <1>1, FixedText, CleanConcat

LEMMA WritesInv == LogInv /\ Writes => LogInv'
<1>. SUFFICES ASSUME LogInv, Writes PROVE LogInv'
  OBVIOUS
<1>1. pending \in Text /\ file \in Text /\ Redacted(pending) \in Text
  BY RedactedType DEF LogInv, LogTypeOK
<1>2. /\ file' = file \o Redacted(pending)
      /\ UNCHANGED <<defaults, proc, once, nodes, stderr, events, emitted, faulted>>
  BY DEF Writes
<1>3. pending' = <<>>
  <2>1. pending' = SubSeq(pending, Len(pending) + 1, Len(pending))
    BY DEF Writes, Consumed
  <2>2. Len(pending) \in Nat
    BY <1>1 DEF Text
  <2>. QED BY <1>1, <2>1, <2>2 DEF Text
<1>4. file' \in Text /\ Clean(file')
  BY <1>1, <1>2, RedactedClean, CleanConcat DEF LogInv
<1>5. <<>> \in Text /\ Ended(<<>>)
  BY DEF Text, Ended
<1>6. LogTypeOK'
  BY <1>2, <1>3, <1>4, <1>5 DEF LogInv, LogTypeOK
<1>7. ASSUME ~ faulted
      PROVE  \E done \in Text : emitted = done \o <<>> /\ Match(done, file')
  <2>1. PICK done \in Text : emitted = done \o pending /\ Match(done, file)
    BY <1>7 DEF LogInv
  <2>2. Match(emitted, file')
    BY <1>1, <1>2, <2>1, MatchText DEF LogInv
  <2>3. emitted \in Text /\ emitted \o <<>> = emitted
    BY ConcatEmptySeq DEF LogInv, LogTypeOK, Text
  <2>. QED BY <2>2, <2>3
<1>. QED BY <1>2, <1>3, <1>4, <1>5, <1>6, <1>7, TellsNothing DEF LogInv

LEMMA WriteFailsInv == LogInv /\ WriteFails => LogInv'
<1>. SUFFICES ASSUME LogInv, WriteFails PROVE LogInv'
  OBVIOUS
<1>1. pending \in Text /\ file \in Text /\ Redacted(pending) \in Text
  BY RedactedType DEF LogInv, LogTypeOK
<1>2. /\ pending' = <<>> /\ faulted' = TRUE
      /\ UNCHANGED <<defaults, proc, once, nodes, stderr, events, emitted>>
  BY DEF WriteFails
<1>3. PICK n \in 0..(Len(Redacted(pending)) - 1) :
            file' = file \o SubSeq(Redacted(pending), 1, n)
  BY DEF WriteFails
<1>4. n \in 0..Len(Redacted(pending))
  <2>1. Len(Redacted(pending)) \in Nat
    BY <1>1 DEF Text
  <2>. QED BY <2>1
<1>5. file' \in Text /\ Clean(file')
  <2>1. Clean(Redacted(pending)) /\ Clean(file)
    BY <1>1, RedactedClean DEF LogInv
  <2>2. /\ SubSeq(Redacted(pending), 1, n) \in Text
        /\ Clean(SubSeq(Redacted(pending), 1, n))
    BY <1>1, <1>4, <2>1, CleanPrefix
  <2>. QED BY <1>1, <1>3, <2>1, <2>2, CleanConcat
<1>6. <<>> \in Text /\ Ended(<<>>)
  BY DEF Text, Ended
<1>7. LogTypeOK'
  BY <1>2, <1>5, <1>6 DEF LogInv, LogTypeOK
<1>. QED BY <1>2, <1>5, <1>6, <1>7, TellsNothing DEF LogInv

LEMMA LaunchesInv == LogInv /\ Launches => LogInv'
<1>. SUFFICES ASSUME LogInv, Launches PROVE LogInv'
  OBVIOUS
<1>1. /\ proc' = "running" /\ stderr' = <<Word, NewLine>>
      /\ defaults' \in UpstreamDefaults
      /\ UNCHANGED <<once, nodes, pending, file, events, emitted, faulted>>
  BY DEF Launches
<1>2. stderr' \in Text /\ Clean(stderr')
  BY <1>1, FixedText
<1>3. defaults' \subseteq Capabilities
  BY <1>1, EventsAssumption
<1>4. LogTypeOK'
  BY <1>1, <1>2, <1>3 DEF LogInv, LogTypeOK
<1>. QED BY <1>1, <1>2, <1>4, NothingLogged

LEMMA StartsInv ==
    ASSUME LogInv, NEW cmd \in {"host", "join_rendezvous", "join"}, NEW args,
           NEW dir, Starts(cmd, args, dir)
    PROVE  LogInv'
<1>. DEFINE node == Built(cmd, args)
<1>1. /\ proc = "running" /\ pending = <<>>
      /\ events < MaxEvents /\ events' = events + 1
      /\ UNCHANGED <<defaults, proc, file, faulted>>
  BY DEF Starts, Busy
<1>2. /\ nodes' = nodes \cup ({node} \ {Refused})
      /\ Logs(Dump(node)) \/ UNCHANGED <<pending, emitted>>
  BY DEF Starts
<1>3. /\ once' \in {"never", "on", "failed"}
      /\ stderr' \in Text /\ Clean(stderr')
  <2>1. InitOnce(dir)
    BY DEF Starts
  <2>2. stderr' \in {stderr, stderr \o <<Word, NewLine>>}
    BY <2>1 DEF InitOnce
  <2>. QED BY <2>1, <2>2, FixedLine DEF InitOnce, LogInv, LogTypeOK
<1>4. Dump(node) \in Text /\ Tells(Dump(node))
  BY DumpTells
<1>5. \A n \in nodes' : n.on \subseteq Capabilities
  <2>1. node # Refused => node.on \subseteq Capabilities
    BY BuiltType DEF LogInv, LogTypeOK
  <2>. QED BY <1>2, <2>1 DEF LogInv, LogTypeOK
<1>6. pending' \in Text /\ emitted' \in Text
  <2>1. CASE Logs(Dump(node))
    <3>1. /\ pending' = Dump(node) \o <<NewLine>>
          /\ emitted' = emitted \o (Dump(node) \o <<NewLine>>)
      BY <2>1 DEF Logs
    <3>2. Dump(node) \o <<NewLine>> \in Text
      BY <1>4, TellsEnded
    <3>. QED BY <3>1, <3>2, ConcatProperties DEF LogInv, LogTypeOK, Text
  <2>2. CASE UNCHANGED <<pending, emitted>>
    BY <2>2 DEF LogInv, LogTypeOK
  <2>. QED BY <1>2, <2>1, <2>2
<1>7. events' \in 0..MaxEvents
  BY <1>1, EventsAssumption DEF LogInv, LogTypeOK
<1>8. LogTypeOK'
  BY <1>1, <1>3, <1>5, <1>6, <1>7 DEF LogInv, LogTypeOK
<1>9. CASE Logs(Dump(node))
  BY <1>1, <1>3, <1>4, <1>8, <1>9, LogsInv
<1>10. CASE UNCHANGED <<pending, emitted>>
  BY <1>1, <1>3, <1>8, <1>10, NothingLogged
<1>. QED BY <1>2, <1>9, <1>10

LEMMA EmitsInv ==
    ASSUME LogInv, NEW m \in Messages, Emits(m)
    PROVE  LogInv'
<1>1. /\ pending = <<>> /\ events < MaxEvents /\ events' = events + 1 /\ Logs(m)
      /\ UNCHANGED <<defaults, proc, once, nodes, file, stderr, faulted>>
  BY DEF Emits, Busy
<1>2. m \in Text /\ Tells(m)
  BY MessagesAssumption
<1>3. pending' \in Text /\ emitted' \in Text
  <2>1. m \o <<NewLine>> \in Text
    BY <1>2, TellsEnded
  <2>. QED BY <1>1, <2>1, ConcatProperties DEF Logs, LogInv, LogTypeOK, Text
<1>4. events' \in 0..MaxEvents
  BY <1>1, EventsAssumption DEF LogInv, LogTypeOK
<1>5. LogTypeOK'
  BY <1>1, <1>3, <1>4 DEF LogInv, LogTypeOK
<1>. QED BY <1>1, <1>2, <1>5, LogsInv DEF LogInv

LEMMA ComplainsInv == LogInv /\ Complains => LogInv'
<1>. SUFFICES ASSUME LogInv, Complains PROVE LogInv'
  OBVIOUS
<1>1. /\ events < MaxEvents /\ events' = events + 1
      /\ stderr' = stderr \o <<Word, NewLine>>
      /\ UNCHANGED <<defaults, proc, once, nodes, pending, file, emitted, faulted>>
  BY DEF Complains
<1>2. stderr' \in Text /\ Clean(stderr')
  BY <1>1, FixedLine
<1>3. events' \in 0..MaxEvents
  BY <1>1, EventsAssumption DEF LogInv, LogTypeOK
<1>4. LogTypeOK'
  BY <1>1, <1>2, <1>3 DEF LogInv, LogTypeOK
<1>. QED BY <1>1, <1>2, <1>4, NothingLogged

LEMMA PanicsInv ==
    ASSUME LogInv, NEW m \in Messages, Panics(m)
    PROVE  LogInv'
<1>1. /\ proc' \in {"running", "ended"} /\ events < MaxEvents /\ events' = events + 1
      /\ stderr' = stderr \o <<Word, Space>> \o Redacted(m) \o <<NewLine>>
      /\ UNCHANGED <<defaults, once, nodes, pending, file, emitted, faulted>>
  BY DEF Panics
<1>2. Redacted(m) \in Text /\ Clean(Redacted(m))
  BY MessagesAssumption, RedactedType, RedactedClean
<1>3. <<Word, Space>> \in Text /\ Clean(<<Word, Space>>)
  <2>1. Word \in Token /\ Space \in Token
    BY DEF Token
  <2>2. /\ <<Word, Space>> \in Seq(Token) /\ DOMAIN <<Word, Space>> = 1..2
        /\ <<Word, Space>>[1] = Word /\ <<Word, Space>>[2] = Space
    BY <2>1
  <2>3. Word # Secret /\ Space # Secret
    BY DEF Word, Space, Secret
  <2>. QED BY <2>2, <2>3 DEF Clean, Text
<1>4. <<NewLine>> \in Text /\ Clean(<<NewLine>>)
  <2>1. NewLine \in Token /\ NewLine # Secret
    BY DEF Token, NewLine, Secret
  <2>2. <<NewLine>> \in Seq(Token) /\ DOMAIN <<NewLine>> = 1..1 /\ <<NewLine>>[1] = NewLine
    BY <2>1
  <2>. QED BY <2>1, <2>2 DEF Clean, Text
<1>5. stderr' \in Text /\ Clean(stderr')
  <2>1. stderr \in Text /\ Clean(stderr)
    BY DEF LogInv, LogTypeOK
  <2>2. stderr \o <<Word, Space>> \in Text /\ Clean(stderr \o <<Word, Space>>)
    BY <1>3, <2>1, CleanConcat
  <2>3. LET said == stderr \o <<Word, Space>> \o Redacted(m)
        IN  said \in Text /\ Clean(said)
    BY <1>2, <2>2, CleanConcat
  <2>. QED BY <1>1, <1>4, <2>3, CleanConcat
<1>6. events' \in 0..MaxEvents
  BY <1>1, EventsAssumption DEF LogInv, LogTypeOK
<1>7. LogTypeOK'
  BY <1>1, <1>5, <1>6 DEF LogInv, LogTypeOK
<1>. QED BY <1>1, <1>5, <1>7, NothingLogged

LEMMA LogStep == LogInv /\ (Launches \/ LogNext \/ UNCHANGED logVars) => LogInv'
<1>. SUFFICES ASSUME LogInv, Launches \/ LogNext \/ UNCHANGED logVars PROVE LogInv'
  OBVIOUS
<1>1. CASE Launches
  BY <1>1, LaunchesInv
<1>2. CASE Writes \/ WriteFails \/ Complains
  BY <1>2, WritesInv, WriteFailsInv, ComplainsInv
<1>3. CASE \E cmd \in {"host", "join_rendezvous", "join"}, args \in StartArgs,
              dir \in BOOLEAN : Starts(cmd, args, dir)
  BY <1>3, StartsInv
<1>4. CASE \E m \in Messages : Emits(m) \/ Panics(m)
  BY <1>4, EmitsInv, PanicsInv
<1>5. CASE UNCHANGED logVars
  BY <1>5 DEF LogInv, LogTypeOK, logVars
<1>. QED BY <1>1, <1>2, <1>3, <1>4, <1>5 DEF LogNext

LEMMA LogInvSafe == LogInv => LogTypeOK /\ SecretsStayOut /\ LogIsWhole
<1>. SUFFICES ASSUME LogInv PROVE LogTypeOK /\ SecretsStayOut /\ LogIsWhole
  OBVIOUS
<1>1. LogTypeOK
  BY DEF LogInv
<1>2. SecretsStayOut
  BY DEF LogInv, Clean, SecretsStayOut, ToSet
<1>3. ASSUME pending = <<>>, ~ faulted PROVE Match(emitted, file)
  <2>1. PICK done \in Text : emitted = done \o pending /\ Match(done, file)
    BY <1>3 DEF LogInv
  <2>2. emitted = done
    BY <1>3, <2>1, ConcatEmptySeq DEF Text
  <2>. QED BY <2>1, <2>2
<1>4. LogIsWhole
  BY <1>3 DEF LogIsWhole, Busy, Match
<1>. QED BY <1>1, <1>2, <1>4

(***************************************************************************)
(* Whatever is logged, in whatever order, and however many writes fail:    *)
(* what waits is whole lines, nothing that was written shows a value, and  *)
(* until a write fails the file tells line for line what was logged        *)
(* (log.rs: SinSecretosWriter, install_panic_hook).                        *)
(***************************************************************************)
THEOREM LogInvariant == LogSpec => []LogInv
<1>1. LogInv /\ [Launches \/ LogNext]_logVars => LogInv'
  BY LogStep
<1>. QED BY <1>1, LogInitInv, PTL DEF LogSpec
=============================================================================
