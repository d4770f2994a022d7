-------------------------- MODULE RoundTripProofs --------------------------
(***************************************************************************)
(* toString loses nothing: what ConnSpec.parse reads from a string that    *)
(* ConnSpec.toString wrote is the ConnSpec that was written, for all       *)
(* options, whatever separators their keys and values hold.                *)
(*                                                                         *)
(* The argument: the pairs toString lists for a key stand together, so     *)
(* grouping them gives the options back (ListedAreGrouped); each pair      *)
(* begins right after a separator that is not escaped, and holds none, so  *)
(* the matcher finds exactly the pairs that were joined (JoinedAreRead);   *)
(* and what is parsed was written under the core's names, so that nothing  *)
(* is translated again (WriteInv).                                         *)
(***************************************************************************)
EXTENDS ConnectionStringProofs

(* The pairs of a spec, grouped again *)

\* The values of a key that stand together in a sequence of pairs are its values.
LEMMA ValuesOfBlock ==
    ASSUME NEW pairs \in Seq(PairOfTexts), NEW key, NEW s \in Seq(Plain), NEW a \in Nat,
           a + Len(s) <= Len(pairs),
           \A j \in 1..Len(s) : pairs[a + j].key = key /\ pairs[a + j].value = s[j],
           \A n \in 1..Len(pairs) : n \in 1..a \/ n \in (a + Len(s) + 1)..Len(pairs) =>
               pairs[n].key # key
    PROVE  ValuesIn(pairs, key)[Len(pairs)] = s
<1> DEFINE V == ValuesIn(pairs, key)
           m == Len(pairs)
           l == Len(s)
           S == {j \in 0..l : V[a + j] = SubSeq(s, 1, j)}
           T == {n \in (a + l)..m : V[n] = s}
<1>1. l \in Nat /\ m \in Nat /\ a \in 0..m /\ a + l \in 0..m
  OBVIOUS
<1>2. 0 \in S
  <2>1. V[a] = <<>>
    <3>1. a \in 0..Len(pairs) /\ \A i \in 1..a : pairs[i].key # key
      BY <1>1
    <3> HIDE DEF V
    <3> QED
      BY <3>1, NoPairNoValues DEF V
  <2>2. SubSeq(s, 1, 0) = <<>>
    BY SubSeqEmpty
  <2>3. a + 0 = a /\ 0 \in 0..l
    BY <1>1
  <2> HIDE DEF V
  <2> QED
    BY <2>1, <2>2, <2>3
<1>3. ASSUME NEW j \in 0..(l - 1), j \in S PROVE j + 1 \in S
  <2>1. /\ j + 1 \in 1..l /\ j + 1 \in 0..l /\ (j + 1) - 1 = j
        /\ a + (j + 1) \in 1..m /\ (a + (j + 1)) - 1 = a + j
    BY <1>1
  <2>2. pairs[a + (j + 1)].key = key /\ pairs[a + (j + 1)].value = s[j + 1]
    BY <2>1
  <2>3. V[a + (j + 1)] = Append(V[a + j], s[j + 1])
    <3>1. V[a + (j + 1)] = Append(V[(a + (j + 1)) - 1], pairs[a + (j + 1)].value)
      BY <2>1, <2>2, ValuesInSteps
    <3> HIDE DEF V
    <3> QED
      BY <2>1, <2>2, <3>1
  <2>4. SubSeq(s, 1, j + 1) = Append(SubSeq(s, 1, j), s[j + 1])
    <3>1. 1 \in 1..Len(s) /\ j + 1 \in 1..Len(s)
      BY <1>1, <2>1
    <3>2. SubSeq(s, 1, j + 1) = SubSeq(s, 1, (j + 1) - 1) \o <<s[j + 1]>>
      BY <3>1, SubSeqRecursiveSecond
    <3>3. SubSeq(s, 1, j) \in Seq(Plain)
      <4>1. \A i \in 1..j : s[i] \in Plain
        BY <1>1, <2>1
      <4>2. 1 \in Int /\ j \in Int
        BY <2>1
      <4> QED
        BY <4>1, <4>2, SubSeqProperties
    <3>4. s[j + 1] \in Plain
      BY <3>1
    <3>5. SubSeq(s, 1, (j + 1) - 1) = SubSeq(s, 1, j)
      BY <2>1
    <3>6. Append(SubSeq(s, 1, j), s[j + 1]) = SubSeq(s, 1, j) \o <<s[j + 1]>>
      BY <3>3, <3>4, AppendIsConcat
    <3> QED
      BY <3>2, <3>5, <3>6
  <2> HIDE DEF V, l
  <2> QED
    BY <1>3, <2>1, <2>3, <2>4
<1>4. l \in S
  <2> HIDE DEF S
  <2>1. 0..l \subseteq S
    BY <1>1, <1>2, <1>3, InductionUp
  <2>2. l \in 0..l
    BY <1>1
  <2> QED
    BY <2>1, <2>2
<1>5. V[a + l] = s
  <2>1. SubSeq(s, 1, Len(s)) = s
    BY SubSeqFull
  <2> HIDE DEF V
  <2> QED
    BY <1>4, <2>1
<1>6. a + l \in T
  <2> HIDE DEF V
  <2> QED
    BY <1>1, <1>5
<1>7. ASSUME NEW n \in (a + l)..(m - 1), n \in T PROVE n + 1 \in T
  <2>1. /\ n + 1 \in 1..m /\ n + 1 \in (a + l)..m /\ (n + 1) - 1 = n
        /\ n + 1 \in (a + l + 1)..m
    BY <1>1
  <2>2. pairs[n + 1].key # key
    BY <2>1
  <2>3. V[n + 1] = V[n]
    <3>1. V[n + 1] = V[(n + 1) - 1]
      BY <2>1, <2>2, ValuesInSteps
    <3> HIDE DEF V
    <3> QED
      BY <2>1, <3>1
  <2> HIDE DEF V, l, m
  <2> QED
    BY <1>7, <2>1, <2>3
<1>8. m \in T
  <2>1. a + l \in Nat /\ m \in (a + l)..m
    BY <1>1
  <2> HIDE DEF T, l, m
  <2>2. (a + l)..m \subseteq T
    BY <1>1, <1>6, <1>7, <2>1, InductionUp
  <2> QED
    BY <2>1, <2>2
<1> QED
  BY <1>8

\* Where the pairs of each key stand in the list of pairs: those of the i-th key
\* after end[i - 1], up to end[i].
Blocks(options, keys, pairs, end) ==
    /\ end \in [0..Len(keys) -> Nat] /\ Len(pairs) = end[Len(keys)]
    /\ \A i \in 1..Len(keys) :
          /\ end[i] = end[i - 1] + Len(options[keys[i]])
          /\ end[i] <= Len(pairs)
          /\ \A j \in 1..Len(options[keys[i]]) :
                /\ pairs[end[i - 1] + j].key = keys[i]
                /\ pairs[end[i - 1] + j].value = options[keys[i]][j]
    /\ \A n \in 1..Len(pairs) :
          \E i \in 1..Len(keys) : \E j \in 1..Len(options[keys[i]]) : n = end[i - 1] + j

LEMMA ListedBlocks ==
    ASSUME NEW options, IsOptions(options)
    PROVE  \E end : Blocks(options, SetToSeq(DOMAIN options), Listed(options), end)
<1> DEFINE keys == SetToSeq(DOMAIN options)
           m == Len(keys)
           values(i) == options[keys[i]]
           pairsOf(i) == [j \in DOMAIN values(i) |-> [key |-> keys[i], value |-> values(i)[j]]]
           seqs == [i \in DOMAIN keys |-> pairsOf(i)]
           pairs == Listed(options)
<1>1. keys \in Seq(DOMAIN options)
  BY SetToSeqIsList DEF IsOptions
<1>2. m \in Nat /\ DOMAIN keys = 1..m
  BY <1>1
<1>3. pairs = FlattenSeq(seqs)
  BY DEF Listed
<1>4. ASSUME NEW i \in 1..m
      PROVE  keys[i] \in Plain /\ values(i) \in Seq(Plain) /\ Len(values(i)) \in Nat
  <2>1. keys[i] \in DOMAIN options
    BY <1>1
  <2> HIDE DEF keys
  <2>2. keys[i] \in Plain /\ options[keys[i]] \in Seq(Plain)
    BY <2>1 DEF IsOptions
  <2> QED
    BY <2>2
<1> HIDE DEF keys, values
<1>5. ASSUME NEW i \in 1..m
      PROVE  /\ seqs[i] \in Seq(PairOfTexts) /\ Len(seqs[i]) = Len(values(i))
             /\ \A j \in 1..Len(values(i)) :
                   seqs[i][j].key = keys[i] /\ seqs[i][j].value = values(i)[j]
  <2> DEFINE l == Len(values(i))
  <2>1. l \in Nat /\ DOMAIN values(i) = 1..l
    BY <1>4
  <2>2. \A j \in 1..l : [key |-> keys[i], value |-> values(i)[j]] \in PairOfTexts
    BY <1>4 DEF PairOfTexts
  <2>3. seqs[i] = [j \in 1..l |-> [key |-> keys[i], value |-> values(i)[j]]]
    BY <1>2, <2>1
  <2> HIDE DEF l, seqs
  <2>4. seqs[i] \in Seq(PairOfTexts) /\ Len(seqs[i]) = l
    BY <2>1, <2>2, <2>3
  <2> QED
    BY <2>3, <2>4 DEF l
<1>6. seqs \in Seq(Seq(PairOfTexts)) /\ Len(seqs) = m
  <2>1. seqs = [i \in 1..m |-> seqs[i]]
    BY <1>2
  <2> HIDE DEF seqs, m
  <2> QED
    BY <1>2, <1>5, <2>1
<1> HIDE DEF seqs, pairs, m
<1>7. PICK end : Flattens(pairs, seqs, end)
  BY <1>3, <1>6, FlattenSeqPositions
<1>8. /\ end \in [0..m -> Nat] /\ Len(pairs) = end[m]
      /\ \A i \in 1..m : end[i] = end[i - 1] + Len(seqs[i])
      /\ \A i \in 1..m : \A k \in 0..(i - 1) : end[k] <= end[i - 1]
      /\ \A i \in 1..m : \A j \in 1..Len(seqs[i]) : pairs[end[i - 1] + j] = seqs[i][j]
      /\ \A n \in 1..Len(pairs) : \E i \in 1..m : \E j \in 1..Len(seqs[i]) : n = end[i - 1] + j
  BY <1>6, <1>7 DEF Flattens
<1>9. ASSUME NEW i \in 1..m PROVE end[i] <= Len(pairs)
  <2>1. CASE i = m
    BY <1>2, <1>8, <2>1
  <2>2. CASE i # m
    <3>1. m \in 1..m /\ i \in 0..(m - 1) /\ m - 1 \in 0..m /\ i \in 0..m /\ m \in 0..m
      BY <1>2, <2>2
    <3>2. end[i] <= end[m - 1] /\ end[m] = end[m - 1] + Len(values(m))
      BY <1>5, <1>8, <3>1
    <3>3. end[i] \in Nat /\ end[m] \in Nat /\ end[m - 1] \in Nat /\ Len(values(m)) \in Nat
      BY <1>4, <1>8, <3>1
    <3> QED
      BY <1>8, <3>2, <3>3
  <2> QED
    BY <2>1, <2>2
<1>10. ASSUME NEW i \in 1..m
       PROVE  /\ end[i] = end[i - 1] + Len(values(i)) /\ end[i] <= Len(pairs)
              /\ \A j \in 1..Len(values(i)) :
                    /\ pairs[end[i - 1] + j].key = keys[i]
                    /\ pairs[end[i - 1] + j].value = values(i)[j]
  BY <1>5, <1>8, <1>9
<1>11. \A n \in 1..Len(pairs) :
          \E i \in 1..m : \E j \in 1..Len(values(i)) : n = end[i - 1] + j
  <2>1. ASSUME NEW n \in 1..Len(pairs)
        PROVE  \E i \in 1..m : \E j \in 1..Len(values(i)) : n = end[i - 1] + j
    <3>1. PICK i \in 1..m : \E j \in 1..Len(seqs[i]) : n = end[i - 1] + j
      BY <1>8
    <3>2. Len(seqs[i]) = Len(values(i))
      BY <1>5
    <3> QED
      BY <3>1, <3>2
  <2> QED
    BY <2>1
<1>12. Blocks(options, keys, pairs, end)
  BY <1>8, <1>10, <1>11 DEF m, values, Blocks
<1> QED
  BY <1>12 DEF keys, pairs

\* The options that toString lists are those that its pairs give when they are
\* read in order.
LEMMA ListedAreGrouped ==
    ASSUME NEW options, IsOptions(options)
    PROVE  Grouped(Listed(options), Len(Listed(options))) = options
<1> DEFINE keys == SetToSeq(DOMAIN options)
           m == Len(keys)
           pairs == Listed(options)
           n == Len(pairs)
<1>1. /\ keys \in Seq(DOMAIN options) /\ IsInjective(keys)
      /\ \A key \in DOMAIN options : \E i \in 1..m : keys[i] = key
  BY SetToSeqIsList DEF IsOptions
<1>2. pairs \in Seq(PairOfTexts) /\ n \in Nat /\ m \in Nat
  BY <1>1, ListedType
<1>3. PICK end : Blocks(options, keys, pairs, end)
  BY ListedBlocks
<1> HIDE DEF keys, pairs
<1>4. /\ end \in [0..m -> Nat] /\ n = end[m]
      /\ \A i \in 1..m :
            /\ end[i] = end[i - 1] + Len(options[keys[i]])
            /\ end[i] <= n
            /\ \A j \in 1..Len(options[keys[i]]) :
                  /\ pairs[end[i - 1] + j].key = keys[i]
                  /\ pairs[end[i - 1] + j].value = options[keys[i]][j]
      /\ \A k \in 1..n :
            \E i \in 1..m : \E j \in 1..Len(options[keys[i]]) : k = end[i - 1] + j
  BY <1>3 DEF Blocks
<1>5. ASSUME NEW i \in 1..m
      PROVE  /\ keys[i] \in DOMAIN options
             /\ options[keys[i]] \in Seq(Plain) /\ Len(options[keys[i]]) \in Nat \ {0}
             /\ end[i - 1] \in Nat
  <2>1. keys[i] \in DOMAIN options
    BY <1>1
  <2>2. options[keys[i]] \in Seq(Plain) \ {<<>>}
    BY <2>1 DEF IsOptions
  <2>3. Len(options[keys[i]]) \in Nat \ {0}
    BY <2>2, EmptySeq
  <2>4. i - 1 \in 0..m
    BY <1>2
  <2> QED
    BY <1>4, <2>1, <2>2, <2>3, <2>4
<1>6. \A i, k \in 1..m : keys[i] = keys[k] => i = k
  BY <1>1 DEF IsInjective
<1>7. ASSUME NEW i \in 1..m PROVE ValuesIn(pairs, keys[i])[n] = options[keys[i]]
  <2> DEFINE key == keys[i]
             values == options[key]
             a == end[i - 1]
             l == Len(values)
  <2>1. values \in Seq(Plain) /\ a \in Nat /\ l \in Nat
    BY <1>5
  <2>2. /\ a + l <= n
        /\ \A j \in 1..l : pairs[a + j].key = key /\ pairs[a + j].value = values[j]
    BY <1>4
  <2>3. ASSUME NEW k \in 1..n, k \in 1..a \/ k \in (a + l + 1)..n PROVE pairs[k].key # key
    <3>1. PICK i2 \in 1..m : \E j \in 1..Len(options[keys[i2]]) : k = end[i2 - 1] + j
      BY <1>4
    <3>2. pairs[k].key = keys[i2]
      BY <1>4, <3>1
    <3>3. i2 # i
      <4>1. SUFFICES ASSUME i2 = i PROVE FALSE
        OBVIOUS
      <4>2. PICK j \in 1..l : k = a + j
        BY <3>1, <4>1
      <4> HIDE DEF a, l
      <4> QED
        BY <1>2, <2>1, <2>3, <4>2
    <3> QED
      BY <1>6, <3>2, <3>3
  <2> HIDE DEF key, values, a
  <2>4. ValuesIn(pairs, key)[Len(pairs)] = values
    BY <1>2, <2>1, <2>2, <2>3, ValuesOfBlock
  <2> QED
    BY <2>4 DEF key, values
<1>8. {pairs[k].key : k \in 1..n} = DOMAIN options
  <2>1. ASSUME NEW k \in 1..n PROVE pairs[k].key \in DOMAIN options
    <3>1. PICK i \in 1..m : \E j \in 1..Len(options[keys[i]]) : k = end[i - 1] + j
      BY <1>4
    <3>2. pairs[k].key = keys[i]
      BY <1>4, <3>1
    <3> QED
      BY <1>5, <3>2
  <2>2. ASSUME NEW key \in DOMAIN options PROVE \E k \in 1..n : pairs[k].key = key
    <3>1. PICK i \in 1..m : keys[i] = key
      BY <1>1
    <3> DEFINE l == Len(options[keys[i]])
    <3>2. /\ l \in Nat \ {0} /\ end[i - 1] \in Nat
          /\ end[i] = end[i - 1] + l /\ end[i] <= n
      BY <1>4, <1>5
    <3>3. \A j \in 1..l : pairs[end[i - 1] + j].key = keys[i]
      BY <1>4
    <3> HIDE DEF l
    <3>4. 1 \in 1..l /\ end[i - 1] + 1 \in 1..n
      BY <1>2, <3>2
    <3>5. pairs[end[i - 1] + 1].key = key
      BY <3>1, <3>3, <3>4
    <3> QED
      BY <3>4, <3>5
  <2> QED
    BY <2>1, <2>2
<1>9. ASSUME NEW key \in DOMAIN options PROVE ValuesIn(pairs, key)[n] = options[key]
  BY <1>1, <1>7
<1>10. Grouped(pairs, n) = [key \in DOMAIN options |-> options[key]]
  <2>1. Grouped(pairs, n) = [key \in {pairs[k].key : k \in 1..n} |-> ValuesIn(pairs, key)[n]]
    BY DEF Grouped
  <2> HIDE DEF n
  <2> QED
    BY <1>8, <1>9, <2>1
<1> QED
  BY <1>10 DEF IsOptions, pairs

-----------------------------------------------------------------------------
(* The written pairs, matched again *)

\* The first token of a kind is the only place with none of the kind before it.
LEMMA FirstAt ==
    ASSUME NEW query, Len(query) \in Nat, NEW tokens, NEW from \in 1..(Len(query) + 1),
           NEW i \in from..(Len(query) + 1),
           i = Len(query) + 1 \/ query[i] \in tokens,
           \A j \in from..(i - 1) : query[j] \notin tokens
    PROVE  First(query, tokens, from) = i
<1> DEFINE k == First(query, tokens, from)
<1>1. /\ k \in from..(Len(query) + 1)
      /\ k = Len(query) + 1 \/ query[k] \in tokens
      /\ \A j \in from..(k - 1) : query[j] \notin tokens
  BY FirstIsFirst
<1> HIDE DEF k
<1>2. CASE k < i
  <2>1. k \in from..(i - 1) /\ k # Len(query) + 1
    BY <1>1, <1>2
  <2> QED
    BY <1>1, <2>1
<1>3. CASE i < k
  <2>1. i \in from..(k - 1) /\ i # Len(query) + 1
    BY <1>1, <1>3
  <2> QED
    BY <1>1, <2>1
<1>4. k = i
  BY <1>1, <1>2, <1>3
<1> QED
  BY <1>4 DEF k

LEMMA SubSeqAt ==
    ASSUME NEW V, NEW query \in Seq(V), NEW at \in Nat, NEW s \in Seq(V),
           at + Len(s) <= Len(query),
           \A i \in 1..Len(s) : query[at + i] = s[i]
    PROVE  SubSeq(query, at + 1, at + Len(s)) = s
<1> DEFINE l == Len(s)
           part == SubSeq(query, at + 1, at + l)
<1>1. l \in Nat /\ Len(query) \in Nat /\ at + 1 \in Int /\ at + l \in Int
  OBVIOUS
<1>2. \A i \in (at + 1)..(at + l) : query[i] \in V
  BY <1>1
<1> HIDE DEF l
<1>3. /\ part \in Seq(V)
      /\ Len(part) = IF at + 1 <= at + l THEN (at + l) - (at + 1) + 1 ELSE 0
      /\ \A i \in 1..((at + l) - (at + 1) + 1) : part[i] = query[(at + 1) + i - 1]
  BY <1>1, <1>2, SubSeqProperties
<1>4. Len(part) = l
  BY <1>1, <1>3
<1>5. ASSUME NEW i \in 1..l PROVE part[i] = s[i]
  <2>1. i \in 1..((at + l) - (at + 1) + 1) /\ (at + 1) + i - 1 = at + i
    BY <1>1
  <2>2. part[i] = query[at + i]
    BY <1>3, <2>1
  <2> QED
    BY <2>2 DEF l
<1>6. part = s
  <2> HIDE DEF part
  <2> QED
    BY <1>3, <1>4, <1>5, SeqEqual DEF l
<1> QED
  BY <1>6 DEF l

\* What a written pair is made of.
LEMMA PairParts ==
    ASSUME NEW key \in Plain, NEW value \in Plain
    PROVE  LET p == Pair(key, value)
               k == Len(key)
               v == Len(value)
           IN  /\ p \in Seq(Token) /\ k \in Nat /\ v \in Nat /\ Len(p) = k + 1 + v
               /\ \A j \in 1..k : p[j] = Escape(key)[j] /\ p[j] \notin Special
               /\ p[k + 1] = "="
               /\ \A j \in 1..v : p[k + 1 + j] = Escape(value)[j] /\ p[k + 1 + j] \notin Special
<1> DEFINE p == Pair(key, value)
           k == Len(key)
           v == Len(value)
           head == Escape(key) \o <<"=">>
<1>1. /\ Escape(key) \in Seq(Token) /\ Len(Escape(key)) = k
      /\ \A j \in 1..k : Escape(key)[j] \notin Special
      /\ Escape(value) \in Seq(Token) /\ Len(Escape(value)) = v
      /\ \A j \in 1..v : Escape(value)[j] \notin Special
  BY EscapeType
<1>2. k \in Nat /\ v \in Nat
  BY DEF Plain
<1>3. <<"=">> \in Seq(Token) /\ Len(<<"=">>) = 1
  BY DEF Token, Special
<1> HIDE DEF k, v
<1>4. /\ head \in Seq(Token) /\ Len(head) = k + 1
      /\ \A j \in 1..k : head[j] = Escape(key)[j]
      /\ head[k + 1] = "="
  BY <1>1, <1>2, <1>3
<1> HIDE DEF head
<1>5. /\ p \in Seq(Token) /\ Len(p) = k + 1 + v
      /\ \A j \in 1..(k + 1) : p[j] = head[j]
      /\ \A j \in 1..v : p[k + 1 + j] = Escape(value)[j]
  <2>1. p = head \o Escape(value)
    BY DEF p, head, Pair
  <2> DEFINE tailOf == Escape(value)
  <2>2. tailOf \in Seq(Token) /\ Len(tailOf) = v
    BY <1>1
  <2> HIDE DEF p, tailOf
  <2>3. /\ p \in Seq(Token) /\ Len(p) = (k + 1) + v
        /\ \A i \in 1..((k + 1) + v) : p[i] = IF i <= k + 1 THEN head[i] ELSE tailOf[i - (k + 1)]
    <3>1. p = head \o tailOf
      BY <2>1 DEF tailOf
    <3>2. /\ head \o tailOf \in Seq(Token) /\ Len(head \o tailOf) = Len(head) + Len(tailOf)
          /\ \A i \in 1..(Len(head) + Len(tailOf)) :
                (head \o tailOf)[i] = IF i <= Len(head) THEN head[i] ELSE tailOf[i - Len(head)]
      BY <1>4, <2>2, ConcatProperties
    <3> QED
      BY <1>4, <2>2, <3>1, <3>2
  <2>4. \A j \in 1..(k + 1) : j \in 1..((k + 1) + v) /\ j <= k + 1
    BY <1>2
  <2>5. \A j \in 1..v :
            /\ k + 1 + j \in 1..((k + 1) + v) /\ ~(k + 1 + j <= k + 1)
            /\ (k + 1 + j) - (k + 1) = j
    BY <1>2
  <2>6. \A j \in 1..v : p[k + 1 + j] = tailOf[j]
    BY <2>3, <2>5
  <2> QED
    BY <2>3, <2>4, <2>6 DEF tailOf
<1> HIDE DEF p
<1>6. \A j \in 1..k : j \in 1..(k + 1)
  BY <1>2
<1>7. k + 1 \in 1..(k + 1)
  BY <1>2
<1> QED
  BY <1>1, <1>2, <1>4, <1>5, <1>6, <1>7 DEF p, k, v

\* Where a written pair stands in a string, up to the end or followed by a
\* separator.
StandsAt(query, at, key, value) ==
    LET p == Pair(key, value)
        l == Len(key) + 1 + Len(value)
    IN  /\ at \in Nat /\ at + l <= Len(query)
        /\ \A j \in 1..l : query[at + j] = p[j]
        /\ at + l = Len(query) \/ query[at + l + 1] = "&"

\* There the matcher finds the key and the value that were written, and stops
\* behind the separator.
LEMMA MatchWritten ==
    ASSUME NEW query \in Seq(Token), NEW at, NEW key \in Plain, NEW value \in Plain,
           StandsAt(query, at, key, value)
    PROVE  LET end == at + Len(key) + 1 + Len(value)
           IN  /\ Matches(query, at)
               /\ Match(query, at).key = key /\ Match(query, at).value = value
               /\ Match(query, at).next = IF end = Len(query) THEN end ELSE end + 1
<1> DEFINE p == Pair(key, value)
           k == Len(key)
           v == Len(value)
           n == Len(query)
           equals == at + k + 1
           separator == equals + v + 1
<1>1. /\ k \in Nat /\ v \in Nat
      /\ \A j \in 1..k : p[j] = Escape(key)[j] /\ p[j] \notin Special
      /\ p[k + 1] = "="
      /\ \A j \in 1..v : p[k + 1 + j] = Escape(value)[j] /\ p[k + 1 + j] \notin Special
  BY PairParts
<1>2. /\ at \in Nat /\ n \in Nat /\ at + (k + 1 + v) <= n
      /\ \A j \in 1..(k + 1 + v) : query[at + j] = p[j]
      /\ at + (k + 1 + v) = n \/ query[at + (k + 1 + v) + 1] = "&"
  BY DEF StandsAt
<1>3. /\ Escape(key) \in Seq(Token) /\ Len(Escape(key)) = k
      /\ Escape(value) \in Seq(Token) /\ Len(Escape(value)) = v
  BY EscapeType
<1> HIDE DEF p, k, v, n
<1>4. /\ \A j \in 1..k : query[at + j] = Escape(key)[j] /\ query[at + j] \notin Special
      /\ query[equals] = "="
      /\ \A j \in 1..v : query[equals + j] = Escape(value)[j] /\ query[equals + j] \notin Special
  <2>1. \A j \in 1..k : j \in 1..(k + 1 + v)
    BY <1>1
  <2>2. k + 1 \in 1..(k + 1 + v) /\ at + (k + 1) = equals
    BY <1>1, <1>2
  <2>3. \A j \in 1..v : k + 1 + j \in 1..(k + 1 + v) /\ at + (k + 1 + j) = equals + j
    BY <1>1, <1>2
  <2> HIDE DEF equals
  <2> QED
    BY <1>1, <1>2, <2>1, <2>2, <2>3
<1>5. separator = n + 1 \/ query[separator] = "&"
  <2>1. separator = at + (k + 1 + v) + 1
    BY <1>1, <1>2
  <2> HIDE DEF separator
  <2> QED
    BY <1>1, <1>2, <2>1
<1>6. /\ equals \in (at + 1)..n /\ separator \in (equals + 1)..(n + 1)
      /\ equals \in Nat /\ separator \in Nat
      /\ equals - 1 = at + k /\ separator - 1 = equals + v
  BY <1>1, <1>2
<1>7. Matches(query, at)
  BY <1>4, <1>6 DEF Matches, n
<1> HIDE DEF equals, separator
<1>8. First(query, {"="}, at + 1) = equals
  <2>1. ASSUME NEW j \in (at + 1)..(equals - 1) PROVE query[j] \notin {"="}
    <3>1. j - at \in 1..k /\ at + (j - at) = j
      BY <1>1, <1>2, <1>6
    <3> DEFINE i == j - at
    <3> HIDE DEF i
    <3>2. query[j] \notin Special
      BY <1>4, <3>1 DEF i
    <3> QED
      BY <3>2 DEF Special
  <2>2. at + 1 \in 1..(n + 1) /\ equals \in (at + 1)..(n + 1)
    BY <1>2, <1>6
  <2>3. query[equals] \in {"="}
    BY <1>4
  <2> QED
    BY <1>2, <2>1, <2>2, <2>3, FirstAt DEF n
<1>9. First(query, {"&", "?"}, equals + 1) = separator
  <2>1. ASSUME NEW j \in (equals + 1)..(separator - 1) PROVE query[j] \notin {"&", "?"}
    <3>1. j - equals \in 1..v /\ equals + (j - equals) = j
      BY <1>1, <1>2, <1>6
    <3> DEFINE i == j - equals
    <3> HIDE DEF i
    <3>2. query[j] \notin Special
      BY <1>4, <3>1 DEF i
    <3> QED
      BY <3>2 DEF Special
  <2>2. equals + 1 \in 1..(n + 1)
    BY <1>2, <1>6
  <2>3. separator = n + 1 \/ query[separator] \in {"&", "?"}
    BY <1>5
  <2> QED
    BY <1>2, <1>6, <2>1, <2>2, <2>3, FirstAt DEF n
<1>10. SubSeq(query, at + 1, equals - 1) = Escape(key)
  <2> DEFINE s == Escape(key)
  <2>1. s \in Seq(Token) /\ at + Len(s) <= Len(query) /\ \A j \in 1..Len(s) : query[at + j] = s[j]
    BY <1>1, <1>2, <1>3, <1>4 DEF n
  <2> HIDE DEF s
  <2>2. SubSeq(query, at + 1, at + Len(s)) = s
    BY <1>2, <2>1, SubSeqAt
  <2> QED
    BY <1>3, <1>6, <2>2 DEF s
<1>11. SubSeq(query, equals + 1, separator - 1) = Escape(value)
  <2> DEFINE s == Escape(value)
  <2>1. equals + v <= n
    BY <1>1, <1>2, <1>6
  <2>2. s \in Seq(Token) /\ equals + Len(s) <= Len(query)
        /\ \A j \in 1..Len(s) : query[equals + j] = s[j]
    BY <1>3, <1>4, <2>1 DEF n
  <2> HIDE DEF s
  <2>3. SubSeq(query, equals + 1, equals + Len(s)) = s
    BY <1>6, <2>2, SubSeqAt
  <2> QED
    BY <1>3, <1>6, <2>3 DEF s
<1>12. Unescape(Escape(key)) = key /\ Unescape(Escape(value)) = value
  BY EscapeIsUndone DEF Plain
<1>13. /\ Match(query, at).key = Unescape(SubSeq(query, at + 1, equals - 1))
       /\ Match(query, at).value = Unescape(SubSeq(query, equals + 1, separator - 1))
       /\ Match(query, at).next = IF separator > n THEN n ELSE separator
  BY <1>8, <1>9 DEF Match, n
<1>14. at + k + 1 + v \in Nat /\ separator = (at + k + 1 + v) + 1 /\ at + k + 1 + v <= n
  BY <1>1, <1>2 DEF separator, equals
<1>15. Match(query, at).next = IF at + k + 1 + v = n THEN at + k + 1 + v ELSE (at + k + 1 + v) + 1
  <2> DEFINE end == at + k + 1 + v
  <2> HIDE DEF end
  <2> QED
    BY <1>2, <1>13, <1>14 DEF end
<1> QED
  BY <1>7, <1>10, <1>11, <1>12, <1>13, <1>15 DEF k, v, n

\* The pieces that toString joins: each pair, a separator before all but the
\* first.
ArePieces(pieces, pairs) ==
    /\ pieces \in Seq(Seq(Token)) /\ Len(pieces) = Len(pairs)
    /\ \A i \in 1..Len(pairs) :
          LET p == Pair(pairs[i].key, pairs[i].value)
              o == IF i = 1 THEN 0 ELSE 1
          IN  /\ pairs[i].key \in Plain /\ pairs[i].value \in Plain
              /\ Len(pieces[i]) = o + Len(p)
              /\ \A j \in 1..Len(p) : pieces[i][o + j] = p[j]
              /\ i # 1 => pieces[i][1] = "&"

LEMMA JoinedPieces ==
    ASSUME NEW pairs \in Seq(PairOfTexts)
    PROVE  \E pieces : Joined(pairs) = FlattenSeq(pieces) /\ ArePieces(pieces, pairs)
<1> DEFINE n == Len(pairs)
           p(i) == Pair(pairs[i].key, pairs[i].value)
           separator(i) == IF i = 1 THEN <<>> ELSE <<"&">>
           o(i) == IF i = 1 THEN 0 ELSE 1
           pieces == [i \in DOMAIN pairs |-> separator(i) \o p(i)]
<1>1. n \in Nat /\ DOMAIN pairs = 1..n
  OBVIOUS
<1>2. Joined(pairs) = FlattenSeq(pieces)
  BY DEF Joined
<1>3. ASSUME NEW i \in 1..n PROVE pairs[i].key \in Plain /\ pairs[i].value \in Plain
  <2>1. pairs[i] \in PairOfTexts
    OBVIOUS
  <2> QED
    BY <2>1 DEF PairOfTexts
<1>4. ASSUME NEW i \in 1..n PROVE p(i) \in Seq(Token) /\ Len(p(i)) \in Nat
  <2>1. p(i) \in Seq(Token)
    BY <1>3, PairParts
  <2> HIDE DEF p
  <2> QED
    BY <2>1
<1>5. \A i \in 1..n : pieces[i] = separator(i) \o p(i)
  BY <1>1
<1>6. ASSUME NEW i \in 1..n
      PROVE  /\ separator(i) \in Seq(Token) /\ Len(separator(i)) = o(i)
             /\ i # 1 => separator(i)[1] = "&"
  <2>1. "&" \in Token
    BY DEF Token, Special
  <2> QED
    BY <2>1
<1> HIDE DEF n, p, separator, pieces
<1>7. ASSUME NEW i \in 1..n
      PROVE  /\ pieces[i] \in Seq(Token) /\ Len(pieces[i]) = o(i) + Len(p(i))
             /\ \A j \in 1..Len(p(i)) : pieces[i][o(i) + j] = p(i)[j]
             /\ i # 1 => pieces[i][1] = "&"
  <2> DEFINE s == separator(i)
             t == p(i)
  <2>1. s \in Seq(Token) /\ t \in Seq(Token) /\ Len(t) \in Nat /\ Len(s) = o(i)
        /\ pieces[i] = s \o t
    BY <1>4, <1>5, <1>6
  <2> HIDE DEF s, t
  <2>2. /\ s \o t \in Seq(Token) /\ Len(s \o t) = Len(s) + Len(t)
        /\ \A j \in 1..(Len(s) + Len(t)) :
              (s \o t)[j] = IF j <= Len(s) THEN s[j] ELSE t[j - Len(s)]
    BY <2>1, ConcatProperties
  <2>3. ASSUME NEW j \in 1..Len(t) PROVE (s \o t)[o(i) + j] = t[j]
    <3>1. o(i) + j \in 1..(Len(s) + Len(t)) /\ ~(o(i) + j <= Len(s)) /\ (o(i) + j) - Len(s) = j
      BY <2>1
    <3> HIDE DEF o
    <3> QED
      BY <2>2, <3>1
  <2>4. ASSUME i # 1 PROVE (s \o t)[1] = "&"
    <3>1. 1 \in 1..(Len(s) + Len(t)) /\ 1 <= Len(s)
      BY <2>1, <2>4
    <3>2. s[1] = "&"
      BY <1>6, <2>4 DEF s
    <3> QED
      BY <2>2, <3>1, <3>2
  <2> QED
    BY <2>1, <2>2, <2>3, <2>4 DEF s, t
<1>8. pieces \in Seq(Seq(Token)) /\ Len(pieces) = n
  <2>1. pieces = [i \in 1..n |-> pieces[i]]
    BY <1>1 DEF pieces
  <2>2. \A i \in 1..n : pieces[i] \in Seq(Token)
    BY <1>7
  <2> QED
    BY <1>1, <2>1, <2>2
<1>9. ArePieces(pieces, pairs)
  BY <1>3, <1>7, <1>8 DEF n, p, ArePieces
<1> QED
  BY <1>2, <1>9

\* Where the written pairs stand: at[k] is where the matcher is before the k-th.
AreAt(at, query, pairs) ==
    /\ at \in [1..(Len(pairs) + 1) -> Nat]
    /\ at[1] = 0 /\ at[Len(pairs) + 1] = Len(query)
    /\ \A k \in 1..Len(pairs) :
          LET end == at[k] + Len(pairs[k].key) + 1 + Len(pairs[k].value)
          IN  /\ pairs[k].key \in Plain /\ pairs[k].value \in Plain
              /\ StandsAt(query, at[k], pairs[k].key, pairs[k].value)
              /\ at[k + 1] = IF end = Len(query) THEN end ELSE end + 1

LEMMA JoinedPlaces ==
    ASSUME NEW pairs \in Seq(PairOfTexts)
    PROVE  \E at : AreAt(at, Joined(pairs), pairs)
<1> DEFINE n == Len(pairs)
           query == Joined(pairs)
           m == Len(query)
           p(k) == Pair(pairs[k].key, pairs[k].value)
           l(k) == Len(pairs[k].key) + 1 + Len(pairs[k].value)
           o(k) == IF k = 1 THEN 0 ELSE 1
<1>1. n \in Nat
  OBVIOUS
<1>2. PICK pieces : query = FlattenSeq(pieces) /\ ArePieces(pieces, pairs)
  BY JoinedPieces
<1>3. /\ pieces \in Seq(Seq(Token)) /\ Len(pieces) = n
      /\ \A k \in 1..n :
            /\ pairs[k].key \in Plain /\ pairs[k].value \in Plain
            /\ Len(pieces[k]) = o(k) + Len(p(k))
            /\ \A j \in 1..Len(p(k)) : pieces[k][o(k) + j] = p(k)[j]
            /\ k # 1 => pieces[k][1] = "&"
  BY <1>2 DEF ArePieces
<1>4. PICK end : Flattens(query, pieces, end)
  BY <1>2, <1>3, FlattenSeqPositions
<1> HIDE DEF n, query, m
<1>5. /\ end \in [0..n -> Nat] /\ end[0] = 0 /\ m = end[n]
      /\ \A k \in 1..n : end[k] = end[k - 1] + Len(pieces[k])
      /\ \A k \in 1..n : \A j \in 1..Len(pieces[k]) : query[end[k - 1] + j] = pieces[k][j]
  BY <1>3, <1>4 DEF Flattens, m
<1>6. ASSUME NEW k \in 1..n PROVE Len(p(k)) = l(k) /\ l(k) \in Nat \ {0}
  <2> DEFINE key == pairs[k].key
             value == pairs[k].value
             a == Len(key)
             b == Len(value)
  <2>1. key \in Plain /\ value \in Plain
    BY <1>3
  <2>2. a \in Nat /\ b \in Nat /\ Len(Pair(key, value)) = a + 1 + b
    <3> HIDE DEF key, value
    <3> QED
      BY <2>1, PairParts
  <2> HIDE DEF a, b
  <2>3. l(k) = a + 1 + b
    BY DEF a, b
  <2> HIDE DEF l
  <2> QED
    BY <2>2, <2>3
<1> HIDE DEF p, l
<1>7. ASSUME NEW k \in 1..n
      PROVE  /\ end[k - 1] \in Nat /\ end[k] \in Nat
             /\ end[k] = end[k - 1] + (o(k) + l(k))
             /\ \A j \in 1..l(k) : query[(end[k - 1] + o(k)) + j] = p(k)[j]
             /\ k # 1 => query[end[k - 1] + 1] = "&"
  <2>1. end[k - 1] \in Nat /\ end[k] \in Nat
    <3>1. k \in 0..n /\ k - 1 \in 0..n
      BY <1>1
    <3> QED
      BY <1>5, <3>1
  <2>2. Len(pieces[k]) = o(k) + l(k)
    BY <1>3, <1>6
  <2>3. ASSUME NEW j \in 1..l(k) PROVE query[(end[k - 1] + o(k)) + j] = p(k)[j]
    <3>1. o(k) + j \in 1..(o(k) + l(k)) /\ end[k - 1] + (o(k) + j) = (end[k - 1] + o(k)) + j
      <4>1. o(k) \in Nat /\ l(k) \in Nat
        BY <1>6
      <4> HIDE DEF o
      <4> QED
        BY <2>1, <4>1
    <3> HIDE DEF o
    <3>2. query[end[k - 1] + (o(k) + j)] = pieces[k][o(k) + j]
      BY <1>5, <2>2, <3>1
    <3>3. pieces[k][o(k) + j] = p(k)[j]
      BY <1>3, <1>6
    <3> QED
      BY <3>1, <3>2, <3>3
  <2>4. ASSUME k # 1 PROVE query[end[k - 1] + 1] = "&"
    <3>1. 1 \in 1..(o(k) + l(k))
      BY <1>6, <2>4
    <3> QED
      BY <1>3, <1>5, <2>2, <2>4, <3>1
  <2> QED
    BY <1>5, <2>1, <2>2, <2>3, <2>4
<1> DEFINE at == [k \in 1..(n + 1) |->
                     IF k = n + 1 THEN m ELSE end[k - 1] + o(k)]
<1>8. /\ at \in [1..(n + 1) -> Nat] /\ at[n + 1] = m /\ m \in Nat
      /\ \A k \in 1..n : at[k] = end[k - 1] + o(k)
  <2>1. m \in Nat
    BY <1>1, <1>5
  <2>2. \A k \in 1..(n + 1) : k # n + 1 => k \in 1..n
    BY <1>1
  <2>3. \A k \in 1..n : k \in 1..(n + 1) /\ k # n + 1
    BY <1>1
  <2>4. n + 1 \in 1..(n + 1)
    BY <1>1
  <2>5. \A k \in 1..n : end[k - 1] + o(k) \in Nat
    BY <1>7
  <2> HIDE DEF o
  <2> QED
    BY <2>1, <2>2, <2>3, <2>4, <2>5
<1> HIDE DEF at
<1>9. at[1] = 0
  <2>1. CASE n = 0
    BY <1>5, <1>8, <2>1
  <2>2. CASE n # 0
    <3>1. 1 \in 1..n /\ 1 - 1 = 0
      BY <1>1, <2>2
    <3> QED
      BY <1>5, <1>8, <3>1
  <2> QED
    BY <2>1, <2>2
<1>10. ASSUME NEW k \in 1..n PROVE at[k] \in Nat /\ end[k] = at[k] + l(k)
  <2> HIDE DEF o
  <2>1. o(k) \in Nat
    BY DEF o
  <2> QED
    BY <1>6, <1>7, <1>8, <2>1
<1>11. ASSUME NEW k \in 1..n, k # n
       PROVE  /\ at[k + 1] = end[k] + 1 /\ end[k] < m
              /\ query[end[k] + 1] = "&"
  <2>1. k + 1 \in 1..n /\ (k + 1) - 1 = k /\ k + 1 # 1
    BY <1>1, <1>11
  <2>2. at[k + 1] = end[k] + 1 /\ query[end[k] + 1] = "&"
    BY <1>7, <1>8, <2>1
  <2>3. end[k + 1] = end[k] + (1 + l(k + 1)) /\ end[k] \in Nat /\ l(k + 1) \in Nat
    BY <1>6, <1>7, <2>1
  <2>4. end[k + 1] <= m
    <3>1. CASE k + 1 = n
      BY <1>5, <2>3, <3>1
    <3>2. CASE k + 1 # n
      <4>1. n \in 1..n /\ k + 1 \in 0..(n - 1)
        BY <1>1, <2>1, <3>2
      <4>2. end[k + 1] <= end[n - 1]
        BY <1>3, <1>4, <4>1 DEF Flattens
      <4>3. end[n - 1] \in Nat /\ end[n] = end[n - 1] + (o(n) + l(n)) /\ l(n) \in Nat
        BY <1>6, <1>7, <4>1
      <4> QED
        BY <1>5, <2>3, <4>2, <4>3
    <3> QED
      BY <3>1, <3>2
  <2> QED
    BY <1>8, <2>2, <2>3, <2>4
<1>12. ASSUME NEW k \in 1..n
       PROVE  /\ StandsAt(query, at[k], pairs[k].key, pairs[k].value)
              /\ at[k + 1] = IF at[k] + l(k) = m THEN at[k] + l(k) ELSE at[k] + l(k) + 1
  <2>1. \A j \in 1..l(k) : query[at[k] + j] = p(k)[j]
    BY <1>7, <1>8
  <2>2. CASE k = n
    <3>1. at[k] + l(k) = m /\ at[k + 1] = m
      BY <1>5, <1>8, <1>10, <2>2
    <3>2. m \in Nat /\ at[k] \in Nat /\ at[k] + l(k) <= m
      BY <1>8, <1>10, <3>1
    <3>3. StandsAt(query, at[k], pairs[k].key, pairs[k].value)
      BY <2>1, <3>1, <3>2 DEF StandsAt, p, l, m
    <3> QED
      BY <3>1, <3>3
  <2>3. CASE k # n
    <3>1. /\ at[k + 1] = at[k] + l(k) + 1 /\ at[k] + l(k) < m
          /\ query[at[k] + l(k) + 1] = "&"
      BY <1>10, <1>11, <2>3
    <3>2. l(k) \in Nat /\ at[k] \in Nat
      BY <1>6, <1>10
    <3>3. at[k] + l(k) <= m /\ at[k] + l(k) # m
      BY <1>8, <3>1, <3>2
    <3>4. StandsAt(query, at[k], pairs[k].key, pairs[k].value)
      BY <2>1, <3>1, <3>2, <3>3 DEF StandsAt, p, l, m
    <3> QED
      BY <3>1, <3>3, <3>4
  <2> QED
    BY <2>2, <2>3
<1>13. ASSUME NEW k \in 1..n
       PROVE  LET e == at[k] + Len(pairs[k].key) + 1 + Len(pairs[k].value)
              IN  at[k] + l(k) = e
  <2> DEFINE key == pairs[k].key
             value == pairs[k].value
             a == Len(key)
             b == Len(value)
  <2>1. key \in Plain /\ value \in Plain /\ at[k] \in Nat
    BY <1>3, <1>10
  <2>2. a \in Nat /\ b \in Nat
    BY <2>1 DEF Plain
  <2>3. l(k) = a + 1 + b
    BY DEF l
  <2> HIDE DEF a, b
  <2>4. at[k] + l(k) = at[k] + a + 1 + b
    BY <2>1, <2>2, <2>3
  <2> QED
    BY <2>4 DEF a, b
<1>14. AreAt(at, query, pairs)
  BY <1>3, <1>8, <1>9, <1>12, <1>13 DEF AreAt, n, m
<1> QED
  BY <1>14 DEF query

\* What toString wrote of a list of pairs is read as these pairs.
LEMMA JoinedAreRead ==
    ASSUME NEW pairs \in Seq(PairOfTexts)
    PROVE  PairsFrom(Joined(pairs))[0] = pairs
<1> DEFINE n == Len(pairs)
           query == Joined(pairs)
<1>1. n \in Nat /\ query \in Seq(Token) /\ Len(query) \in Nat
  BY JoinedType
<1>2. PICK at : AreAt(at, query, pairs)
  BY JoinedPlaces
<1> HIDE DEF query
<1> DEFINE S == {k \in 1..(n + 1) : PairsFrom(query)[at[k]] = SubSeq(pairs, k, n)}
<1>3. /\ at \in [1..(n + 1) -> Nat] /\ at[1] = 0 /\ at[n + 1] = Len(query)
      /\ \A k \in 1..n :
            /\ pairs[k].key \in Plain /\ pairs[k].value \in Plain
            /\ StandsAt(query, at[k], pairs[k].key, pairs[k].value)
  BY <1>2 DEF AreAt
<1>4. n + 1 \in S
  <2>1. ~Matches(query, Len(query)) /\ Len(query) \in 0..Len(query)
    BY <1>1 DEF Matches
  <2>2. PairsFrom(query)[Len(query)] = <<>>
    BY <1>1, <2>1, PairsFromSolves
  <2>3. SubSeq(pairs, n + 1, n) = <<>>
    BY <1>1, SubSeqEmpty
  <2>4. n + 1 \in 1..(n + 1)
    BY <1>1
  <2> HIDE DEF n
  <2> QED
    BY <1>3, <2>2, <2>3, <2>4
<1>5. ASSUME NEW i \in (1 + 1)..(n + 1), i \in S PROVE i - 1 \in S
  <2> DEFINE k == i - 1
             key == pairs[k].key
             value == pairs[k].value
  <2>1. k \in 1..n /\ k + 1 = i /\ k \in 1..(n + 1)
    BY <1>1
  <2>2. key \in Plain /\ value \in Plain /\ StandsAt(query, at[k], key, value)
    BY <1>3, <2>1
  <2>3. /\ Matches(query, at[k])
        /\ Match(query, at[k]).key = key /\ Match(query, at[k]).value = value
        /\ Match(query, at[k]).next = at[i]
    <3>1. at[k + 1] = IF at[k] + Len(key) + 1 + Len(value) = Len(query)
                      THEN at[k] + Len(key) + 1 + Len(value)
                      ELSE at[k] + Len(key) + 1 + Len(value) + 1
      BY <1>2, <2>1 DEF AreAt
    <3> HIDE DEF k, key, value
    <3>2. /\ Matches(query, at[k])
          /\ Match(query, at[k]).key = key /\ Match(query, at[k]).value = value
          /\ Match(query, at[k]).next = IF at[k] + Len(key) + 1 + Len(value) = Len(query)
                                        THEN at[k] + Len(key) + 1 + Len(value)
                                        ELSE at[k] + Len(key) + 1 + Len(value) + 1
      BY <1>1, <2>2, MatchWritten
    <3> QED
      BY <2>1, <3>1, <3>2
  <2>4. at[k] \in 0..Len(query)
    <3>1. at[k] \in Nat /\ at[k] + (Len(key) + 1 + Len(value)) <= Len(query)
      BY <2>2 DEF StandsAt
    <3>2. Len(key) \in Nat /\ Len(value) \in Nat
      BY <2>2 DEF Plain
    <3> HIDE DEF k, key, value
    <3> QED
      BY <1>1, <3>1, <3>2
  <2>5. PairsFrom(query)[at[k]] = <<[key |-> key, value |-> value]>> \o PairsFrom(query)[at[i]]
    <3> HIDE DEF k, key, value
    <3> QED
      BY <1>1, <2>3, <2>4, PairsFromSolves
  <2>6. [key |-> key, value |-> value] = pairs[k]
    <3>1. pairs[k] \in PairOfTexts
      BY <2>1
    <3> QED
      BY <3>1 DEF PairOfTexts
  <2>7. SubSeq(pairs, k, n) = <<pairs[k]>> \o SubSeq(pairs, k + 1, n)
    <3>1. k \in 1..Len(pairs) /\ n \in k..Len(pairs)
      BY <1>1, <2>1
    <3> HIDE DEF k, n
    <3> QED
      BY <3>1, SubSeqRecursiveFirst
  <2> HIDE DEF k, n, key, value
  <2>8. PairsFrom(query)[at[k]] = SubSeq(pairs, k, n)
    BY <1>5, <2>1, <2>5, <2>6, <2>7
  <2>9. k \in S
    BY <2>1, <2>8
  <2> QED
    BY <2>9 DEF k
<1>6. 1 \in S
  <2>1. n + 1 \in Nat /\ 1 \in 1..(n + 1)
    BY <1>1
  <2> HIDE DEF S, n
  <2>2. 1..(n + 1) \subseteq S
    BY <1>4, <1>5, <2>1, InductionDown
  <2> QED
    BY <2>1, <2>2
<1>7. SubSeq(pairs, 1, n) = pairs
  BY SubSeqFull
<1> QED
  BY <1>3, <1>6, <1>7 DEF query

\* What is written of options means these options.
THEOREM WrittenOptionsAreMeant ==
    ASSUME NEW options, IsOptions(options)
    PROVE  Meaning(Joined(Listed(options))) = options
<1>1. Listed(options) \in Seq(PairOfTexts)
  BY ListedType
<1>2. PairsFrom(Joined(Listed(options)))[0] = Listed(options)
  BY <1>1, JoinedAreRead
<1> QED
  BY <1>2, ListedAreGrouped DEF Meaning

\* Without options nothing is written.
LEMMA NothingWritten == Joined(Listed(<<>>)) = <<>>
<1> DEFINE options == <<>>
           pairs == Listed(options)
           query == Joined(pairs)
<1>1. IsOptions(options) /\ DOMAIN options = {}
  BY NoOptions
<1> HIDE DEF options
<1>2. SetToSeq(DOMAIN options) = <<>>
  <2>1. SetToSeq({}) \in Seq({})
    BY FS_EmptySet, SetToSeqIsList
  <2> QED
    BY <1>1, <2>1
<1>3. pairs \in Seq(PairOfTexts)
  BY <1>1, ListedType
<1>4. PICK end : Blocks(options, <<>>, pairs, end)
  BY <1>1, <1>2, ListedBlocks
<1> HIDE DEF pairs
<1>5. Len(pairs) = 0
  <2>1. \A n \in 1..Len(pairs) : FALSE
    BY <1>4 DEF Blocks
  <2>2. Len(pairs) \in Nat
    BY <1>3
  <2> QED
    BY <2>1, <2>2
<1>6. query \in Seq(Token) /\ Len(query) = 0
  <2>1. PICK at : AreAt(at, query, pairs)
    BY <1>3, JoinedPlaces
  <2>2. at[1] = 0 /\ at[0 + 1] = Len(query)
    BY <1>5, <2>1 DEF AreAt
  <2>3. query \in Seq(Token)
    BY <1>3, JoinedType
  <2> QED
    BY <2>2, <2>3
<1>7. query = <<>>
  <2> HIDE DEF query
  <2> QED
    BY <1>6, EmptySeq
<1> QED
  BY <1>7 DEF options, pairs

\* A port that is not written is read as 0, and 0 is not written.
LEMMA HostsAreRead ==
    ASSUME NEW hosts \in Seq(Host)
    PROVE  HostsOf([i \in DOMAIN hosts |-> WrittenHost(hosts[i])]) = hosts
<1> DEFINE texts == [i \in DOMAIN hosts |-> WrittenHost(hosts[i])]
<1>1. ASSUME NEW i \in DOMAIN hosts
      PROVE  [texts[i] EXCEPT !.port = IF @ = NoPort THEN 0 ELSE @] = hosts[i]
  <2>1. hosts[i] \in Host
    OBVIOUS
  <2>2. texts[i] = WrittenHost(hosts[i])
    OBVIOUS
  <2>3. ASSUME NEW host \in Host, NEW t, t = WrittenHost(host)
        PROVE  [t EXCEPT !.port = IF @ = NoPort THEN 0 ELSE @] = host
    <3>1. CASE host.port = 0
      BY <2>3, <3>1 DEF Host, WrittenHost, NoPort
    <3>2. CASE host.port # 0
      <4>1. host.port \in Nat /\ host.port # NoPort
        BY DEF Host, NoPort
      <4>2. host = [name |-> host.name, port |-> host.port]
        BY DEF Host
      <4>3. t = host
        BY <2>3, <3>2, <4>2 DEF WrittenHost
      <4> QED
        BY <4>1, <4>2, <4>3
    <3> QED
      BY <3>1, <3>2
  <2> HIDE DEF texts
  <2> QED
    BY <2>1, <2>2, <2>3
<1>2. DOMAIN texts = DOMAIN hosts
  OBVIOUS
<1>3. HostsOf(texts) =
          [i \in DOMAIN texts |-> [texts[i] EXCEPT !.port = IF @ = NoPort THEN 0 ELSE @]]
  BY DEF HostsOf
<1> HIDE DEF texts
<1>4. HostsOf(texts) = [i \in DOMAIN hosts |-> hosts[i]]
  BY <1>1, <1>2, <1>3
<1> QED
  BY <1>4 DEF texts

-----------------------------------------------------------------------------
(* RoundTrip *)

\* While a written string is parsed, and after: what it was written from is a
\* ConnSpec under the core's names, the matcher was at its start unless there was
\* nothing to match, and hosts and bucket are the written ones.
FromWritten ==
    written # NoSpec =>
        /\ IsSpec(written) /\ <<"srv">> \notin DOMAIN written.options
        /\ text.query = Joined(Listed(written.options))
        /\ text.query # <<>> => startedAt = 0
        /\ phase = "parsing" \/ outcome = "spec" =>
               spec.hosts = written.hosts /\ spec.bucket = written.bucket

\* A string without options gives none, and is not matched at all.
NoOptionsOfNone ==
    /\ phase = "parsing" => text.query # <<>>
    /\ phase = "idle" /\ outcome = "spec" /\ text.query = <<>> => spec.options = <<>>

WriteInv == FromWritten /\ NoOptionsOfNone

LEMMA WriteInvIsEnough == TypeInv /\ ParseIsComplete /\ WriteInv => RoundTrip
<1> SUFFICES ASSUME TypeInv, ParseIsComplete, WriteInv,
                    outcome = "spec", phase = "idle", written # NoSpec
             PROVE  spec = written
  BY DEF RoundTrip
<1>1. /\ IsSpec(written) /\ <<"srv">> \notin DOMAIN written.options
      /\ text.query = Joined(Listed(written.options))
      /\ text.query # <<>> => startedAt = 0
      /\ spec.hosts = written.hosts /\ spec.bucket = written.bucket
  BY DEF WriteInv, FromWritten
<1>2. Meaning(text.query) = written.options
  BY <1>1, WrittenOptionsAreMeant DEF IsSpec
<1>3. spec.options = written.options
  <2>1. CASE text.query # <<>>
    BY <1>1, <1>2, <2>1 DEF ParseIsComplete, Translated
  <2>2. CASE text.query = <<>>
    BY <1>2, <2>2, EmptyMeaning DEF WriteInv, NoOptionsOfNone
  <2> QED
    BY <2>1, <2>2
<1> QED
  BY <1>1, <1>3 DEF TypeInv, IsSpec

\* toString loses nothing: the ConnSpec that the core parses from the string that
\* _connect hands it (lib/cluster.ts:509) is the one the application's string gave.
THEOREM NothingIsLost == Spec => []RoundTrip
<1>1. Init => WriteInv
  BY DEF Init, WriteInv, FromWritten, NoOptionsOfNone
<1>2. TypeInv /\ MatcherIsReset /\ WriteInv /\ [Next]_vars => WriteInv'
  <2> SUFFICES ASSUME TypeInv, MatcherIsReset, FromWritten, NoOptionsOfNone, [Next]_vars
               PROVE  WriteInv'
    BY DEF WriteInv
  <2>1. ASSUME NEW t, NEW from, Parse(t, from) PROVE NoOptionsOfNone'
    <3>1. text' = t
      BY <2>1 DEF Parse
    <3>2. CASE Throw
      BY <3>2 DEF Throw, NoOptionsOfNone
    <3>3. CASE phase' = "idle" /\ spec'.options = <<>>
      BY <3>3 DEF NoOptionsOfNone
    <3>4. CASE phase' = "parsing" /\ t.query # <<>>
      BY <3>1, <3>4 DEF NoOptionsOfNone
    <3>5. CASE t = Blank /\ Return(DefaultSpec)
      BY <3>3, <3>5 DEF Return, DefaultSpec
    <3> QED
      BY <2>1, <3>2, <3>3, <3>4, <3>5 DEF Parse, Return
  <2>2. ASSUME NEW t \in Texts, Parse(t, NoSpec) PROVE WriteInv'
    BY <2>1, <2>2 DEF Parse, WriteInv, FromWritten
  <2>3. CASE ParseWritten
    <3>1. Parse(Stringify, spec) /\ phase = "idle" /\ outcome = "spec"
      BY <2>3 DEF ParseWritten, Parse
    <3>2. /\ text' = Stringify /\ written' = spec
          /\ startedAt' = lastIndex
      BY <3>1 DEF Parse
    <3>3. /\ Stringify.hosts = [i \in DOMAIN spec.hosts |-> WrittenHost(spec.hosts[i])]
          /\ Stringify.bucket = spec.bucket /\ Stringify.query = Joined(Listed(spec.options))
      BY DEF Stringify
    <3>4. IsSpec(spec) /\ <<"srv">> \notin DOMAIN spec.options
      BY <3>1 DEF TypeInv
    <3>5. spec'.hosts = spec.hosts /\ spec'.bucket = spec.bucket
      <4>1. Stringify # Blank /\ Stringify.scheme = "couchbases" /\ Stringify.hostPart
        BY DEF Stringify, Blank
      <4> DEFINE start == [hosts |-> HostsOf(Stringify.hosts), bucket |-> Stringify.bucket,
                           options |-> <<>>]
      <4>2. spec' = start
        BY <3>1, <4>1 DEF Parse, Return
      <4>3. HostsOf(Stringify.hosts) = spec.hosts
        BY <3>3, <3>4, HostsAreRead DEF IsSpec
      <4> QED
        BY <3>3, <4>2, <4>3
    <3>6. text'.query # <<>> => startedAt' = 0
      <4>1. CASE text.query # <<>>
        BY <3>1, <3>2, <4>1 DEF MatcherIsReset
      <4>2. CASE text.query = <<>>
        BY <3>1, <3>2, <3>3, <4>2, NothingWritten DEF NoOptionsOfNone
      <4> QED
        BY <4>1, <4>2
    <3>7. FromWritten'
      BY <3>2, <3>3, <3>4, <3>5, <3>6 DEF FromWritten
    <3> QED
      BY <2>1, <3>1, <3>7 DEF WriteInv
  <2>4. CASE WriteRefused
    BY <2>4 DEF WriteRefused, Throw, WriteInv, FromWritten, NoOptionsOfNone
  <2>5. CASE Option
    <3>1. spec'.hosts = spec.hosts /\ spec'.bucket = spec.bucket
      BY <2>5 DEF Option, TypeInv, IsSpec
    <3> QED
      BY <2>5, <3>1 DEF Option, WriteInv, FromWritten, NoOptionsOfNone
  <2>6. CASE InheritedOption
    BY <2>6 DEF InheritedOption, Throw, WriteInv, FromWritten, NoOptionsOfNone
  <2>7. CASE OptionsEnd
    <3>1. spec'.hosts = spec.hosts /\ spec'.bucket = spec.bucket
      BY <2>7 DEF OptionsEnd, Return, TypeInv, IsSpec
    <3> QED
      BY <2>7, <3>1 DEF OptionsEnd, Return, WriteInv, FromWritten, NoOptionsOfNone
  <2>8. CASE UNCHANGED vars
    BY <2>8 DEF vars, WriteInv, FromWritten, NoOptionsOfNone
  <2> QED
    BY <2>2, <2>3, <2>4, <2>5, <2>6, <2>7, <2>8 DEF Next
<1> QED
  BY <1>1, <1>2, TypeInvHolds, MatcherStartsAnew, EveryOptionIsParsed, WriteInvIsEnough,
     PTL DEF Spec
=============================================================================
