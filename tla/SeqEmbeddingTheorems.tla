------------------------ MODULE SeqEmbeddingTheorems ------------------------
(***************************************************************************)
(* Facts about embeddings, cited by the proofs about the journal.          *)
(***************************************************************************)
EXTENDS SeqEmbedding, TLAPS

\* A prefix embeds: the identity is an embedding.
LEMMA PrefixEmbeds ==
    ASSUME NEW S, NEW s \in Seq(S), NEW t \in Seq(S), StartsWith(t, s)
    PROVE  Embeds(s, t)
<1> DEFINE f == [i \in 1 .. Len(s) |-> i]
<1>1. f \in [1 .. Len(s) -> 1 .. Len(t)]
  BY DEF StartsWith
<1>2. IsEmbedding(f, s, t)
  BY <1>1 DEF IsEmbedding, StartsWith
<1> QED
  BY <1>1, <1>2 DEF Embeds

\* What embeds still embeds when the journal grows.
LEMMA EmbedsInLonger ==
    ASSUME NEW S, NEW s \in Seq(S), NEW t \in Seq(S), NEW e \in S,
           Embeds(s, t)
    PROVE  Embeds(s, Append(t, e))
<1>1. PICK f \in [1 .. Len(s) -> 1 .. Len(t)] : IsEmbedding(f, s, t)
  BY DEF Embeds
<1>2. Len(Append(t, e)) = Len(t) + 1
  OBVIOUS
<1>3. f \in [1 .. Len(s) -> 1 .. Len(Append(t, e))]
  BY <1>1, <1>2
<1>4. \A i \in 1 .. Len(t) : Append(t, e)[i] = t[i]
  OBVIOUS
<1>5. IsEmbedding(f, s, Append(t, e))
  BY <1>1, <1>3, <1>4 DEF IsEmbedding
<1> QED
  BY <1>3, <1>5 DEF Embeds

\* Both sequences may grow by the same element.
LEMMA EmbedsBothGrow ==
    ASSUME NEW S, NEW s \in Seq(S), NEW t \in Seq(S), NEW e \in S,
           Embeds(s, t)
    PROVE  Embeds(Append(s, e), Append(t, e))
<1>1. PICK f \in [1 .. Len(s) -> 1 .. Len(t)] : IsEmbedding(f, s, t)
  BY DEF Embeds
<1> DEFINE s1 == Append(s, e)
           t1 == Append(t, e)
           g  == [i \in 1 .. Len(s1) |->
                    IF i = Len(s1) THEN Len(t1) ELSE f[i]]
<1>2. /\ Len(s1) = Len(s) + 1 /\ Len(t1) = Len(t) + 1
      /\ Len(s) \in Nat /\ Len(t) \in Nat
      /\ \A i \in 1 .. Len(s) : s1[i] = s[i]
      /\ \A i \in 1 .. Len(t) : t1[i] = t[i]
      /\ s1[Len(s1)] = e /\ t1[Len(t1)] = e
  OBVIOUS
<1> HIDE DEF s1, t1
<1>3. \A i \in 1 .. Len(s) : f[i] \in 1 .. Len(t) /\ f[i] < Len(t1)
  BY <1>1, <1>2
<1>4. g \in [1 .. Len(s1) -> 1 .. Len(t1)]
  BY <1>2, <1>3
<1>5. ASSUME NEW i \in 1 .. Len(s1), NEW j \in 1 .. Len(s1), i < j
      PROVE  g[i] < g[j]
  <2>1. i \in 1 .. Len(s) /\ g[i] = f[i]
    BY <1>2, <1>5
  <2>2. CASE j = Len(s1)
    BY <2>1, <2>2, <1>3
  <2>3. CASE j # Len(s1)
    <3>1. j \in 1 .. Len(s) /\ g[j] = f[j]
      BY <2>3, <1>2
    <3> QED
      BY <2>1, <3>1, <1>1, <1>5 DEF IsEmbedding
  <2> QED
    BY <2>2, <2>3
<1>6. ASSUME NEW i \in 1 .. Len(s1)
      PROVE  s1[i] = t1[g[i]]
  <2>1. CASE i = Len(s1)
    BY <2>1, <1>2
  <2>2. CASE i # Len(s1)
    <3>1. i \in 1 .. Len(s) /\ g[i] = f[i]
      BY <2>2, <1>2
    <3> QED
      BY <3>1, <1>1, <1>2, <1>3 DEF IsEmbedding
  <2> QED
    BY <2>1, <2>2
<1>7. IsEmbedding(g, s1, t1)
  BY <1>4, <1>5, <1>6 DEF IsEmbedding
<1> QED
  BY <1>4, <1>7 DEF Embeds, s1, t1

\* What fits after s already has s in it.
LEMMA EmbedsShorter ==
    ASSUME NEW S, NEW s \in Seq(S), NEW t \in Seq(S), NEW e \in S,
           Embeds(Append(s, e), t)
    PROVE  Embeds(s, t)
<1> DEFINE s1 == Append(s, e)
<1>1. /\ Len(s1) = Len(s) + 1 /\ Len(s) \in Nat
      /\ \A i \in 1 .. Len(s) : s1[i] = s[i]
  OBVIOUS
<1> HIDE DEF s1
<1>2. PICK f \in [1 .. Len(s1) -> 1 .. Len(t)] : IsEmbedding(f, s1, t)
  BY DEF Embeds, s1
<1> DEFINE g == [i \in 1 .. Len(s) |-> f[i]]
<1>3. g \in [1 .. Len(s) -> 1 .. Len(t)]
  BY <1>1, <1>2
<1>4. IsEmbedding(g, s, t)
  BY <1>1, <1>2, <1>3 DEF IsEmbedding
<1> QED
  BY <1>3, <1>4 DEF Embeds
=============================================================================
