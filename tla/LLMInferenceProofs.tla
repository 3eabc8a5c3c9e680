------------------------- MODULE LLMInferenceProofs -------------------------
(***************************************************************************)
(* Proofs about LLMInference.  Its texts are sequences of tokens and of    *)
(* bytes that FlattenSeq and the recursive function of IsValidUtf8 run     *)
(* over.  The first part shows what those compute, by induction with the   *)
(* least counterexample; the rest is about the completions.                *)
(***************************************************************************)
EXTENDS LLMInference, SequenceTheorems, WellFoundedInduction, TLAPS

-----------------------------------------------------------------------------
(* Induction, and FlattenSeq *)

\* A set of naturals has a least element.
LEMMA LeastNat ==
  ASSUME NEW T, T \subseteq Nat, T # {}
  PROVE  \E m \in T : \A n \in T : m <= n
<1>1. PICK m \in T : \A n \in T : ~ (<<n, m>> \in OpToRel(<, Nat))
  BY NatLessThanWellFounded, WFMin
<1>2. \A n \in T : ~(n < m)
  BY <1>1 DEF OpToRel
<1>. QED BY <1>2

\* Induction over the naturals, with a set in the place of a predicate.
LEMMA SetInduction ==
  ASSUME NEW S, 0 \in S, \A n \in Nat : n \in S => n + 1 \in S
  PROVE  Nat \subseteq S
<1>. SUFFICES ASSUME Nat \ S # {} PROVE FALSE
  OBVIOUS
<1>1. PICK m \in Nat \ S : \A n \in Nat \ S : m <= n
  BY LeastNat
<1>2. m # 0 /\ m - 1 \in Nat
  BY <1>1
<1>3. m - 1 \in S
  BY <1>1, <1>2
<1>4. (m - 1) + 1 \in S
  BY <1>2, <1>3
<1>. QED BY <1>1, <1>2, <1>4

\* f[i] is the concatenation of the first i of n sequences: what FlattenSeq
\* computes.
Flat(s, f, n) == f = [i \in 1..n |-> IF i = 1 THEN s[i] ELSE f[i-1] \o s[i]]

\* The value of such an f at a place.
LEMMA FlatAt ==
  ASSUME NEW s, NEW f, NEW n \in Nat, Flat(s, f, n), NEW i \in 1..n
  PROVE  f[i] = IF i = 1 THEN s[i] ELSE f[i-1] \o s[i]
BY DEF Flat

\* There is such an f.
LEMMA FlatExists ==
  ASSUME NEW s, NEW n \in Nat
  PROVE  \E f : Flat(s, f, n)
<1>. DEFINE S == {m \in Nat : \E f : Flat(s, f, m)}
<1>1. 0 \in S
  <2>1. 1..0 = {}
    OBVIOUS
  <2>. DEFINE e == [i \in 1..0 |-> s[i]]
  <2>2. e = [i \in 1..0 |-> IF i = 1 THEN s[i] ELSE e[i-1] \o s[i]]
    BY <2>1
  <2>. QED BY <2>2 DEF Flat
<1>2. ASSUME NEW m \in Nat, m \in S PROVE m + 1 \in S
  <2>2. PICK f : Flat(s, f, m)
    BY <1>2
  <2>. DEFINE g == [i \in 1..(m+1) |->
                      IF i = 1 THEN s[i] ELSE IF i = m + 1 THEN f[m] \o s[i] ELSE f[i]]
  <2>3. ASSUME NEW i \in 1..(m+1) PROVE g[i] = IF i = 1 THEN s[i] ELSE g[i-1] \o s[i]
    <3>1. CASE i = 1
      BY <3>1
    <3>2. CASE i # 1 /\ i = m + 1
      <4>1. g[i] = f[m] \o s[i]
        BY <3>2
      <4>2. i - 1 = m /\ m \in 1..m /\ m # m + 1 /\ m \in 1..(m+1)
        BY <3>2
      <4>3. m = 1 => f[m] = s[m]
        BY <2>2, <4>2 DEF Flat
      <4>4. g[m] = f[m]
        BY <4>2, <4>3
      <4>. QED BY <3>2, <4>1, <4>2, <4>4
    <3>3. CASE i # 1 /\ i # m + 1
      <4>1. i \in 1..m /\ i - 1 \in 1..m /\ i - 1 # m + 1 /\ i - 1 \in 1..(m+1) /\ 1 \in 1..m
        BY <3>3
      <4>2. g[i] = f[i] /\ f[i] = f[i-1] \o s[i]
        BY <2>2, <3>3, <4>1 DEF Flat
      <4>3. g[i-1] = f[i-1]
        <5>1. f[1] = s[1]
          BY <2>2, <4>1 DEF Flat
        <5>. QED BY <4>1, <5>1
      <4>. QED BY <3>3, <4>2, <4>3
    <3>. QED BY <3>1, <3>2, <3>3
  <2>. HIDE DEF g
  <2>4. g = [i \in 1..(m+1) |-> IF i = 1 THEN s[i] ELSE g[i-1] \o s[i]]
    <3>1. g = [i \in 1..(m+1) |-> g[i]]
      BY DEF g
    <3>. QED BY <2>3, <3>1
  <2>5. Flat(s, g, m + 1)
    BY <2>4 DEF Flat
  <2>. QED BY <2>5
<1>. HIDE DEF S
<1>3. Nat \subseteq S
  BY <1>1, <1>2, SetInduction
<1>. QED BY <1>3 DEF S

\* It depends on the first sequences only.
LEMMA FlatUnique ==
  ASSUME NEW s, NEW u, NEW m \in Nat, NEW n \in Nat, m <= n, NEW f, NEW g,
         Flat(s, f, m), Flat(u, g, n), \A i \in 1..m : s[i] = u[i]
  PROVE  \A i \in 1..m : f[i] = g[i]
<1>. DEFINE S == {k \in Nat : k \in 1..m => f[k] = g[k]}
<1>1. 0 \in S
  OBVIOUS
<1>2. ASSUME NEW k \in Nat, k \in S PROVE k + 1 \in S
  <2>. SUFFICES ASSUME k + 1 \in 1..m PROVE f[k + 1] = g[k + 1]
    OBVIOUS
  <2>1. k + 1 \in 1..n /\ (k + 1) - 1 = k /\ s[k + 1] = u[k + 1]
    OBVIOUS
  <2>2. f[k + 1] = IF k + 1 = 1 THEN s[k + 1] ELSE f[k] \o s[k + 1]
    BY <2>1, FlatAt
  <2>3. g[k + 1] = IF k + 1 = 1 THEN u[k + 1] ELSE g[k] \o u[k + 1]
    BY <2>1, FlatAt
  <2>4. k + 1 # 1 => f[k] = g[k]
    BY <1>2
  <2>. QED BY <2>1, <2>2, <2>3, <2>4
<1>. HIDE DEF S
<1>3. Nat \subseteq S
  BY <1>1, <1>2, SetInduction
<1>. QED BY <1>3 DEF S

\* FlattenSeq is the last element of one.
LEMMA FlattenIs ==
  ASSUME NEW s, Len(s) \in Nat \ {0}
  PROVE  \E f : Flat(s, f, Len(s)) /\ FlattenSeq(s) = f[Len(s)]
<1>. DEFINE f == CHOOSE f : f = [i \in 1..Len(s) |-> IF i = 1 THEN s[i] ELSE f[i-1] \o s[i]]
<1>1. f = [i \in 1..Len(s) |-> IF i = 1 THEN s[i] ELSE f[i-1] \o s[i]]
  BY FlatExists DEF Flat
<1>2. FlattenSeq(s) = f[Len(s)]
  BY DEF FlattenSeq
<1>. HIDE DEF f
<1>. QED BY <1>1, <1>2 DEF Flat

\* Flattening keeps the type.
LEMMA FlattenType ==
  ASSUME NEW X, NEW s \in Seq(Seq(X))
  PROVE  FlattenSeq(s) \in Seq(X)
<1>1. CASE Len(s) = 0
  BY <1>1 DEF FlattenSeq
<1>2. CASE Len(s) # 0
  <2>0. Len(s) \in Nat \ {0} /\ \A i \in 1..Len(s) : s[i] \in Seq(X)
    BY <1>2
  <2>1. PICK f : Flat(s, f, Len(s)) /\ FlattenSeq(s) = f[Len(s)]
    BY <2>0, FlattenIs
  <2>. DEFINE S == {k \in Nat : k \in 1..Len(s) => f[k] \in Seq(X)}
  <2>2. 0 \in S
    OBVIOUS
  <2>3. ASSUME NEW k \in Nat, k \in S PROVE k + 1 \in S
    <3>. SUFFICES ASSUME k + 1 \in 1..Len(s) PROVE f[k + 1] \in Seq(X)
      OBVIOUS
    <3>1. f[k + 1] = IF k + 1 = 1 THEN s[k + 1] ELSE f[(k + 1) - 1] \o s[k + 1]
      BY <2>0, <2>1, FlatAt
    <3>2. (k + 1) - 1 = k /\ s[k + 1] \in Seq(X)
      BY <2>0
    <3>3. k + 1 # 1 => f[k] \in Seq(X)
      BY <2>0, <2>3
    <3>4. CASE k + 1 = 1
      BY <3>1, <3>2, <3>4
    <3>5. CASE k + 1 # 1
      BY <3>1, <3>2, <3>3, <3>5, ConcatProperties
    <3>. QED BY <3>4, <3>5
  <2>. HIDE DEF S
  <2>4. Nat \subseteq S
    BY <2>2, <2>3, SetInduction
  <2>. QED BY <2>0, <2>1, <2>4 DEF S
<1>. QED BY <1>1, <1>2

\* Flattening one sequence more.
LEMMA FlattenAppend ==
  ASSUME NEW X, NEW s, s \in Seq(Seq(X)), NEW e \in Seq(X)
  PROVE  FlattenSeq(Append(s, e)) = FlattenSeq(s) \o e
<1>. DEFINE u == Append(s, e)
<1>0. /\ u \in Seq(Seq(X)) /\ Len(u) = Len(s) + 1 /\ Len(u) \in Nat \ {0}
      /\ u[Len(u)] = e /\ \A i \in 1..Len(s) : s[i] = u[i]
      /\ Len(s) \in Nat /\ Len(s) <= Len(u) /\ Len(u) \in 1..Len(u)
  BY AppendProperties, LenProperties
<1>. HIDE DEF u
<1>1. PICK g : Flat(u, g, Len(u)) /\ FlattenSeq(u) = g[Len(u)]
  BY <1>0, FlattenIs
<1>2. g[Len(u)] = IF Len(u) = 1 THEN u[Len(u)] ELSE g[Len(u) - 1] \o u[Len(u)]
  BY <1>0, <1>1, FlatAt
<1>3. CASE Len(s) = 0
  <2>1. FlattenSeq(s) = <<>>
    BY <1>3, EmptySeq DEF FlattenSeq
  <2>2. <<>> \o e = e
    BY ConcatEmptySeq
  <2>. QED BY <1>0, <1>1, <1>2, <1>3, <2>1, <2>2 DEF u
<1>4. CASE Len(s) # 0
  <2>1. Len(s) \in Nat \ {0}
    BY <1>0, <1>4
  <2>2. PICK f : Flat(s, f, Len(s)) /\ FlattenSeq(s) = f[Len(s)]
    BY <2>1, FlattenIs
  <2>3. \A i \in 1..Len(s) : f[i] = g[i]
    <3>1. /\ Len(s) \in Nat /\ Len(u) \in Nat /\ Len(s) <= Len(u)
          /\ \A i \in 1..Len(s) : s[i] = u[i]
      BY <1>0
    <3>2. Flat(s, f, Len(s)) /\ Flat(u, g, Len(u))
      BY <1>1, <2>2
    <3>. QED BY ONLY <3>1, <3>2, FlatUnique
  <2>4. f[Len(s)] = g[Len(s)] /\ Len(u) - 1 = Len(s) /\ Len(u) # 1
    BY <1>0, <2>1, <2>3
  <2>. QED BY <1>0, <1>1, <1>2, <2>2, <2>4 DEF u
<1>. QED BY <1>0, <1>3, <1>4

\* Concatenation is associative.
LEMMA Associative ==
  ASSUME NEW Y, NEW a \in Seq(Y), NEW b \in Seq(Y), NEW c \in Seq(Y)
  PROVE  (a \o b) \o c = a \o (b \o c)
OBVIOUS

\* To append is to append to the second part.
LEMMA ConcatAppend ==
  ASSUME NEW Y, NEW a \in Seq(Y), NEW b \in Seq(Y), NEW e \in Y
  PROVE  a \o Append(b, e) = Append(a \o b, e) /\ a \o b \in Seq(Y)
OBVIOUS

\* Flattening two sequences after one another.
LEMMA FlattenConcat ==
  ASSUME NEW X, NEW s \in Seq(Seq(X)), NEW u \in Seq(Seq(X))
  PROVE  FlattenSeq(s \o u) = FlattenSeq(s) \o FlattenSeq(u)
<1>. DEFINE S == {n \in Nat : \A v \in Seq(Seq(X)) : Len(v) = n =>
                     FlattenSeq(s \o v) = FlattenSeq(s) \o FlattenSeq(v)}
<1>1. 0 \in S
  <2>. SUFFICES ASSUME NEW v \in Seq(Seq(X)), Len(v) = 0
                PROVE  FlattenSeq(s \o v) = FlattenSeq(s) \o FlattenSeq(v)
    OBVIOUS
  <2>1. v = <<>>
    BY EmptySeq
  <2>2. FlattenSeq(v) = <<>>
    BY <2>1 DEF FlattenSeq
  <2>3. FlattenSeq(s) \in Seq(X)
    BY FlattenType
  <2>. QED BY <2>1, <2>2, <2>3, ConcatEmptySeq
<1>2. ASSUME NEW n \in Nat, n \in S PROVE n + 1 \in S
  <2>. SUFFICES ASSUME NEW v \in Seq(Seq(X)), Len(v) = n + 1
                PROVE  FlattenSeq(s \o v) = FlattenSeq(s) \o FlattenSeq(v)
    OBVIOUS
  <2>1. PICK w \in Seq(Seq(X)), e \in Seq(X) : v = Append(w, e)
    <3>1. v # <<>>
      BY EmptySeq
    <3>. QED BY <3>1, SequenceEmptyOrAppend
  <2>2. Len(w) = n
    BY <2>1, AppendProperties, LenProperties
  <2>3. FlattenSeq(s \o w) = FlattenSeq(s) \o FlattenSeq(w)
    BY <1>2, <2>2
  <2>4. s \o v = Append(s \o w, e) /\ s \o w \in Seq(Seq(X))
    BY <2>1, ConcatAppend
  <2>5. FlattenSeq(s \o v) = (FlattenSeq(s) \o FlattenSeq(w)) \o e
    <3>1. ASSUME NEW a, a \in Seq(Seq(X)) PROVE FlattenSeq(Append(a, e)) = FlattenSeq(a) \o e
      BY <3>1, FlattenAppend
    <3>2. FlattenSeq(Append(s \o w, e)) = FlattenSeq(s \o w) \o e
      BY <2>4, <3>1
    <3>. QED BY <2>3, <2>4, <3>2
  <2>6. FlattenSeq(v) = FlattenSeq(w) \o e
    BY <2>1, FlattenAppend
  <2>7. FlattenSeq(s) \in Seq(X) /\ FlattenSeq(w) \in Seq(X)
    BY FlattenType
  <2>8. ASSUME NEW a \in Seq(X), NEW b \in Seq(X)
        PROVE  (a \o b) \o e = a \o (b \o e)
    BY ONLY a \in Seq(X), b \in Seq(X), e \in Seq(X)
  <2>. QED BY <2>5, <2>6, <2>7, <2>8
<1>. HIDE DEF S
<1>3. Nat \subseteq S
  BY <1>1, <1>2, SetInduction
<1>4. Len(u) \in Nat
  BY LenProperties
<1>. QED BY <1>3, <1>4 DEF S

-----------------------------------------------------------------------------
(* Type correctness *)

\* A message of the chat, with its role.
Message == [role : Roles, text : Texts]

\* n_ctx is a natural number, and at least what was asked for.
LEMMA NCtxType ==
  ASSUME contextSize \in ContextSizes
  PROVE  NCtx \in Nat /\ contextSize \in Nat \ {0} /\ NCtx >= contextSize
<1>1. contextSize \in Nat \ {0} /\ Pad \in Nat \ {0}
  BY InferenceAssumption
<1>2. ASSUME NEW c \in Nat \ {0}, NEW p \in Nat \ {0}
      PROVE  ((c + p - 1) \div p) * p \in Nat /\ ((c + p - 1) \div p) * p >= c
  <2>. DEFINE q == (c + p - 1) \div p
  <2>1. q \in Nat /\ c + p - 1 < p * (q + 1)
    BY <1>2
  <2>2. p * (q + 1) = q * p + p /\ q * p \in Nat
    BY <2>1
  <2>. HIDE DEF q
  <2>3. q * p \in Nat /\ q * p >= c
    BY <2>1, <2>2
  <2>. QED BY <2>3 DEF q
<1>. QED BY <1>1, <1>2 DEF NCtx

\* The prompt of well-typed messages has a length.
LEMMA PromptType ==
  ASSUME NEW ms \in Seq(Message)
  PROVE  PromptTokens(ms) \in Nat
<1>. DEFINE Y == Queries \cup {Given} \cup Pieces \cup {"template"}
            s == [i \in DOMAIN ms |-> Append(ms[i].text, "template")]
<1>1. DOMAIN ms = 1..Len(ms) /\ Len(ms) \in Nat
  OBVIOUS
<1>2. ASSUME NEW i \in DOMAIN ms PROVE Append(ms[i].text, "template") \in Seq(Y)
  <2>1. ms[i].text \in Seq(Queries \cup {Given} \cup Pieces)
    <3>1. ms[i] \in Message
      OBVIOUS
    <3>. QED BY <3>1 DEF Message, Texts
  <2>2. ms[i].text \in Seq(Y)
    BY <2>1, SeqMonotonic
  <2>. QED BY <2>2
<1>3. s \in Seq(Seq(Y))
  <2>1. s \in [1..Len(ms) -> Seq(Y)]
    BY <1>1, <1>2
  <2>. HIDE DEF s, Y
  <2>. QED BY <1>1, <2>1, SeqDef
<1>. HIDE DEF s, Y
<1>4. FlattenSeq(s) \in Seq(Y)
  BY <1>3, FlattenType
<1>. QED BY <1>4 DEF PromptTokens, s

\* A message of the right type more.
LEMMA SaidType ==
  ASSUME TypeOK, NEW role \in Roles, NEW text \in Texts
  PROVE  /\ Said(role, text) \in Seq(Message)
         /\ Len(Said(role, text)) = Len(messages) + 1 /\ Len(messages) \in Nat
         /\ \A i \in 1..Len(messages) : Said(role, text)[i] = messages[i]
         /\ Said(role, text)[Len(messages) + 1] = [role |-> role, text |-> text]
<1>1. [role |-> role, text |-> text] \in Message
  BY DEF Message
<1>2. messages \in Seq(Message)
  BY DEF TypeOK, Message
<1>. QED BY <1>1, <1>2, AppendProperties, LenProperties DEF Said

\* The two outcomes of a piece.
PieceReturned(t) ==
  /\ IsValidUtf8(BytesOf(Append(cache, t)))
  /\ response' = response \o Append(cache, t)
  /\ delivered' = delivered \o Append(cache, t) /\ cache' = <<>>

\* The piece is kept back until its character is complete.
PieceKept(t) ==
  cache' = Append(cache, t) /\ response' = response /\ delivered' = delivered

\* There is no third outcome.
LEMMA PieceOutcome ==
  ASSUME NEW t, NextPiece(t)
  PROVE  PieceReturned(t) \/ PieceKept(t)
BY DEF NextPiece, PieceReturned, PieceKept

\* The state before the first load.
LEMMA InitTyped == Init => TypeOK
<1>. SUFFICES ASSUME Init PROVE TypeOK
  OBVIOUS
<1>1. NCtx \in Nat
  BY NCtxType DEF Init
<1>. QED BY <1>1, InferenceAssumption DEF Init, TypeOK

\* Every step keeps every variable in its type.
LEMMA TypeStep == TypeOK /\ [Next]_vars => TypeOK'
<1>. SUFFICES ASSUME TypeOK, [Next]_vars PROVE TypeOK'
  OBVIOUS
<1>0. /\ NCtx \in Nat /\ kv \in 0..NCtx /\ batch \in Nat
      /\ messages \in Seq(Message)
  BY NCtxType DEF TypeOK, Message
<1>1. contextSize' = contextSize => NCtx' = NCtx
  BY DEF NCtx
<1>2. CASE LoadModel
  BY <1>1, <1>2 DEF LoadModel, TypeOK
<1>3. CASE Close
  BY <1>1, <1>3 DEF Close, TypeOK
<1>4. CASE BenchModel
  BY <1>0, <1>1, <1>4 DEF BenchModel, TypeOK
<1>5. ASSUME NEW role \in Roles, AddChatMessage(role) PROVE TypeOK'
  <2>1. <<Given>> \in Texts
    BY DEF Texts
  <2>2. messages' \in Seq(Message)
    BY <1>5, <2>1, SaidType DEF AddChatMessage
  <2>. QED BY <1>1, <1>5, <2>2 DEF AddChatMessage, TypeOK, Message
<1>6. ASSUME NEW q \in Queries, StartCompletion(q) PROVE TypeOK'
  <2>1. <<q>> \in Texts /\ "user" \in Roles
    BY DEF Texts, Roles
  <2>2. messages' \in Seq(Message)
    BY <1>6, <2>1, SaidType DEF StartCompletion
  <2>3. batch' \in Nat
    BY <1>0, <1>6, <2>2, PromptType DEF StartCompletion
  <2>4. turns' \in 0..MaxTurns
    BY <1>6, InferenceAssumption DEF StartCompletion, TypeOK
  <2>. QED BY <1>1, <1>6, <2>2, <2>3, <2>4 DEF StartCompletion, TypeOK, Message
<1>7. CASE ContextReached
  BY <1>1, <1>7 DEF ContextReached, TypeOK
<1>8. CASE Abort
  BY <1>1, <1>8, InferenceAssumption DEF Abort, Slip, TypeOK
<1>9. CASE DecodeFails
  <2>1. kv' \in 0..NCtx
    BY <1>0, <1>9 DEF DecodeFails, Fits
  <2>. QED BY <1>1, <1>9, <2>1 DEF DecodeFails, TypeOK
<1>10. Decode => kv' \in 0..NCtx /\ slips' \in 0..MaxSlips
  BY <1>0, InferenceAssumption DEF Decode, Fits, Slip, TypeOK
<1>11. response \in Texts /\ "assistant" \in Roles
  <2>1. response \in Seq(Pieces)
    BY DEF TypeOK
  <2>. QED BY <2>1, SeqMonotonic DEF Texts, Roles
<1>12. CASE EndOfGeneration
  <2>1. messages' \in Seq(Message)
    BY <1>11, <1>12, SaidType DEF EndOfGeneration
  <2>. QED BY <1>1, <1>10, <1>12, <2>1 DEF EndOfGeneration, TypeOK, Message
<1>13. ASSUME NEW t \in Pieces, NextPiece(t) PROVE TypeOK'
  <2>1. Append(cache, t) \in Seq(Pieces) /\ response \in Seq(Pieces) /\ delivered \in Seq(Pieces)
    BY DEF TypeOK
  <2>2. /\ response' \in Seq(Pieces) /\ delivered' \in Seq(Pieces) /\ cache' \in Seq(Pieces)
        /\ generated' \in Seq(Pieces)
    <3>1. response \o Append(cache, t) \in Seq(Pieces) /\ delivered \o Append(cache, t) \in Seq(Pieces)
      BY <2>1, ConcatProperties
    <3>2. generated' \in Seq(Pieces)
      BY <1>13 DEF NextPiece, TypeOK
    <3>3. CASE PieceReturned(t)
      <4>1. <<>> \in Seq(Pieces)
        OBVIOUS
      <4>. QED BY <3>1, <3>2, <3>3, <4>1 DEF PieceReturned
    <3>4. CASE PieceKept(t)
      BY <2>1, <3>2, <3>4 DEF PieceKept
    <3>. QED BY <1>13, <3>3, <3>4, PieceOutcome
  <2>. QED BY <1>1, <1>10, <1>13, <2>2 DEF NextPiece, TypeOK
<1>14. CASE Cancel
  BY <1>1, <1>14 DEF Cancel, TypeOK
<1>15. CASE StopCompletion
  <2>1. messages' \in Seq(Message)
    BY <1>0, <1>11, <1>15, SaidType DEF StopCompletion
  <2>. QED BY <1>1, <1>15, <2>1 DEF StopCompletion, TypeOK, Message
<1>16. CASE UNCHANGED vars
  BY <1>1, <1>16 DEF vars, TypeOK
<1>. QED
  BY <1>2, <1>3, <1>4, <1>5, <1>6, <1>7, <1>8, <1>9, <1>12, <1>13, <1>14, <1>15,
     <1>16 DEF Next, CompletionStep

\* The object's state keeps its type: in particular the check of completionLoop
\* keeps the KV cache within n_ctx over any number of completions.
THEOREM TypeCorrect == Spec => []TypeOK
BY InitTyped, TypeStep, PTL DEF Spec

-----------------------------------------------------------------------------
(* The text of a reply *)

\* A piece moves the tokens of the cache, and its own, to what was delivered, or
\* adds itself to the cache.
LEMMA OrderStep == TypeOK /\ DeliveredInOrder /\ [Next]_vars => DeliveredInOrder'
<1>. SUFFICES ASSUME TypeOK, DeliveredInOrder, [Next]_vars PROVE DeliveredInOrder'
  OBVIOUS
<1>1. CASE UNCHANGED <<delivered, cache, generated>>
  BY <1>1 DEF DeliveredInOrder
<1>2. ASSUME NEW t \in Pieces, NextPiece(t) PROVE DeliveredInOrder'
  <2>1. /\ delivered \in Seq(Pieces) /\ cache \in Seq(Pieces)
        /\ delivered \o cache = generated /\ generated' = Append(generated, t)
    BY <1>2 DEF TypeOK, DeliveredInOrder, NextPiece
  <2>2. delivered \o Append(cache, t) = Append(delivered \o cache, t)
    BY <2>1, ConcatAppend
  <2>3. CASE PieceReturned(t)
    <3>1. delivered' = delivered \o Append(cache, t) /\ cache' = <<>>
      BY <2>3 DEF PieceReturned
    <3>2. delivered' \in Seq(Pieces)
      BY <2>1, <3>1
    <3>3. delivered' \o <<>> = delivered'
      BY <3>2, ConcatEmptySeq
    <3>. QED BY <2>1, <2>2, <3>1, <3>3 DEF DeliveredInOrder
  <2>4. CASE PieceKept(t)
    BY <2>1, <2>2, <2>4 DEF DeliveredInOrder, PieceKept
  <2>. QED BY <1>2, <2>3, <2>4, PieceOutcome
<1>. QED
  BY <1>1, <1>2
     DEF Next, CompletionStep, LoadModel, Close, BenchModel, AddChatMessage,
         StartCompletion, ContextReached, Abort, DecodeFails, EndOfGeneration,
         Cancel, StopCompletion, vars

\* Over any number of completions, whether they end, are cancelled or fail,
\* completionLoop returns the text of every token once and in order, but for what
\* is left in _cacheResponseTokens.
THEOREM InOrder == Spec => []DeliveredInOrder
<1>1. Init => DeliveredInOrder
  BY DEF Init, DeliveredInOrder
<1>. QED BY <1>1, OrderStep, TypeCorrect, PTL DEF Spec

-----------------------------------------------------------------------------
(* The history of the chat *)

\* Whatever a message or a reply is made of.
Tokens == Queries \cup {Given} \cup Pieces

\* What a message holds of the model's replies, and all messages.
Replied(m)  == IF m.role = "assistant" /\ m.text # <<Given>> THEN m.text ELSE <<>>
Replies(ms) == FlattenSeq([i \in DOMAIN ms |-> Replied(ms[i])])

\* It is a text.
LEMMA RepliedType ==
  ASSUME NEW m \in Message
  PROVE  Replied(m) \in Seq(Tokens)
<1>1. m.text \in Seq(Tokens)
  BY DEF Message, Texts, Tokens
<1>2. <<>> \in Seq(Tokens)
  OBVIOUS
<1>. QED BY <1>1, <1>2 DEF Replied

\* So are all of them together.
LEMMA RepliedSeq ==
  ASSUME NEW ms \in Seq(Message)
  PROVE  /\ [i \in DOMAIN ms |-> Replied(ms[i])] \in Seq(Seq(Tokens))
         /\ Replies(ms) \in Seq(Tokens)
<1>. DEFINE s == [i \in DOMAIN ms |-> Replied(ms[i])]
<1>1. DOMAIN ms = 1..Len(ms) /\ Len(ms) \in Nat /\ \A i \in DOMAIN ms : ms[i] \in Message
  OBVIOUS
<1>2. s \in [1..Len(ms) -> Seq(Tokens)]
  BY <1>1, RepliedType
<1>. HIDE DEF s
<1>3. s \in Seq(Seq(Tokens))
  BY <1>1, <1>2, SeqDef
<1>4. FlattenSeq(s) \in Seq(Tokens)
  BY <1>3, FlattenType
<1>. QED BY <1>3, <1>4 DEF s, Replies

\* A message more adds its part.
LEMMA RepliesSaid ==
  ASSUME TypeOK, NEW role \in Roles, NEW text \in Texts
  PROVE  Replies(Said(role, text))
           = Replies(messages) \o Replied([role |-> role, text |-> text])
<1>. DEFINE m  == [role |-> role, text |-> text]
            ms == Said(role, text)
            s  == [i \in DOMAIN messages |-> Replied(messages[i])]
            u  == [i \in DOMAIN ms |-> Replied(ms[i])]
<1>1. /\ messages \in Seq(Message) /\ ms \in Seq(Message) /\ m \in Message
      /\ Len(ms) = Len(messages) + 1 /\ Len(messages) \in Nat
      /\ \A i \in 1..Len(messages) : ms[i] = messages[i]
      /\ ms[Len(messages) + 1] = m
  BY SaidType DEF TypeOK, Message
<1>2. s \in Seq(Seq(Tokens)) /\ u \in Seq(Seq(Tokens)) /\ Replied(m) \in Seq(Tokens)
  BY <1>1, RepliedSeq, RepliedType
<1>3. DOMAIN messages = 1..Len(messages) /\ DOMAIN ms = 1..(Len(messages) + 1)
  <2>1. DOMAIN messages = 1..Len(messages) /\ DOMAIN ms = 1..Len(ms)
    BY <1>1, LenProperties
  <2>. QED BY <1>1, <2>1
<1>. HIDE DEF m, ms
<1>4. /\ DOMAIN s = 1..Len(messages) /\ DOMAIN u = 1..(Len(messages) + 1)
      /\ \A i \in 1..Len(messages) : u[i] = s[i]
      /\ u[Len(messages) + 1] = Replied(m)
  BY <1>1, <1>3
<1>. HIDE DEF s, u
<1>5. Len(s) = Len(messages) /\ Len(u) = Len(messages) + 1
  BY <1>1, <1>2, <1>4, LenProperties
<1>6. u = Append(s, Replied(m))
  <2>. DEFINE a == Append(s, Replied(m))
  <2>1. /\ a \in Seq(Seq(Tokens)) /\ Len(a) = Len(u)
        /\ \A i \in 1..Len(messages) : a[i] = s[i]
        /\ a[Len(messages) + 1] = Replied(m)
    BY <1>2, <1>5, AppendProperties
  <2>. HIDE DEF a
  <2>2. ASSUME NEW i \in 1..Len(a) PROVE a[i] = u[i]
    <3>1. i \in 1..Len(messages) \/ i = Len(messages) + 1
      BY <1>1, <1>5, <2>1
    <3>2. CASE i \in 1..Len(messages)
      BY <1>4, <2>1, <3>2
    <3>3. CASE i = Len(messages) + 1
      BY <1>4, <2>1, <3>3
    <3>. QED BY <3>1, <3>2, <3>3
  <2>3. a = u
    BY <1>2, <2>1, <2>2, SeqEqual
  <2>. QED BY <2>3 DEF a
<1>7. FlattenSeq(u) = FlattenSeq(s) \o Replied(m)
  BY <1>2, <1>6, FlattenAppend
<1>. QED BY <1>7 DEF Replies, s, u, m, ms

\* completionLoop has made the reply a message by the time stopCompletion runs.
StopInv == pc = "stop" => response = <<>>

\* Inductive: the replies among the messages and the one under way are what was
\* delivered.
HistoryInv == StopInv /\ Replies(messages) \o response = delivered

\* Which is what the property says.
LEMMA HistoryIs == HistoryInv => HistoryHoldsDelivered
BY DEF HistoryInv, HistoryHoldsDelivered, Replies, Replied

\* A piece grows both sides, the end of a reply moves it into the messages, and
\* no other message counts as a reply.
LEMMA HistoryInvStep == TypeOK /\ HistoryInv /\ [Next]_vars => HistoryInv'
<1>. SUFFICES ASSUME TypeOK, HistoryInv, [Next]_vars PROVE HistoryInv'
  OBVIOUS
<1>0. /\ Replies(messages) \in Seq(Tokens) /\ response \in Seq(Pieces)
      /\ response \in Seq(Tokens) /\ response \in Texts /\ delivered \in Seq(Pieces)
      /\ "assistant" \in Roles /\ "user" \in Roles /\ <<>> \in Seq(Tokens)
  <2>1. Replies(messages) \in Seq(Tokens)
    BY RepliedSeq DEF TypeOK, Message
  <2>2. response \in Seq(Pieces) /\ delivered \in Seq(Pieces)
    BY DEF TypeOK
  <2>3. response \in Seq(Tokens)
    BY <2>2, SeqMonotonic DEF Tokens
  <2>. QED BY <2>1, <2>2, <2>3 DEF Texts, Tokens, Roles
<1>1. CASE UNCHANGED <<messages, response, delivered>> /\ pc' # "stop"
  BY <1>1 DEF HistoryInv, StopInv, Replies, Replied
<1>2. ASSUME NEW text \in Texts, NEW role \in Roles, messages' = Said(role, text),
             Replied([role |-> role, text |-> text]) = <<>>,
             UNCHANGED <<response, delivered>>, pc' # "stop"
      PROVE  HistoryInv'
  <2>1. Replies(messages') = Replies(messages) \o <<>>
    BY <1>2, RepliesSaid
  <2>2. Replies(messages') = Replies(messages)
    BY <1>0, <2>1, ConcatEmptySeq
  <2>. QED BY <1>2, <2>2 DEF HistoryInv, StopInv
<1>3. ASSUME messages' = Said("assistant", response), response' = <<>>, delivered' = delivered
      PROVE  HistoryInv'
  <2>1. response # <<Given>>
    <3>1. ASSUME response = <<Given>> PROVE FALSE
      <4>1. <<Given>>[1] = Given /\ Len(<<Given>>) = 1
        OBVIOUS
      <4>2. response[1] \in Pieces
        BY <1>0, <3>1, <4>1, ElementOfSeq
      <4>. QED BY <3>1, <4>1, <4>2, InferenceAssumption
    <3>. QED BY <3>1
  <2>2. Replied([role |-> "assistant", text |-> response]) = response
    BY <2>1 DEF Replied
  <2>3. Replies(messages') = Replies(messages) \o response
    BY <1>0, <1>3, <2>2, RepliesSaid
  <2>4. Replies(messages) \o response \in Seq(Tokens)
    BY <1>0, ConcatProperties
  <2>5. Replies(messages') \o response' = Replies(messages) \o response
    BY <1>3, <2>3, <2>4, ConcatEmptySeq
  <2>. QED BY <1>3, <2>5 DEF HistoryInv, StopInv
<1>4. CASE LoadModel \/ Close \/ BenchModel
  BY <1>1, <1>4 DEF LoadModel, Close, BenchModel, HistoryInv, StopInv
<1>5. ASSUME NEW role \in Roles, AddChatMessage(role) PROVE HistoryInv'
  <2>1. <<Given>> \in Texts /\ Replied([role |-> role, text |-> <<Given>>]) = <<>>
    BY DEF Texts, Replied
  <2>. QED BY <1>2, <1>5, <2>1 DEF AddChatMessage
<1>6. ASSUME NEW q \in Queries, StartCompletion(q) PROVE HistoryInv'
  <2>1. <<q>> \in Texts /\ Replied([role |-> "user", text |-> <<q>>]) = <<>>
    BY DEF Texts, Replied
  <2>2. /\ messages' = Said("user", <<q>>) /\ pc' # "stop"
        /\ UNCHANGED <<response, delivered>>
    BY <1>6 DEF StartCompletion
  <2>. QED BY <1>0, <1>2, <2>1, <2>2
<1>7. CASE ContextReached \/ DecodeFails \/ Cancel
  BY <1>1, <1>7 DEF ContextReached, DecodeFails, Cancel
<1>8. CASE Abort
  BY <1>1, <1>8 DEF Abort, Looping
<1>9. CASE EndOfGeneration
  BY <1>3, <1>9 DEF EndOfGeneration
<1>10. ASSUME NEW t \in Pieces, NextPiece(t) PROVE HistoryInv'
  <2>0. messages' = messages /\ pc' # "stop"
    BY <1>10 DEF NextPiece
  <2>1. CASE PieceKept(t)
    BY <1>1, <2>0, <2>1 DEF PieceKept
  <2>2. CASE PieceReturned(t)
    <3>. DEFINE text == Append(cache, t)
    <3>1. text \in Seq(Tokens)
      <4>1. text \in Seq(Pieces)
        BY DEF TypeOK
      <4>. QED BY <4>1, SeqMonotonic DEF Tokens
    <3>2. response' = response \o text /\ delivered' = delivered \o text
      BY <2>2 DEF PieceReturned
    <3>3. Replies(messages) \o response = delivered
      BY DEF HistoryInv
    <3>. HIDE DEF text
    <3>4. ASSUME NEW a, a \in Seq(Tokens), NEW b, b \in Seq(Tokens), NEW c, c \in Seq(Tokens)
          PROVE  (a \o b) \o c = a \o (b \o c)
      BY ONLY <3>4, Associative
    <3>5. (Replies(messages) \o response) \o text = Replies(messages) \o (response \o text)
      BY <1>0, <3>1, <3>4
    <3>. QED BY <2>0, <3>2, <3>3, <3>5 DEF HistoryInv, StopInv
  <2>. QED BY <1>10, <2>1, <2>2, PieceOutcome
<1>11. CASE StopCompletion
  <2>1. CASE storeChats
    BY <1>3, <1>11, <2>1 DEF StopCompletion
  <2>2. CASE ~storeChats
    BY <1>11, <2>2 DEF StopCompletion, HistoryInv, StopInv
  <2>. QED BY <2>1, <2>2
<1>12. CASE UNCHANGED vars
  BY <1>12 DEF vars, HistoryInv, StopInv
<1>. QED
  BY <1>4, <1>5, <1>6, <1>7, <1>8, <1>9, <1>10, <1>11, <1>12
     DEF Next, CompletionStep

\* Whatever a caller was given is in the assistant messages or still in
\* _response, once and in order: a reply that a cancellation or a failed decode
\* cut short is not lost but goes before the next one.
THEOREM HistoryHolds == Spec => []HistoryHoldsDelivered
<1>1. Init => HistoryInv
  <2>. SUFFICES ASSUME Init PROVE HistoryInv
    OBVIOUS
  <2>1. messages = <<>> /\ response = <<>> /\ delivered = <<>>
    BY DEF Init
  <2>2. Replies(<<>>) = <<>>
    BY DEF Replies, FlattenSeq
  <2>. QED BY <2>1, <2>2 DEF HistoryInv, StopInv
<1>. QED BY <1>1, HistoryInvStep, HistoryIs, TypeCorrect, PTL DEF Spec

-----------------------------------------------------------------------------
(* _isValidUtf8 *)

\* The width of a byte: only that of no lead byte is 0.
LEMMA WidthType ==
  ASSUME NEW b
  PROVE  Width(b) \in Nat /\ Width("cont") = 0
BY DEF Width

\* The character that starts at i is whole, and an other one follows it.
Whole(s, i) ==
  /\ Width(s[i]) > 0 /\ i + Width(s[i]) - 1 <= Len(s)
  /\ \A j \in (i + 1)..(i + Width(s[i]) - 1) : s[j] = "cont"
  /\ i + Width(s[i]) <= Len(s) => s[i + Width(s[i])] # "cont"

\* The bytes from i on are whole characters.
WholeFrom(s, i) ==
  /\ i <= Len(s) => s[i] # "cont"
  /\ \A j \in i..Len(s) : s[j] # "cont" => Whole(s, j)

\* What the function of IsValidUtf8 says at i, and that it is that function.
AtCursor(s, f, i) ==
  IF i > Len(s) THEN TRUE
  ELSE /\ Width(s[i]) > 0
       /\ i + Width(s[i]) - 1 <= Len(s)
       /\ \A j \in (i + 1)..(i + Width(s[i]) - 1) : s[j] = "cont"
       /\ f[i + Width(s[i])]

\* The function of all positions that is_valid_utf8 computes.
Cursor(s, f) == f = [i \in 1..(Len(s) + 1) |-> AtCursor(s, f, i)]

\* The cursor is past a whole character and finds whole characters.
LEMMA WholeOnward ==
  ASSUME NEW s \in Seq(ByteClasses), NEW i \in 1..Len(s)
  PROVE  WholeFrom(s, i) <=>
           /\ Width(s[i]) > 0
           /\ i + Width(s[i]) - 1 <= Len(s)
           /\ \A j \in (i + 1)..(i + Width(s[i]) - 1) : s[j] = "cont"
           /\ WholeFrom(s, i + Width(s[i]))
<1>. DEFINE w == Width(s[i])
<1>0. w \in Nat /\ Len(s) \in Nat /\ i \in Nat /\ i <= Len(s)
  BY WidthType
<1>1. ASSUME WholeFrom(s, i)
      PROVE  /\ w > 0 /\ i + w - 1 <= Len(s)
             /\ \A j \in (i + 1)..(i + w - 1) : s[j] = "cont"
             /\ WholeFrom(s, i + w)
  <2>1. Whole(s, i)
    BY <1>0, <1>1 DEF WholeFrom
  <2>2. /\ w > 0 /\ i + w - 1 <= Len(s)
        /\ \A j \in (i + 1)..(i + w - 1) : s[j] = "cont"
        /\ i + w <= Len(s) => s[i + w] # "cont"
    BY <2>1 DEF Whole
  <2>3. \A j \in (i + w)..Len(s) : j \in i..Len(s)
    BY <1>0
  <2>4. \A j \in (i + w)..Len(s) : s[j] # "cont" => Whole(s, j)
    BY <1>1, <2>3 DEF WholeFrom
  <2>. QED BY <2>2, <2>4 DEF WholeFrom
<1>2. ASSUME w > 0, i + w - 1 <= Len(s),
             \A j \in (i + 1)..(i + w - 1) : s[j] = "cont",
             WholeFrom(s, i + w)
      PROVE  WholeFrom(s, i)
  <2>1. s[i] # "cont"
    BY <1>2, WidthType
  <2>2. Whole(s, i)
    BY <1>2 DEF Whole, WholeFrom
  <2>3. ASSUME NEW j \in i..Len(s), s[j] # "cont" PROVE Whole(s, j)
    <3>1. j = i \/ j \in (i + 1)..(i + w - 1) \/ j \in (i + w)..Len(s)
      BY <1>0, <1>2
    <3>. QED BY <1>2, <2>2, <2>3, <3>1 DEF WholeFrom
  <2>. QED BY <2>1, <2>3 DEF WholeFrom
<1>. QED BY <1>1, <1>2

\* There is a function of that kind: WholeFrom.
LEMMA CursorExists ==
  ASSUME NEW s \in Seq(ByteClasses)
  PROVE  \E f : Cursor(s, f)
<1>. DEFINE h == [i \in 1..(Len(s) + 1) |-> WholeFrom(s, i)]
<1>1. ASSUME NEW i \in 1..(Len(s) + 1) PROVE WholeFrom(s, i) = AtCursor(s, h, i)
  <2>1. Len(s) \in Nat
    OBVIOUS
  <2>2. CASE i > Len(s)
    BY <2>1, <2>2 DEF WholeFrom, AtCursor
  <2>3. CASE ~(i > Len(s))
    <3>1. i \in 1..Len(s) /\ Width(s[i]) \in Nat
      BY <2>1, <2>3, WidthType
    <3>2. Width(s[i]) > 0 /\ i + Width(s[i]) - 1 <= Len(s)
            => h[i + Width(s[i])] = WholeFrom(s, i + Width(s[i]))
      BY <2>1, <3>1
    <3>. HIDE DEF h
    <3>3. AtCursor(s, h, i) <=>
            /\ Width(s[i]) > 0
            /\ i + Width(s[i]) - 1 <= Len(s)
            /\ \A j \in (i + 1)..(i + Width(s[i]) - 1) : s[j] = "cont"
            /\ h[i + Width(s[i])]
      BY <2>3 DEF AtCursor
    <3>4. AtCursor(s, h, i) <=>
            /\ Width(s[i]) > 0
            /\ i + Width(s[i]) - 1 <= Len(s)
            /\ \A j \in (i + 1)..(i + Width(s[i]) - 1) : s[j] = "cont"
            /\ WholeFrom(s, i + Width(s[i]))
      BY <3>2, <3>3
    <3>5. WholeFrom(s, i) <=> AtCursor(s, h, i)
      BY <3>1, <3>4, WholeOnward
    <3>6. WholeFrom(s, i) \in BOOLEAN /\ AtCursor(s, h, i) \in BOOLEAN
      BY <2>3 DEF WholeFrom, AtCursor
    <3>. QED BY <3>5, <3>6
  <2>. QED BY <2>2, <2>3
<1>2. h = [i \in 1..(Len(s) + 1) |-> AtCursor(s, h, i)]
  <2>1. h = [i \in 1..(Len(s) + 1) |-> WholeFrom(s, i)]
    OBVIOUS
  <2>. HIDE DEF h
  <2>. QED BY <1>1, <2>1
<1>. QED BY <1>2 DEF Cursor

\* Where the function holds, the bytes are whole characters.
LEMMA CursorIsWhole ==
  ASSUME NEW s \in Seq(ByteClasses), NEW f, Cursor(s, f), f[1]
  PROVE  WholeFrom(s, 1)
<1>. DEFINE T == {d \in Nat : /\ d <= Len(s) /\ f[Len(s) + 1 - d]
                              /\ ~WholeFrom(s, Len(s) + 1 - d)}
<1>0. Len(s) \in Nat
  OBVIOUS
<1>1. SUFFICES ASSUME T # {} PROVE FALSE
  <2>1. Len(s) \notin T
    BY <1>1
  <2>2. (Len(s) + 1) - Len(s) = 1
    BY <1>0
  <2>. QED BY <1>0, <2>1, <2>2
<1>2. PICK d \in T : \A n \in T : d <= n
  <2>1. T \subseteq Nat
    OBVIOUS
  <2>. HIDE DEF T
  <2>. QED BY <1>1, <2>1, LeastNat
<1>. DEFINE i == Len(s) + 1 - d
<1>3. d \in Nat /\ d <= Len(s) /\ f[i] /\ ~WholeFrom(s, i)
  OBVIOUS
<1>4. d # 0
  <2>1. WholeFrom(s, Len(s) + 1)
    BY <1>0 DEF WholeFrom
  <2>. QED BY <1>0, <1>3, <2>1
<1>5. i \in 1..Len(s) /\ i \in 1..(Len(s) + 1) /\ ~(i > Len(s))
  BY <1>0, <1>3, <1>4
<1>6. f[i] = AtCursor(s, f, i)
  BY <1>5 DEF Cursor
<1>. HIDE DEF i
<1>7. /\ Width(s[i]) > 0 /\ i + Width(s[i]) - 1 <= Len(s)
      /\ \A j \in (i + 1)..(i + Width(s[i]) - 1) : s[j] = "cont"
      /\ f[i + Width(s[i])]
  BY <1>3, <1>5, <1>6 DEF AtCursor
<1>8. ~WholeFrom(s, i + Width(s[i]))
  BY <1>3, <1>5, <1>7, WholeOnward
<1>9. d - Width(s[i]) \in Nat /\ d - Width(s[i]) <= Len(s)
      /\ Len(s) + 1 - (d - Width(s[i])) = i + Width(s[i]) /\ ~(d <= d - Width(s[i]))
  <2>. DEFINE w == Width(s[i])
  <2>1. w \in Nat /\ w > 0 /\ i + w - 1 <= Len(s) /\ i = Len(s) + 1 - d
    BY <1>7, WidthType DEF i
  <2>. HIDE DEF w
  <2>2. d - w \in Nat /\ d - w <= Len(s) /\ Len(s) + 1 - (d - w) = i + w /\ ~(d <= d - w)
    BY <1>0, <1>3, <2>1
  <2>. QED BY <2>2 DEF w
<1>10. d - Width(s[i]) \in T
  BY <1>7, <1>8, <1>9
<1>. QED BY <1>2, <1>9, <1>10

\* _isValidUtf8 accepts only whole characters.
LEMMA ValidIsWhole ==
  ASSUME NEW s \in Seq(ByteClasses), IsValidUtf8(s)
  PROVE  WholeFrom(s, 1)
<1>. DEFINE f == CHOOSE f : f = [i \in 1..(Len(s) + 1) |->
                  IF i > Len(s) THEN TRUE
                  ELSE /\ Width(s[i]) > 0
                       /\ i + Width(s[i]) - 1 <= Len(s)
                       /\ \A j \in (i + 1)..(i + Width(s[i]) - 1) : s[j] = "cont"
                       /\ f[i + Width(s[i])]]
<1>1. \E g : g = [i \in 1..(Len(s) + 1) |->
                  IF i > Len(s) THEN TRUE
                  ELSE /\ Width(s[i]) > 0
                       /\ i + Width(s[i]) - 1 <= Len(s)
                       /\ \A j \in (i + 1)..(i + Width(s[i]) - 1) : s[j] = "cont"
                       /\ g[i + Width(s[i])]]
  BY CursorExists DEF Cursor, AtCursor
<1>2. f = [i \in 1..(Len(s) + 1) |->
                  IF i > Len(s) THEN TRUE
                  ELSE /\ Width(s[i]) > 0
                       /\ i + Width(s[i]) - 1 <= Len(s)
                       /\ \A j \in (i + 1)..(i + Width(s[i]) - 1) : s[j] = "cont"
                       /\ f[i + Width(s[i])]]
  BY <1>1
<1>3. f[1]
  BY DEF IsValidUtf8
<1>. HIDE DEF f
<1>4. Cursor(s, f)
  BY <1>2 DEF Cursor, AtCursor
<1>. QED BY <1>3, <1>4, CursorIsWhole

\* Whole characters are UTF-8 as WellFormed defines it.
LEMMA WholeIsWellFormed ==
  ASSUME NEW s \in Seq(ByteClasses), WholeFrom(s, 1)
  PROVE  WellFormed(s)
<1>0. Len(s) \in Nat /\ DOMAIN s = 1..Len(s)
  OBVIOUS
<1>1. s # <<>> => s[1] # "cont"
  <2>1. s # <<>> => Len(s) # 0
    BY EmptySeq
  <2>. QED BY <1>0, <2>1 DEF WholeFrom
<1>2. ASSUME NEW i \in DOMAIN s, s[i] # "cont"
      PROVE  /\ Width(s[i]) > 0
             /\ LET next == {j \in (i + 1)..Len(s) : s[j] # "cont"}
                    end  == IF next = {} THEN Len(s) + 1
                            ELSE CHOOSE j \in next : \A k \in next : j <= k
                IN end - i = Width(s[i])
  <2>. DEFINE next == {j \in (i + 1)..Len(s) : s[j] # "cont"}
              w    == Width(s[i])
  <2>1. Whole(s, i) /\ w \in Nat /\ i \in Nat /\ i <= Len(s)
    BY <1>0, <1>2, WidthType DEF WholeFrom
  <2>2. /\ w > 0 /\ i + w - 1 <= Len(s)
        /\ \A j \in (i + 1)..(i + w - 1) : s[j] = "cont"
        /\ i + w <= Len(s) => s[i + w] # "cont"
    BY <2>1 DEF Whole
  <2>. HIDE DEF w
  <2>3. i + w <= Len(s) => i + w \in next
    BY <1>0, <2>1, <2>2
  <2>4. \A k \in next : i + w <= k /\ k <= Len(s) /\ k \in Nat
    BY <1>0, <2>1, <2>2
  <2>. HIDE DEF next
  <2>5. CASE next = {}
    <3>1. (Len(s) + 1) - i = w
      BY <1>0, <2>1, <2>2, <2>3, <2>5
    <3>. QED BY <2>2, <2>5, <3>1 DEF next, w
  <2>6. CASE next # {}
    <3>1. i + w \in next
      BY <1>0, <2>1, <2>2, <2>3, <2>4, <2>6
    <3>2. \A j \in next : (\A k \in next : j <= k) => j = i + w
      BY <2>1, <2>4, <3>1
    <3>3. (CHOOSE j \in next : \A k \in next : j <= k) = i + w
      BY <2>4, <3>1, <3>2
    <3>4. (i + w) - i = w
      BY <2>1
    <3>. QED BY <2>2, <2>6, <3>3, <3>4 DEF next, w
  <2>. QED BY <2>5, <2>6
<1>. QED BY <1>1, <1>2 DEF WellFormed

\* Whole characters after whole characters.
LEMMA WholeConcat ==
  ASSUME NEW s \in Seq(ByteClasses), NEW u \in Seq(ByteClasses),
         WholeFrom(s, 1), WholeFrom(u, 1)
  PROVE  WholeFrom(s \o u, 1)
<1>. DEFINE v == s \o u
            m == Len(s)
            n == Len(u)
<1>0. /\ m \in Nat /\ n \in Nat /\ Len(v) = m + n
      /\ \A i \in 1..m : v[i] = s[i]
      /\ \A i \in 1..n : v[m + i] = u[i]
      /\ \A i \in (m + 1)..(m + n) : v[i] = u[i - m] /\ i - m \in 1..n
  OBVIOUS
<1>1. /\ m > 0 => s[1] # "cont"
      /\ n > 0 => u[1] # "cont"
      /\ \A j \in 1..m : s[j] # "cont" => Whole(s, j)
      /\ \A j \in 1..n : u[j] # "cont" => Whole(u, j)
  BY <1>0 DEF WholeFrom
<1>. HIDE DEF v, m, n
<1>2. n > 0 => v[m + 1] # "cont"
  BY <1>0, <1>1
<1>3. 1 <= Len(v) => v[1] # "cont"
  <2>1. CASE m = 0
    BY <1>0, <1>2, <2>1
  <2>2. CASE m # 0
    BY <1>0, <1>1, <2>2
  <2>. QED BY <2>1, <2>2
<1>4. ASSUME NEW j \in 1..m, v[j] # "cont" PROVE Whole(v, j)
  <2>. DEFINE w == Width(s[j])
  <2>1. v[j] = s[j] /\ Whole(s, j) /\ w \in Nat
    BY <1>0, <1>1, <1>4, WidthType
  <2>2. /\ w > 0 /\ j + w - 1 <= m
        /\ \A k \in (j + 1)..(j + w - 1) : s[k] = "cont"
        /\ j + w <= m => s[j + w] # "cont"
    BY <2>1 DEF Whole, m
  <2>3. \A k \in (j + 1)..(j + w - 1) : v[k] = "cont"
    BY <1>0, <2>1, <2>2
  <2>4. j + w <= m + n => v[j + w] # "cont"
    <3>1. CASE j + w <= m
      <4>1. j + w \in 1..m
        BY <1>0, <2>1, <3>1
      <4>. QED BY <1>0, <2>2, <3>1, <4>1
    <3>2. CASE ~(j + w <= m)
      <4>1. j + w = m + 1
        <5>. HIDE DEF w
        <5>1. m \in Int /\ w \in Int /\ j \in Int
          BY <1>0, <2>1
        <5>. QED BY <2>2, <3>2, <5>1
      <4>. QED BY <1>0, <1>2, <4>1
    <3>. QED BY <3>1, <3>2
  <2>5. j + w - 1 <= m + n
    BY <1>0, <2>1, <2>2
  <2>. QED BY <1>0, <2>1, <2>2, <2>3, <2>4, <2>5 DEF Whole
<1>5. ASSUME NEW j \in (m + 1)..(m + n), v[j] # "cont" PROVE Whole(v, j)
  <2>. DEFINE i == j - m
              w == Width(u[i])
  <2>1. v[j] = u[i] /\ i \in 1..n /\ j = m + i /\ Whole(u, i) /\ w \in Nat
    <3>1. v[j] = u[i] /\ i \in 1..n /\ j = m + i
      BY <1>0
    <3>. HIDE DEF i
    <3>2. Whole(u, i)
      BY <1>1, <1>5, <3>1
    <3>. QED BY <3>1, <3>2, WidthType
  <2>2. /\ w > 0 /\ i + w - 1 <= n
        /\ \A k \in (i + 1)..(i + w - 1) : u[k] = "cont"
        /\ i + w <= n => u[i + w] # "cont"
    BY <2>1 DEF Whole, n
  <2>. HIDE DEF i, w
  <2>3. ASSUME NEW k \in (j + 1)..(j + w - 1) PROVE v[k] = "cont"
    <3>1. k - m \in (i + 1)..(i + w - 1) /\ k \in (m + 1)..(m + n)
      BY <1>0, <2>1, <2>2
    <3>. QED BY <1>0, <2>2, <3>1
  <2>4. j + w <= m + n => v[j + w] # "cont"
    <3>. SUFFICES ASSUME j + w <= m + n PROVE v[j + w] # "cont"
      OBVIOUS
    <3>1. j + w \in (m + 1)..(m + n) /\ (j + w) - m = i + w /\ i + w <= n
      BY <1>0, <2>1, <2>2
    <3>. QED BY <1>0, <2>2, <3>1
  <2>5. j + w - 1 <= m + n /\ Width(v[j]) = w
    BY <1>0, <2>1, <2>2 DEF w
  <2>. QED BY <1>0, <2>2, <2>3, <2>4, <2>5 DEF Whole
<1>6. \A j \in 1..Len(v) : j \in 1..m \/ j \in (m + 1)..(m + n)
  BY <1>0
<1>7. WholeFrom(v, 1)
  BY <1>3, <1>4, <1>5, <1>6 DEF WholeFrom
<1>. QED BY <1>7 DEF v

-----------------------------------------------------------------------------
(* What a caller was given is text *)

\* The bytes of a text, and of one text after an other.
LEMMA BytesOfConcat ==
  ASSUME NEW a \in Seq(Pieces), NEW b \in Seq(Pieces)
  PROVE  /\ BytesOf(a) \in Seq(ByteClasses) /\ BytesOf(b) \in Seq(ByteClasses)
         /\ BytesOf(a \o b) = BytesOf(a) \o BytesOf(b)
<1>. DEFINE B(t) == [i \in DOMAIN t |-> Bytes[t[i]]]
<1>1. ASSUME NEW t \in Seq(Pieces) PROVE B(t) \in Seq(Seq(ByteClasses)) /\ Len(B(t)) = Len(t)
  <2>1. DOMAIN t = 1..Len(t) /\ Len(t) \in Nat
    OBVIOUS
  <2>2. ASSUME NEW i \in 1..Len(t) PROVE Bytes[t[i]] \in Seq(ByteClasses)
    <3>1. t[i] \in Pieces
      OBVIOUS
    <3>. QED BY <3>1, InferenceAssumption
  <2>3. B(t) \in [1..Len(t) -> Seq(ByteClasses)]
    BY <2>1, <2>2
  <2>4. ASSUME NEW Y, NEW k \in Nat, NEW g \in [1..k -> Y] PROVE g \in Seq(Y) /\ Len(g) = k
    BY ONLY k \in Nat, g \in [1..k -> Y], SeqDef, LenProperties
  <2>. QED BY <2>1, <2>3, <2>4
<1>2. a \o b \in Seq(Pieces) /\ Len(a \o b) = Len(a) + Len(b)
  OBVIOUS
<1>3. B(a \o b) = B(a) \o B(b)
  <2>1. /\ Len(a) \in Nat /\ Len(b) \in Nat
        /\ DOMAIN a = 1..Len(a) /\ DOMAIN b = 1..Len(b)
        /\ DOMAIN (a \o b) = 1..(Len(a) + Len(b))
    OBVIOUS
  <2>2. \A i \in 1..(Len(a) + Len(b)) :
           (a \o b)[i] = IF i <= Len(a) THEN a[i] ELSE b[i - Len(a)]
    OBVIOUS
  <2>3. B(a) \o B(b) = [i \in 1..(Len(a) + Len(b)) |->
                          IF i <= Len(a) THEN B(a)[i] ELSE B(b)[i - Len(a)]]
    <3>. DEFINE x == B(a)
                y == B(b)
    <3>1. x \in Seq(Seq(ByteClasses)) /\ y \in Seq(Seq(ByteClasses))
          /\ Len(x) = Len(a) /\ Len(y) = Len(b)
      BY <1>1
    <3>. HIDE DEF x, y
    <3>2. /\ x \o y \in Seq(Seq(ByteClasses)) /\ Len(x \o y) = Len(x) + Len(y)
          /\ \A i \in 1..(Len(x) + Len(y)) :
               (x \o y)[i] = IF i <= Len(x) THEN x[i] ELSE y[i - Len(x)]
      BY ONLY <3>1, ConcatProperties
    <3>3. x \o y = [i \in 1..(Len(x) + Len(y)) |-> (x \o y)[i]]
      <4>1. ASSUME NEW Y, NEW c, c \in Seq(Y) PROVE c = [i \in 1..Len(c) |-> c[i]]
        BY ONLY <4>1
      <4>. QED BY <3>2, <4>1
    <3>. QED BY <3>1, <3>2, <3>3 DEF x, y
  <2>4. ASSUME NEW i \in 1..(Len(a) + Len(b))
        PROVE  B(a \o b)[i] = IF i <= Len(a) THEN B(a)[i] ELSE B(b)[i - Len(a)]
    <3>1. i <= Len(a) => i \in 1..Len(a)
      BY <2>1
    <3>2. ~(i <= Len(a)) => i - Len(a) \in 1..Len(b)
      BY <2>1
    <3>3. B(a \o b)[i] = Bytes[(a \o b)[i]]
      BY <2>1
    <3>. QED BY <2>1, <2>2, <3>1, <3>2, <3>3
  <2>5. B(a \o b) = [i \in 1..(Len(a) + Len(b)) |-> B(a \o b)[i]]
    BY <2>1
  <2>. HIDE DEF B
  <2>. QED BY <2>3, <2>4, <2>5
<1>4. BytesOf(a) = FlattenSeq(B(a)) /\ BytesOf(b) = FlattenSeq(B(b))
      /\ BytesOf(a \o b) = FlattenSeq(B(a \o b))
  BY DEF BytesOf
<1>. HIDE DEF B
<1>5. FlattenSeq(B(a)) \in Seq(ByteClasses) /\ FlattenSeq(B(b)) \in Seq(ByteClasses)
  BY <1>1, FlattenType
<1>6. FlattenSeq(B(a) \o B(b)) = FlattenSeq(B(a)) \o FlattenSeq(B(b))
  BY <1>1, FlattenConcat
<1>. QED BY <1>3, <1>4, <1>5, <1>6

\* The bytes a caller was given are whole characters.
TextInv == WholeFrom(BytesOf(delivered), 1)

\* Only a piece that _isValidUtf8 accepted is added to them.
LEMMA TextInvStep == TypeOK /\ TextInv /\ [Next]_vars => TextInv'
<1>. SUFFICES ASSUME TypeOK, TextInv, [Next]_vars PROVE TextInv'
  OBVIOUS
<1>1. CASE delivered' = delivered
  BY <1>1 DEF TextInv
<1>2. ASSUME NEW t \in Pieces, PieceReturned(t) PROVE TextInv'
  <2>. DEFINE text == Append(cache, t)
  <2>1. text \in Seq(Pieces) /\ delivered \in Seq(Pieces)
    BY DEF TypeOK
  <2>2. delivered' = delivered \o text /\ IsValidUtf8(BytesOf(text))
    BY <1>2 DEF PieceReturned
  <2>. HIDE DEF text
  <2>3. /\ BytesOf(delivered) \in Seq(ByteClasses) /\ BytesOf(text) \in Seq(ByteClasses)
        /\ BytesOf(delivered \o text) = BytesOf(delivered) \o BytesOf(text)
    BY <2>1, BytesOfConcat
  <2>4. WholeFrom(BytesOf(text), 1)
    BY <2>2, <2>3, ValidIsWhole
  <2>5. WholeFrom(BytesOf(delivered) \o BytesOf(text), 1)
    BY <2>3, <2>4, WholeConcat DEF TextInv
  <2>. QED BY <2>2, <2>3, <2>5 DEF TextInv
<1>3. ASSUME NEW t \in Pieces, NextPiece(t) PROVE TextInv'
  BY <1>1, <1>2, <1>3, PieceOutcome DEF PieceKept
<1>. QED
  BY <1>1, <1>3 DEF Next, CompletionStep, vars, LoadModel, Close, BenchModel,
     AddChatMessage, StartCompletion, ContextReached, Abort, DecodeFails,
     EndOfGeneration, Cancel, StopCompletion

\* What a caller has been given so far is whole characters, wherever the model, a
\* failed decode or a cancellation cut the reply off: _isValidUtf8 is right about
\* every sequence of bytes, and whole characters after whole ones are whole.
THEOREM DeliveredText == Spec => []DeliveredIsText
<1>1. Init => TextInv
  <2>. SUFFICES ASSUME Init PROVE TextInv
    OBVIOUS
  <2>1. delivered = <<>>
    BY DEF Init
  <2>2. BytesOf(<<>>) = <<>>
    BY DEF BytesOf, FlattenSeq
  <2>3. WholeFrom(<<>>, 1)
    BY DEF WholeFrom
  <2>. QED BY <2>1, <2>2, <2>3 DEF TextInv
<1>2. TypeOK /\ TextInv => DeliveredIsText
  <2>. SUFFICES ASSUME TypeOK, TextInv PROVE DeliveredIsText
    OBVIOUS
  <2>1. delivered \in Seq(Pieces)
    BY DEF TypeOK
  <2>2. BytesOf(delivered) \in Seq(ByteClasses)
    BY <2>1, BytesOfConcat
  <2>. QED BY <2>2, WholeIsWellFormed DEF TextInv, DeliveredIsText
<1>. QED BY <1>1, <1>2, TextInvStep, TypeCorrect, PTL DEF Spec
=============================================================================
