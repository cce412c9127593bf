-------------------------- MODULE RouterOSClientProofs -------------------------
(***************************************************************************)
(* Proofs about the calls of the RouterOS client, for any values, any      *)
(* number of rows and any number of interferences: what TLC checks for a   *)
(* table with few rows holds for every table.                              *)
(***************************************************************************)
EXTENDS RouterOSClient, FiniteSetTheorems, SequenceTheorems, WellFoundedInduction, TLAPS

(* Sets and sequences of ids. *)

LEMMA LeastExists ==
  ASSUME NEW S, S \subseteq Nat, S # {}
  PROVE  Min(S) \in S /\ \A y \in S : Min(S) <= y
<1>1. \E x \in S : \A y \in S : <<y, x>> \notin OpToRel(<, Nat)
  BY NatLessThanWellFounded, WFMin, Zenon
<1>2. PICK x \in S : \A y \in S : <<y, x>> \notin OpToRel(<, Nat)
  BY <1>1
<1>3. \A y \in S : ~(y < x)
  BY <1>2 DEF OpToRel
<1>4. \A y \in S : x <= y
  BY <1>3
<1> QED BY <1>4 DEF Min

(* A print lists every row with the property once. *)
LEMMA InOrderLists ==
  ASSUME NEW ids, ids \subseteq Nat, IsFiniteSet(ids)
  PROVE  /\ InOrder(ids) \in Seq(ids)
         /\ Range(InOrder(ids)) = ids
         /\ IsInjective(InOrder(ids))
         /\ InOrder(ids) = <<>> <=> ids = {}
<1> DEFINE N == Cardinality(ids)
           below(i) == {j \in ids : j <= i}
           place == [i \in ids |-> Cardinality(below(i))]
<1>n. N \in Nat
  BY FS_CardinalityType
<1>1. \A i \in ids : IsFiniteSet(below(i)) /\ Cardinality(below(i)) \in 1 .. N
  <2> TAKE i \in ids
  <2>1. below(i) \in SUBSET ids /\ i \in below(i)
    OBVIOUS
  <2>2. IsFiniteSet(below(i)) /\ Cardinality(below(i)) <= N
    BY <2>1, FS_Subset
  <2>3. Cardinality(below(i)) \in Nat /\ Cardinality(below(i)) # 0
    BY <2>1, <2>2, FS_CardinalityType, FS_EmptySet
  <2> HIDE DEF below, N
  <2> QED BY <2>2, <2>3, <1>n
<1>2. \A i, k \in ids : i < k => Cardinality(below(i)) # Cardinality(below(k))
  <2> SUFFICES ASSUME NEW i \in ids, NEW k \in ids, i < k,
                      Cardinality(below(i)) = Cardinality(below(k))
               PROVE  FALSE
    OBVIOUS
  <2>a. (\A j \in ids : j <= i => j <= k) /\ k <= k /\ ~(k <= i)
    OBVIOUS
  <2>1. below(i) \in SUBSET below(k) /\ k \in below(k) /\ k \notin below(i)
    BY <2>a, Zenon
  <2>2. below(k) = below(i)
    <3> HIDE DEF below
    <3> QED BY <2>1, <1>1, FS_Subset
  <2> QED BY <2>1, <2>2
<1>3. place \in Injection(ids, 1 .. N)
  <2>1. place \in [ids -> 1 .. N]
    BY <1>1
  <2>2. \A i, k \in ids : place[i] = place[k] => i = k
    <3> SUFFICES ASSUME NEW i \in ids, NEW k \in ids, place[i] = place[k] PROVE i = k
      OBVIOUS
    <3>1. ~(i < k) /\ ~(k < i)
      <4> HIDE DEF below
      <4> QED BY <1>2
    <3> HIDE DEF place
    <3> QED BY <3>1
  <2> HIDE DEF place
  <2> QED BY <2>1, <2>2 DEF Injection, IsInjective
<1>4. IsFiniteSet(1 .. N) /\ Cardinality(1 .. N) = N
  <2> HIDE DEF N
  <2> QED BY <1>n, FS_Interval
<1>5. place \in Surjection(ids, 1 .. N)
  <2> HIDE DEF place
  <2> QED BY <1>3, <1>4, FS_Injection
<1>6. \A n \in 1 .. N : \E i \in ids : Cardinality(below(i)) = n
  <2> HIDE DEF below
  <2> QED BY <1>5 DEF Surjection
<1> DEFINE s == InOrder(ids)
<1>7. \A n \in 1 .. N : s[n] \in ids /\ Cardinality(below(s[n])) = n
  BY <1>6 DEF InOrder
<1>8. s = [n \in 1 .. N |-> s[n]] /\ DOMAIN s = 1 .. N
  BY DEF InOrder
<1> HIDE DEF s
<1>9. s \in Seq(ids)
  <2>1. s \in [1 .. N -> ids]
    <3> HIDE DEF N
    <3> QED BY <1>7, <1>8
  <2> HIDE DEF N
  <2> QED BY <2>1, <1>n
<1>10. IsInjective(s)
  <2> HIDE DEF below, N
  <2> QED BY <1>7, <1>8 DEF IsInjective
<1>11. Range(s) = ids
  <2>1. Range(s) \subseteq ids
    BY <1>7, <1>8 DEF Range
  <2>2. ASSUME NEW i \in ids PROVE i \in Range(s)
    <3> DEFINE n == Cardinality(below(i))
    <3>1. n \in 1 .. N
      BY <1>1
    <3>2. s[n] \in ids /\ Cardinality(below(s[n])) = n
      BY <1>7, <3>1
    <3>3. ~(s[n] < i) /\ ~(i < s[n])
      <4> HIDE DEF below, s
      <4> QED BY <1>2, <3>2
    <3>4. s[n] = i
      <4>1. i \in Nat /\ s[n] \in Nat
        BY <3>2
      <4> HIDE DEF n, below
      <4> QED BY <4>1, <3>3
    <3> HIDE DEF n
    <3> QED BY <3>1, <3>4, <1>8 DEF Range
  <2> QED BY <2>1, <2>2
<1>12. s = <<>> <=> ids = {}
  <2>1. s = <<>> => ids = {}
    <3> SUFFICES ASSUME s = <<>>, NEW i \in ids PROVE FALSE
      OBVIOUS
    <3>1. DOMAIN s = {}
      OBVIOUS
    <3> QED BY <3>1, <1>11, Zenon DEF Range
  <2>2. ids = {} => N = 0
    BY FS_EmptySet
  <2>3. ids = {} => s = <<>>
    <3> HIDE DEF N
    <3> QED BY <2>2, <1>8, <1>9
  <2> QED BY <2>1, <2>3
<1> QED BY <1>9, <1>10, <1>11, <1>12 DEF s

--------------------------------------------------------------------------------
(* Comments. *)

LEMMA CommentTokens ==
  /\ Own \in Seq(Tokens) /\ Len(Own) = 3
  /\ Own[1] = "operator" /\ Own[2] = "/" /\ Own[3] = "web"
  /\ Neighbour \in Seq(Tokens) /\ Len(Neighbour) = 4
  /\ Neighbour[1] = "operator" /\ Neighbour[2] = "/" /\ Neighbour[4] = "-2"
  /\ Lookalike \in Seq(Tokens) /\ Len(Lookalike) = 2
  /\ Lookalike[1] = "operator" /\ Lookalike[2] = "-old"
<1> DEFINE head == <<"operator">> \o <<"/">>
           web == <<"web">>
           web2 == <<"web", "-2">>
<1>t. {"operator", "/", "web", "-2", "-old"} \subseteq Tokens
  BY DEF Tokens
<1>1. /\ <<"operator">> \in Seq(Tokens) /\ Len(<<"operator">>) = 1 /\ <<"operator">>[1] = "operator"
      /\ <<"/">> \in Seq(Tokens) /\ Len(<<"/">>) = 1 /\ <<"/">>[1] = "/"
  BY <1>t
<1>2. /\ web \in Seq(Tokens) /\ Len(web) = 1 /\ web[1] = "web"
      /\ web2 \in Seq(Tokens) /\ Len(web2) = 2 /\ web2[2] = "-2"
  BY <1>t
<1>3. /\ head \in Seq(Tokens) /\ Len(head) = 2
      /\ head[1] = "operator" /\ head[2] = "/"
  BY <1>1, ConcatProperties
<1> HIDE DEF head, web, web2
<1>4. /\ head \o web \in Seq(Tokens) /\ Len(head \o web) = 3
      /\ (head \o web)[1] = "operator" /\ (head \o web)[2] = "/" /\ (head \o web)[3] = "web"
  BY <1>2, <1>3, ConcatProperties
<1>5. /\ head \o web2 \in Seq(Tokens) /\ Len(head \o web2) = 4
      /\ (head \o web2)[1] = "operator" /\ (head \o web2)[2] = "/" /\ (head \o web2)[4] = "-2"
  <2>1. /\ head \o web2 \in Seq(Tokens) /\ Len(head \o web2) = Len(head) + Len(web2)
        /\ \A i \in 1 .. Len(head) + Len(web2) :
             (head \o web2)[i] = IF i <= Len(head) THEN head[i] ELSE web2[i - Len(head)]
    BY <1>2, <1>3, ConcatProperties
  <2> QED BY <2>1, <1>2, <1>3
<1>6. Own = head \o web /\ Neighbour = head \o web2
  BY DEF Own, Neighbour, ManagedComment, managedCommentPrefix, head, web, web2
<1>7. /\ Lookalike \in Seq(Tokens) /\ Len(Lookalike) = 2
      /\ Lookalike[1] = "operator" /\ Lookalike[2] = "-old"
  BY <1>t DEF Lookalike
<1> QED BY <1>4, <1>5, <1>6, <1>7

(* A comment with a chain behind it goes on with a slash. *)
LEMMA PartTokens ==
  ASSUME NEW comment \in Seq(Tokens), NEW chain \in Chains
  PROVE  /\ Part(comment, chain) \in Seq(Tokens)
         /\ \A i \in 1 .. Len(comment) : Part(comment, chain)[i] = comment[i]
         /\ table # "nat" => Part(comment, chain) = comment
         /\ table = "nat" => /\ Len(Part(comment, chain)) = Len(comment) + 2
                             /\ Part(comment, chain)[Len(comment) + 1] = "/"
                             /\ Part(comment, chain)[Len(comment) + 2] = chain
<1> DEFINE tail == <<"/", chain>>
<1>1. table = "nat" => tail \in Seq(Tokens) /\ Len(tail) = 2 /\ tail[1] = "/" /\ tail[2] = chain
  <2> HAVE table = "nat"
  <2>1. chain \in Tokens /\ "/" \in Tokens
    BY DEF Chains, Tokens
  <2> QED BY <2>1
<1>2. Part(comment, chain) = IF table = "nat" THEN comment \o tail ELSE comment
  BY DEF Part
<1> HIDE DEF tail
<1>6. CASE table # "nat"
  BY <1>2, <1>6
<1>7. CASE table = "nat"
  <2>1. /\ comment \o tail \in Seq(Tokens) /\ Len(comment \o tail) = Len(comment) + 2
        /\ \A i \in 1 .. Len(comment) + 2 : (comment \o tail)[i] =
             IF i <= Len(comment) THEN comment[i] ELSE tail[i - Len(comment)]
    <3>1. tail \in Seq(Tokens) /\ Len(tail) = 2
      BY <1>1, <1>7
    <3>2. /\ comment \o tail \in Seq(Tokens) /\ Len(comment \o tail) = Len(comment) + Len(tail)
          /\ \A i \in 1 .. Len(comment) + Len(tail) : (comment \o tail)[i] =
               IF i <= Len(comment) THEN comment[i] ELSE tail[i - Len(comment)]
      BY <3>1, ConcatProperties
    <3> QED BY <3>1, <3>2
  <2>2. Len(comment) \in Nat
    OBVIOUS
  <2>3. /\ \A i \in 1 .. Len(comment) : (comment \o tail)[i] = comment[i]
        /\ (comment \o tail)[Len(comment) + 1] = "/" /\ (comment \o tail)[Len(comment) + 2] = chain
    BY <1>1, <1>7, <2>1, <2>2
  <2> QED BY <1>2, <1>7, <2>1, <2>3
<1> QED BY <1>6, <1>7

(* What managedCommentPrefixMatches decides. *)
LEMMA PrefixMatches ==
  ASSUME NEW value \in Seq(Tokens), NEW prefix \in Seq(Tokens)
  PROVE  managedCommentPrefixMatches(value, prefix) <=>
           \/ value = prefix
           \/ /\ Len(prefix) < Len(value)
              /\ \A i \in 1 .. Len(prefix) : value[i] = prefix[i]
              /\ value[Len(prefix) + 1] = "/"
<1> DEFINE p == Append(prefix, "/")
           n == Len(prefix)
<1>1. /\ n \in Nat /\ Len(value) \in Nat
      /\ p \in Seq(Tokens) /\ Len(p) = n + 1 /\ p[n + 1] = "/"
      /\ \A i \in 1 .. n : p[i] = prefix[i]
  <2>1. "/" \in Tokens
    BY DEF Tokens
  <2> QED BY <2>1, AppendProperties
<1> HIDE DEF p, n
<1>2. managedCommentPrefixMatches(value, prefix) <=>
        value = prefix \/ (n + 1 <= Len(value) /\ SubSeq(p, 1, n + 1) = SubSeq(value, 1, n + 1))
  BY <1>1 DEF managedCommentPrefixMatches, IsPrefix, p
<1>3. /\ SubSeq(p, 1, n + 1) \in Seq(Tokens) /\ Len(SubSeq(p, 1, n + 1)) = n + 1
      /\ \A i \in 1 .. n + 1 : SubSeq(p, 1, n + 1)[i] = p[i]
  <2>1. \A i \in 1 .. n + 1 : p[i] \in Tokens
    BY <1>1
  <2> QED BY <2>1, <1>1, SubSeqProperties
<1>4. ASSUME n + 1 <= Len(value)
      PROVE  SubSeq(p, 1, n + 1) = SubSeq(value, 1, n + 1) <=>
               \A i \in 1 .. n + 1 : value[i] = p[i]
  <2>1. \A i \in 1 .. n + 1 : value[i] \in Tokens
    BY <1>1, <1>4
  <2>2. /\ SubSeq(value, 1, n + 1) \in Seq(Tokens) /\ Len(SubSeq(value, 1, n + 1)) = n + 1
        /\ \A i \in 1 .. n + 1 : SubSeq(value, 1, n + 1)[i] = value[i]
    BY <2>1, <1>1, SubSeqProperties
  <2>3. SubSeq(p, 1, n + 1) = SubSeq(value, 1, n + 1) => \A i \in 1 .. n + 1 : value[i] = p[i]
    BY <2>2, <1>3
  <2>4. (\A i \in 1 .. n + 1 : value[i] = p[i]) => SubSeq(p, 1, n + 1) = SubSeq(value, 1, n + 1)
    <3> HAVE \A i \in 1 .. n + 1 : value[i] = p[i]
    <3> DEFINE a == SubSeq(p, 1, n + 1)
               b == SubSeq(value, 1, n + 1)
    <3>1. /\ a \in Seq(Tokens) /\ b \in Seq(Tokens) /\ Len(a) = Len(b)
          /\ \A i \in 1 .. Len(a) : a[i] = b[i]
      BY <2>2, <1>3
    <3> HIDE DEF a, b
    <3>2. a = b
      BY <3>1, SeqEqual
    <3> QED BY <3>2 DEF a, b
  <2> QED BY <2>3, <2>4
<1>5. (\A i \in 1 .. n + 1 : value[i] = p[i]) <=>
        ((\A i \in 1 .. n : value[i] = prefix[i]) /\ value[n + 1] = "/")
  <2>1. \A i : i \in 1 .. n + 1 <=> (i \in 1 .. n \/ i = n + 1)
    BY <1>1
  <2> QED BY <2>1, <1>1
<1>6. n + 1 <= Len(value) <=> n < Len(value)
  BY <1>1
<1> QED BY <1>2, <1>4, <1>5, <1>6 DEF n

LEMMA ChainsAre ==
  /\ table = "nat" => Chains = {"dstnat", "srcnat"}
  /\ table = "filter" => Chains = {"forward", "input"}
  /\ table \notin {"nat", "filter"} => Chains = {"none"}
  /\ Chains # {}
BY DEF Chains

(* The comments of different owners are told apart. *)
LEMMA Owners ==
  ASSUME NEW chain \in Chains
  PROVE  /\ managedCommentPrefixMatches(Part(Own, chain), Own)
         /\ isManagedComment(Part(Own, chain))
         /\ ~managedCommentPrefixMatches(Part(Neighbour, chain), Own)
         /\ Part(Neighbour, chain) # Own
         /\ isManagedComment(Part(Neighbour, chain))
<1> DEFINE own == Part(Own, chain)
           next == Part(Neighbour, chain)
<1>1. /\ own \in Seq(Tokens)
      /\ \A i \in 1 .. 3 : own[i] = Own[i]
      /\ table # "nat" => own = Own
      /\ table = "nat" => Len(own) = 5 /\ own[4] = "/"
  <2>1. /\ own \in Seq(Tokens)
        /\ \A i \in 1 .. Len(Own) : own[i] = Own[i]
        /\ table # "nat" => own = Own
        /\ table = "nat" => Len(own) = Len(Own) + 2 /\ own[Len(Own) + 1] = "/"
    BY CommentTokens, PartTokens
  <2> HIDE DEF own
  <2>2. Len(Own) = 3
    BY CommentTokens
  <2> QED BY <2>1, <2>2
<1>2. /\ next \in Seq(Tokens)
      /\ \A i \in 1 .. 4 : next[i] = Neighbour[i]
      /\ table # "nat" => next = Neighbour
      /\ table = "nat" => Len(next) = 6
  <2>1. /\ next \in Seq(Tokens)
        /\ \A i \in 1 .. Len(Neighbour) : next[i] = Neighbour[i]
        /\ table # "nat" => next = Neighbour
        /\ table = "nat" => Len(next) = Len(Neighbour) + 2
    BY CommentTokens, PartTokens
  <2> HIDE DEF next
  <2>2. Len(Neighbour) = 4
    BY CommentTokens
  <2> QED BY <2>1, <2>2
<1> HIDE DEF own, next
<1>3. Len(own) > 2 /\ own[1] = "operator" /\ own[2] = "/"
  <2>1. own[1] = Own[1] /\ own[2] = Own[2]
    BY <1>1
  <2>2. Len(own) = 3 \/ Len(own) = 5
    BY <1>1, CommentTokens, Zenon
  <2>3. Len(own) > 2
    BY <2>2
  <2> QED BY <2>1, <2>3, CommentTokens, Zenon
<1>4. Len(next) > 2 /\ next[1] = "operator" /\ next[2] = "/" /\ next[4] = "-2"
  BY <1>2, CommentTokens
<1>5. managedCommentPrefix \in Seq(Tokens) /\ Len(managedCommentPrefix) = 1
      /\ managedCommentPrefix[1] = "operator"
  <2>1. "operator" \in Tokens
    BY DEF Tokens
  <2> QED BY <2>1 DEF managedCommentPrefix
<1>6. \A c \in Seq(Tokens) :
        Len(c) > 1 /\ c[1] = "operator" /\ c[2] = "/" => isManagedComment(c)
  <2> SUFFICES ASSUME NEW c \in Seq(Tokens), Len(c) > 1, c[1] = "operator", c[2] = "/"
               PROVE  isManagedComment(c)
    OBVIOUS
  <2>1. /\ Len(managedCommentPrefix) < Len(c)
        /\ \A i \in 1 .. Len(managedCommentPrefix) : c[i] = managedCommentPrefix[i]
        /\ c[Len(managedCommentPrefix) + 1] = "/"
    BY <1>5
  <2> QED BY <2>1, <1>5, PrefixMatches DEF isManagedComment
<1>7. isManagedComment(own) /\ isManagedComment(next)
  BY <1>1, <1>2, <1>3, <1>4, <1>6
<1>8. managedCommentPrefixMatches(own, Own)
  <2>1. CASE table # "nat"
    BY <2>1, <1>1 DEF managedCommentPrefixMatches
  <2>2. CASE table = "nat"
    <3>1. Own \in Seq(Tokens) /\ Len(Own) = 3
      BY CommentTokens
    <3>2. /\ Len(Own) < Len(own) /\ own[Len(Own) + 1] = "/"
          /\ \A i \in 1 .. Len(Own) : own[i] = Own[i]
      <4>1. Len(own) = 5 /\ own[4] = "/"
        BY <2>2, <1>1
      <4>2. 3 < 5 /\ 3 + 1 = 4
        OBVIOUS
      <4>3. Len(Own) < Len(own) /\ own[Len(Own) + 1] = "/"
        BY <3>1, <4>1, <4>2
      <4> QED BY <4>3, <3>1, <1>1
    <3> QED BY <3>1, <3>2, <1>1, PrefixMatches
  <2> QED BY <2>1, <2>2
<1>9. ~managedCommentPrefixMatches(next, Own) /\ next # Own
  <2>1. Own \in Seq(Tokens) /\ Len(Own) = 3 /\ Len(Own) + 1 = 4
    BY CommentTokens
  <2>2. Len(next) # 3
    <3>1. 4 # 3 /\ 6 # 3
      OBVIOUS
    <3> QED BY <3>1, <1>2, CommentTokens, Zenon
  <2>3. next # Own /\ next[Len(Own) + 1] # "/"
    <3>1. "-2" # "/"
      OBVIOUS
    <3> QED BY <3>1, <2>1, <2>2, <1>4, Zenon
  <2> QED BY <2>1, <2>3, <1>2, PrefixMatches
<1> QED BY <1>7, <1>8, <1>9 DEF own, next

LEMMA LookalikeIsNotManaged ==
  ~isManagedComment(Lookalike) /\ ~managedCommentPrefixMatches(Lookalike, Own) /\ Lookalike # Own
<1>1. managedCommentPrefix \in Seq(Tokens) /\ Len(managedCommentPrefix) = 1
  <2>1. "operator" \in Tokens
    BY DEF Tokens
  <2> QED BY <2>1 DEF managedCommentPrefix
<1>2. ~isManagedComment(Lookalike)
  <2>1. /\ Lookalike \in Seq(Tokens) /\ Len(Lookalike) = 2 /\ Len(managedCommentPrefix) + 1 = 2
        /\ Lookalike[2] # "/"
    BY <1>1, CommentTokens
  <2>2. Lookalike # managedCommentPrefix /\ Lookalike[Len(managedCommentPrefix) + 1] # "/"
    <3>1. 1 # 2
      OBVIOUS
    <3> QED BY <3>1, <2>1, <1>1, Zenon
  <2> QED BY <2>1, <2>2, <1>1, PrefixMatches DEF isManagedComment
<1>3. Lookalike # Own /\ ~(Len(Own) < Len(Lookalike))
  BY CommentTokens
<1> QED BY <1>2, <1>3, CommentTokens, PrefixMatches

(* So the code takes for the resource's rows those that are. *)
LEMMA Entries ==
  ASSUME TypeOK, RowsKnown
  PROVE  /\ managedEntries = OwnIds
         /\ deletedEntries = Removable(call.op)
         /\ OwnIds \cap UnmanagedIds = {}
         /\ \A i \in DOMAIN rows : isManagedComment(rows[i].comment) <=> i \notin UnmanagedIds
<1>1. table \in {"dns", "route", "nat", "filter"}
  BY ClientAssumption DEF TypeOK
<1>2. table # "nat" => \A chain \in Chains : Part(Own, chain) = Own
  BY DEF Part
<1>3. ASSUME NEW i \in DOMAIN rows
      PROVE  /\ managedCommentPrefixMatches(rows[i].comment, Own) <=> IsOwn(rows[i])
             /\ table # "nat" => (rows[i].comment = Own <=> IsOwn(rows[i]))
             /\ isManagedComment(rows[i].comment) <=> i \notin UnmanagedIds
             /\ ~(IsOwn(rows[i]) /\ i \in UnmanagedIds)
  <2> DEFINE c == rows[i].comment
  <2>1. \/ c = Lookalike
        \/ \E chain \in Chains : c = Part(Own, chain)
        \/ \E chain \in Chains : c = Part(Neighbour, chain)
    BY DEF RowsKnown, RowComments, Unmanaged
  <2>2. IsOwn(rows[i]) <=> \E chain \in Chains : c = Part(Own, chain)
    BY DEF IsOwn
  <2>3. i \in UnmanagedIds <=> c = Lookalike
    BY DEF UnmanagedIds, Unmanaged
  <2> HIDE DEF c
  <2>4. \A chain \in Chains : Part(Own, chain) # Lookalike /\ Part(Neighbour, chain) # Lookalike
    BY Owners, LookalikeIsNotManaged
  <2>5. \A chain, d \in Chains : Part(Neighbour, chain) # Part(Own, d)
    BY Owners
  <2>6. table # "nat" => (c = Own <=> \E chain \in Chains : c = Part(Own, chain))
    BY <1>2, ChainsAre
  <2>7. managedCommentPrefixMatches(c, Own) <=> \E chain \in Chains : c = Part(Own, chain)
    BY <2>1, Owners, LookalikeIsNotManaged
  <2>8. isManagedComment(c) <=> c # Lookalike
    BY <2>1, Owners, LookalikeIsNotManaged
  <2> QED BY <2>2, <2>3, <2>4, <2>6, <2>7, <2>8 DEF c
<1>4. managedEntries = OwnIds
  BY <1>3 DEF managedEntries, OwnIds
<1>5. deletedEntries = Removable(call.op)
  BY <1>1, <1>3 DEF deletedEntries, Removable, OwnIds
<1> QED BY <1>3, <1>4, <1>5 DEF OwnIds

--------------------------------------------------------------------------------
(* What a command does to the table. *)

LEMMA Inserted ==
  ASSUME rows \in Seq(Rows), NEW i \in 1 .. Len(rows) + 1, NEW row \in Rows,
         NEW e, e = Insertion(i, row)
  PROVE  /\ e.new \in Seq(Rows)
         /\ i \in DOMAIN e.new /\ e.new[i] = row
         /\ e.id \in [DOMAIN rows -> DOMAIN e.new]
         /\ \A j \in DOMAIN rows : e.id[j] = IF j < i THEN j ELSE j + 1
         /\ \A j \in DOMAIN rows : e.new[e.id[j]] = rows[j] /\ e.id[j] # i
         /\ \A j, k \in DOMAIN rows : j < k => e.id[j] < e.id[k]
         /\ \A k \in DOMAIN e.new : k = i \/ \E j \in DOMAIN rows : k = e.id[j]
<1> DEFINE n == Len(rows)
           a == SubSeq(rows, 1, i - 1)
           b == SubSeq(rows, i, n)
           m == <<row>>
<1>1. n \in Nat /\ DOMAIN rows = 1 .. n /\ \A j \in 1 .. n : rows[j] \in Rows
  OBVIOUS
<1>2. e.new = (a \o m) \o b /\ e.id = [j \in 1 .. n |-> IF j < i THEN j ELSE j + 1]
  BY <1>1 DEF Insertion, InsertAt
<1>3. a \in Seq(Rows) /\ Len(a) = i - 1 /\ \A j \in 1 .. i - 1 : a[j] = rows[j]
  <2>1. \A j \in 1 .. i - 1 : rows[j] \in Rows
    BY <1>1
  <2>2. /\ a \in Seq(Rows)
        /\ Len(a) = IF 1 <= i - 1 THEN i - 1 - 1 + 1 ELSE 0
        /\ \A j \in 1 .. i - 1 - 1 + 1 : a[j] = rows[1 + j - 1]
    BY <2>1, <1>1, SubSeqProperties
  <2> HIDE DEF a
  <2> QED BY <2>2, <1>1
<1>4. b \in Seq(Rows) /\ Len(b) = n - i + 1 /\ \A j \in 1 .. n - i + 1 : b[j] = rows[i + j - 1]
  <2>1. \A j \in i .. n : rows[j] \in Rows
    BY <1>1
  <2>2. /\ b \in Seq(Rows)
        /\ Len(b) = IF i <= n THEN n - i + 1 ELSE 0
        /\ \A j \in 1 .. n - i + 1 : b[j] = rows[i + j - 1]
    BY <2>1, <1>1, SubSeqProperties
  <2> HIDE DEF b
  <2> QED BY <2>2, <1>1
<1>5. m \in Seq(Rows) /\ Len(m) = 1 /\ m[1] = row
  OBVIOUS
<1> HIDE DEF a, b, m, n
<1>6. /\ a \o m \in Seq(Rows) /\ Len(a \o m) = i
      /\ \A j \in 1 .. i - 1 : (a \o m)[j] = rows[j]
      /\ (a \o m)[i] = row
  <2>1. /\ a \o m \in Seq(Rows) /\ Len(a \o m) = Len(a) + Len(m)
        /\ \A j \in 1 .. Len(a) + Len(m) :
             (a \o m)[j] = IF j <= Len(a) THEN a[j] ELSE m[j - Len(a)]
    BY <1>3, <1>5, ConcatProperties
  <2> QED BY <2>1, <1>1, <1>3, <1>5
<1>7. /\ e.new \in Seq(Rows) /\ Len(e.new) = n + 1
      /\ \A j \in 1 .. i - 1 : e.new[j] = rows[j]
      /\ e.new[i] = row
      /\ \A j \in i .. n : e.new[j + 1] = rows[j]
  <2> DEFINE am == a \o m
  <2> HIDE DEF am
  <2>1. /\ am \o b \in Seq(Rows) /\ Len(am \o b) = Len(am) + Len(b)
        /\ \A j \in 1 .. Len(am) + Len(b) :
             (am \o b)[j] = IF j <= Len(am) THEN am[j] ELSE b[j - Len(am)]
    <3>1. am \in Seq(Rows) /\ b \in Seq(Rows)
      BY <1>4, <1>6 DEF am
    <3> QED BY <3>1, ConcatProperties
  <2>2. Len(am) = i /\ am[i] = row /\ \A j \in 1 .. i - 1 : am[j] = rows[j]
    BY <1>6 DEF am
  <2>3. Len(am \o b) = n + 1
    BY <2>1, <2>2, <1>1, <1>4
  <2>4. ASSUME NEW j \in i .. n PROVE (am \o b)[j + 1] = rows[j]
    <3>1. j + 1 \in 1 .. Len(am) + Len(b) /\ ~(j + 1 <= Len(am)) /\ j + 1 - Len(am) \in 1 .. n - i + 1
      BY <2>2, <1>1, <1>4
    <3>2. (am \o b)[j + 1] = b[j + 1 - Len(am)]
      BY <3>1, <2>1
    <3>3. b[j + 1 - i] = rows[i + (j + 1 - i) - 1]
      BY <3>1, <2>2, <1>4
    <3>4. i + (j + 1 - i) - 1 = j
      BY <1>1
    <3> QED BY <3>2, <3>3, <3>4, <2>2
  <2>5. ASSUME NEW j \in 1 .. i PROVE (am \o b)[j] = am[j]
    BY <2>1, <2>2, <1>1, <1>4
  <2> QED BY <2>1, <2>2, <2>3, <2>4, <2>5, <1>1, <1>2 DEF am
<1>8. DOMAIN e.new = 1 .. n + 1
  BY <1>7, <1>1
<1>9. \A j \in 1 .. n : e.id[j] = IF j < i THEN j ELSE j + 1
  BY <1>2
<1>10. \A j \in 1 .. n : e.id[j] \in 1 .. n + 1 /\ e.id[j] # i /\ e.new[e.id[j]] = rows[j]
  <2> TAKE j \in 1 .. n
  <2>1. CASE j < i
    <3>1. j \in 1 .. i - 1 /\ j \in 1 .. n + 1 /\ j # i
      BY <2>1, <1>1
    <3> QED BY <3>1, <2>1, <1>7, <1>9
  <2>2. CASE ~(j < i)
    <3>1. j \in i .. n /\ j + 1 \in 1 .. n + 1 /\ j + 1 # i
      BY <2>2, <1>1
    <3> QED BY <3>1, <2>2, <1>7, <1>9
  <2> QED BY <2>1, <2>2
<1>11. e.id \in [1 .. n -> 1 .. n + 1]
  BY <1>2, <1>10
<1>12. \A j, k \in 1 .. n : j < k => e.id[j] < e.id[k]
  BY <1>9, <1>1
<1>13. \A k \in 1 .. n + 1 : k = i \/ \E j \in 1 .. n : k = e.id[j]
  <2> TAKE k \in 1 .. n + 1
  <2>1. CASE k < i
    <3>1. k \in 1 .. n
      BY <2>1, <1>1
    <3>2. e.id[k] = k
      BY <3>1, <2>1, <1>9
    <3> QED BY <3>1, <3>2
  <2>2. CASE k > i
    <3>1. k - 1 \in 1 .. n /\ ~(k - 1 < i) /\ (k - 1) + 1 = k
      BY <2>2, <1>1
    <3>2. e.id[k - 1] = k
      BY <3>1, <1>9
    <3> QED BY <3>1, <3>2
  <2> QED BY <2>1, <2>2, <1>1
<1>14. i \in 1 .. n + 1
  BY DEF n
<1> QED BY <1>1, <1>7, <1>8, <1>9, <1>10, <1>11, <1>12, <1>13, <1>14 DEF n

LEMMA Removed ==
  ASSUME rows \in Seq(Rows), NEW i \in DOMAIN rows, NEW e, e = Removal(i)
  PROVE  /\ e.new \in Seq(Rows)
         /\ e.id \in [DOMAIN rows -> DOMAIN e.new \cup {Gone}] /\ e.id[i] = Gone
         /\ \A j \in DOMAIN rows \ {i} : e.id[j] \in DOMAIN e.new /\ e.new[e.id[j]] = rows[j]
         /\ \A j, k \in DOMAIN rows \ {i} : j < k => e.id[j] < e.id[k]
         /\ \A k \in DOMAIN e.new : \E j \in DOMAIN rows \ {i} : k = e.id[j]
<1> DEFINE n == Len(rows)
           a == SubSeq(rows, 1, i - 1)
           b == SubSeq(rows, i + 1, n)
<1>1. n \in Nat /\ DOMAIN rows = 1 .. n /\ i \in 1 .. n /\ \A j \in 1 .. n : rows[j] \in Rows
  OBVIOUS
<1>2. /\ e.new = a \o b
      /\ e.id = [j \in 1 .. n |-> IF j < i THEN j ELSE IF j = i THEN Gone ELSE j - 1]
  BY <1>1 DEF Removal, RemoveAt
<1>3. a \in Seq(Rows) /\ Len(a) = i - 1 /\ \A j \in 1 .. i - 1 : a[j] = rows[j]
  <2>1. \A j \in 1 .. i - 1 : rows[j] \in Rows
    BY <1>1
  <2>2. /\ a \in Seq(Rows)
        /\ Len(a) = IF 1 <= i - 1 THEN i - 1 - 1 + 1 ELSE 0
        /\ \A j \in 1 .. i - 1 - 1 + 1 : a[j] = rows[1 + j - 1]
    BY <2>1, <1>1, SubSeqProperties
  <2> HIDE DEF a
  <2> QED BY <2>2, <1>1
<1>4. b \in Seq(Rows) /\ Len(b) = n - i /\ \A j \in 1 .. n - i : b[j] = rows[i + j]
  <2>1. \A j \in i + 1 .. n : rows[j] \in Rows
    BY <1>1
  <2>2. /\ b \in Seq(Rows)
        /\ Len(b) = IF i + 1 <= n THEN n - (i + 1) + 1 ELSE 0
        /\ \A j \in 1 .. n - (i + 1) + 1 : b[j] = rows[i + 1 + j - 1]
    BY <2>1, <1>1, SubSeqProperties
  <2> HIDE DEF b, n
  <2>3. n - (i + 1) + 1 = n - i /\ (~(i + 1 <= n) => n - i = 0) /\ \A j \in 1 .. n - i : i + 1 + j - 1 = i + j
    BY <1>1
  <2> QED BY <2>2, <2>3
<1> HIDE DEF a, b, n
<1>5. /\ e.new \in Seq(Rows) /\ Len(e.new) = n - 1
      /\ \A j \in 1 .. i - 1 : e.new[j] = rows[j]
      /\ \A j \in i + 1 .. n : e.new[j - 1] = rows[j]
  <2>1. /\ a \o b \in Seq(Rows) /\ Len(a \o b) = Len(a) + Len(b)
        /\ \A j \in 1 .. Len(a) + Len(b) :
             (a \o b)[j] = IF j <= Len(a) THEN a[j] ELSE b[j - Len(a)]
    BY <1>3, <1>4, ConcatProperties
  <2>2. Len(a \o b) = n - 1
    BY <2>1, <1>1, <1>3, <1>4
  <2>3. ASSUME NEW j \in i + 1 .. n PROVE (a \o b)[j - 1] = rows[j]
    <3>1. /\ j - 1 \in 1 .. Len(a) + Len(b) /\ ~(j - 1 <= Len(a))
          /\ j - 1 - Len(a) = j - i /\ j - i \in 1 .. n - i /\ i + (j - i) = j
      BY <1>1, <1>3, <1>4
    <3>2. (a \o b)[j - 1] = b[j - 1 - Len(a)]
      BY <3>1, <2>1
    <3>3. b[j - i] = rows[i + (j - i)]
      BY <3>1, <1>4
    <3> QED BY <3>1, <3>2, <3>3
  <2>4. ASSUME NEW j \in 1 .. i - 1 PROVE (a \o b)[j] = rows[j]
    BY <2>1, <1>1, <1>3, <1>4
  <2> QED BY <2>1, <2>2, <2>3, <2>4, <1>2
<1>6. DOMAIN e.new = 1 .. n - 1
  BY <1>5, <1>1
<1>7. \A j \in 1 .. n : e.id[j] = IF j < i THEN j ELSE IF j = i THEN Gone ELSE j - 1
  BY <1>2
<1>8. e.id[i] = Gone
  BY <1>1, <1>7
<1>9. \A j \in (1 .. n) \ {i} : e.id[j] \in 1 .. n - 1 /\ e.new[e.id[j]] = rows[j]
  <2> TAKE j \in (1 .. n) \ {i}
  <2>1. CASE j < i
    <3>1. j \in 1 .. i - 1 /\ j \in 1 .. n - 1
      BY <2>1, <1>1
    <3> QED BY <3>1, <2>1, <1>5, <1>7
  <2>2. CASE ~(j < i)
    <3>1. j \in i + 1 .. n /\ j - 1 \in 1 .. n - 1
      BY <2>2, <1>1
    <3> QED BY <3>1, <2>2, <1>5, <1>7
  <2> QED BY <2>1, <2>2
<1>10. e.id \in [1 .. n -> (1 .. n - 1) \cup {Gone}]
  BY <1>2, <1>8, <1>9
<1>11. \A j, k \in (1 .. n) \ {i} : j < k => e.id[j] < e.id[k]
  BY <1>7, <1>1
<1>12. \A k \in 1 .. n - 1 : \E j \in (1 .. n) \ {i} : k = e.id[j]
  <2> TAKE k \in 1 .. n - 1
  <2>1. CASE k < i
    <3>1. k \in (1 .. n) \ {i}
      BY <2>1, <1>1
    <3>2. e.id[k] = k
      BY <3>1, <2>1, <1>7
    <3> QED BY <3>1, <3>2
  <2>2. CASE ~(k < i)
    <3>1. k + 1 \in (1 .. n) \ {i} /\ ~(k + 1 < i) /\ (k + 1) - 1 = k
      BY <2>2, <1>1
    <3>2. e.id[k + 1] = k
      BY <3>1, <1>7
    <3> QED BY <3>1, <3>2
  <2> QED BY <2>1, <2>2
<1> QED BY <1>1, <1>5, <1>6, <1>8, <1>9, <1>10, <1>11, <1>12

LEMMA EffectKinds ==
  ASSUME TypeOK, NEW command \in TableCommands, Accepted(command)
  PROVE  \/ /\ command.op = "remove" /\ command.id \in DOMAIN rows
            /\ Effect(command) = Removal(command.id)
         \/ /\ command.op = "add" /\ command.row \in Rows
            /\ \E i \in 1 .. Len(rows) + 1 :
                 /\ command.id # Nothing => i = command.id
                 /\ Effect(command) = Insertion(i, command.row)
<1>1. rows \in Seq(Rows) /\ Len(rows) \in Nat /\ DOMAIN rows = 1 .. Len(rows)
  BY DEF TypeOK
<1>2. command.id \in Ids \cup {Nothing} /\ command.id # Gone
  BY DEF TableCommands, Accepted
<1>3. CASE command.op = "remove"
  <2>1. command.id \in Ids
    BY <1>3 DEF TableCommands
  <2> QED BY <2>1, <1>2, <1>3 DEF Ids, Effect
<1>4. CASE command.op = "add" /\ command.id = Nothing
  <2>1. command.row \in Rows
    BY <1>4 DEF TableCommands
  <2>2. Effect(command) = Insertion(Len(rows) + 1, command.row)
    BY <1>4 DEF Effect
  <2>3. Len(rows) + 1 \in 1 .. Len(rows) + 1
    BY <1>1
  <2> QED BY <2>1, <2>2, <2>3, <1>4
<1>5. CASE command.op = "add" /\ command.id # Nothing
  <2>1. command.row \in Rows
    BY <1>5 DEF TableCommands
  <2>2. Effect(command) = Insertion(command.id, command.row)
    BY <1>5 DEF Effect
  <2>3. command.id \in DOMAIN rows
    BY <1>2, <1>5 DEF Ids
  <2>4. command.id \in 1 .. Len(rows) + 1
    BY <2>3, <1>1
  <2> QED BY <2>1, <2>2, <2>4, <1>5
<1> QED BY <1>3, <1>4, <1>5 DEF TableCommands

(* Rows keep their comments, and so their owners, wherever they go. *)
Moves(id) ==
  /\ rows' \in Seq(Rows)
  /\ id \in [DOMAIN rows -> DOMAIN rows' \cup {Gone}]
  /\ \A i \in DOMAIN rows : id[i] # Gone => rows'[id[i]].comment = rows[i].comment
  /\ \A k \in DOMAIN rows' : rows'[k].comment \in RowComments

LEMMA InsertionMoves ==
  ASSUME TypeOK, RowsKnown, NEW i \in 1 .. Len(rows) + 1, NEW row \in Rows,
         row.comment \in RowComments, NEW e, e = Insertion(i, row), rows' = e.new
  PROVE  Moves(e.id)
<1>1. rows \in Seq(Rows)
  BY DEF TypeOK
<1>2. /\ rows' \in Seq(Rows) /\ rows'[i] = row
      /\ e.id \in [DOMAIN rows -> DOMAIN rows']
      /\ \A j \in DOMAIN rows : rows'[e.id[j]] = rows[j]
      /\ \A k \in DOMAIN rows' : k = i \/ \E j \in DOMAIN rows : k = e.id[j]
  BY <1>1, Inserted
<1>3. \A k \in DOMAIN rows' : rows'[k].comment \in RowComments
  BY <1>2 DEF RowsKnown
<1> QED BY <1>2, <1>3 DEF Moves

LEMMA RemovalMoves ==
  ASSUME TypeOK, RowsKnown, NEW i \in DOMAIN rows, NEW e, e = Removal(i), rows' = e.new
  PROVE  Moves(e.id)
<1>1. rows \in Seq(Rows)
  BY DEF TypeOK
<1>2. /\ rows' \in Seq(Rows)
      /\ e.id \in [DOMAIN rows -> DOMAIN rows' \cup {Gone}] /\ e.id[i] = Gone
      /\ \A j \in DOMAIN rows \ {i} : rows'[e.id[j]] = rows[j]
      /\ \A k \in DOMAIN rows' : \E j \in DOMAIN rows \ {i} : k = e.id[j]
  BY <1>1, Removed
<1>3. \A k \in DOMAIN rows' : rows'[k].comment \in RowComments
  BY <1>2 DEF RowsKnown
<1> QED BY <1>2, <1>3 DEF Moves

LEMMA EffectMoves ==
  ASSUME ClientInv, NEW command \in TableCommands, SafeCommand(command), Accepted(command),
         NEW e, e = Effect(command), rows' = e.new
  PROVE  Moves(e.id)
<1>1. TypeOK /\ RowsKnown
  BY DEF ClientInv
<1>2. CASE command.op = "remove" /\ command.id \in DOMAIN rows /\ Effect(command) = Removal(command.id)
  BY <1>1, <1>2, RemovalMoves
<1>3. CASE command.op = "add" /\ command.row \in Rows
           /\ \E i \in 1 .. Len(rows) + 1 : Effect(command) = Insertion(i, command.row)
  <2>1. command.row.comment \in RowComments
    BY <1>3 DEF SafeCommand, IsOwn, RowComments
  <2> QED BY <1>1, <1>3, <2>1, InsertionMoves
<1> QED BY <1>1, <1>2, <1>3, EffectKinds

(* The rows that are not removed are still there, in the same order. *)
LEMMA InsertionKeeps ==
  ASSUME TypeOK, NEW i \in 1 .. Len(rows) + 1, NEW row \in Rows,
         NEW e, e = Insertion(i, row), rows' = e.new,
         NEW ids \in SUBSET (DOMAIN rows), NEW new \in SUBSET (DOMAIN rows'),
         i \notin new, \A j \in DOMAIN rows : e.id[j] \in new <=> j \in ids
  PROVE  StillThere(ids, new)
<1>1. rows \in Seq(Rows)
  BY DEF TypeOK
<1>2. /\ e.id \in [DOMAIN rows -> DOMAIN rows']
      /\ \A j \in DOMAIN rows : rows'[e.id[j]] = rows[j]
      /\ \A j, k \in DOMAIN rows : j < k => e.id[j] < e.id[k]
      /\ \A k \in DOMAIN rows' : k = i \/ \E j \in DOMAIN rows : k = e.id[j]
  BY <1>1, Inserted
<1> DEFINE f == [j \in ids |-> e.id[j]]
<1>3. f \in [ids -> new] /\ \A j \in ids : f[j] = e.id[j]
  BY <1>2
<1>4. \A k \in new : \E j \in ids : k = f[j]
  BY <1>2, <1>3
<1>5. DOMAIN f = ids
  OBVIOUS
<1> HIDE DEF f
<1>6. Range(f) = new
  BY <1>3, <1>4, <1>5 DEF Range
<1>7. \A j \in ids : rows'[f[j]] = rows[j]
  BY <1>2, <1>3
<1>8. \A j, k \in ids : j < k => f[j] < f[k]
  BY <1>2, <1>3
<1> QED BY <1>3, <1>6, <1>7, <1>8 DEF StillThere

LEMMA RemovalKeeps ==
  ASSUME TypeOK, NEW i \in DOMAIN rows, NEW e, e = Removal(i), rows' = e.new,
         NEW ids \in SUBSET (DOMAIN rows \ {i}), NEW new \in SUBSET (DOMAIN rows'),
         \A j \in DOMAIN rows \ {i} : e.id[j] \in new <=> j \in ids
  PROVE  StillThere(ids, new)
<1>1. rows \in Seq(Rows)
  BY DEF TypeOK
<1>2. /\ \A j \in DOMAIN rows \ {i} : e.id[j] \in DOMAIN rows' /\ rows'[e.id[j]] = rows[j]
      /\ \A j, k \in DOMAIN rows \ {i} : j < k => e.id[j] < e.id[k]
      /\ \A k \in DOMAIN rows' : \E j \in DOMAIN rows \ {i} : k = e.id[j]
  BY <1>1, Removed
<1> DEFINE f == [j \in ids |-> e.id[j]]
<1>3. f \in [ids -> new] /\ \A j \in ids : f[j] = e.id[j]
  BY <1>2
<1>4. \A k \in new : \E j \in ids : k = f[j]
  BY <1>2, <1>3
<1>5. DOMAIN f = ids
  OBVIOUS
<1> HIDE DEF f
<1>6. Range(f) = new
  BY <1>3, <1>4, <1>5 DEF Range
<1>7. \A j \in ids : rows'[f[j]] = rows[j]
  BY <1>2, <1>3
<1>8. \A j, k \in ids : j < k => f[j] < f[k]
  BY <1>2, <1>3
<1> QED BY <1>3, <1>6, <1>7, <1>8 DEF StillThere

LEMMA SameKeeps ==
  ASSUME rows' = rows, NEW ids \in SUBSET (DOMAIN rows)
  PROVE  StillThere(ids, ids)
<1> DEFINE f == [j \in ids |-> j]
<1>1. f \in [ids -> ids] /\ DOMAIN f = ids /\ \A j \in ids : f[j] = j
  OBVIOUS
<1> HIDE DEF f
<1>2. Range(f) = ids
  BY <1>1 DEF Range
<1>3. \A j \in ids : rows'[f[j]] = rows[j]
  BY <1>1
<1>4. \A j, k \in ids : j < k => f[j] < f[k]
  BY <1>1
<1> QED BY <1>1, <1>2, <1>3, <1>4 DEF StillThere

(* Owners in the next state. *)
LEMMA SameTable ==
  ASSUME table' = table
  PROVE  /\ Chains' = Chains /\ Rows' = Rows /\ RowComments' = RowComments
         /\ OwnIds' = {i \in DOMAIN rows' : IsOwn(rows'[i])}
         /\ UnmanagedIds' = {i \in DOMAIN rows' : rows'[i].comment \in Unmanaged}
         /\ ForeignIds' = DOMAIN rows' \ OwnIds'
<1>1. Chains' = Chains
  BY DEF Chains
<1>2. \A c, chain : Part(c, chain)' = Part(c, chain)
  BY DEF Part
<1>3. RowComments' = RowComments
  BY <1>1, <1>2 DEF RowComments
<1>4. OwnIds' = {i \in DOMAIN rows' : IsOwn(rows'[i])}
  BY <1>1, <1>2 DEF OwnIds, IsOwn
<1> QED BY <1>1, <1>3, <1>4 DEF Rows, UnmanagedIds, ForeignIds

LEMMA OwnIsNotUnmanaged ==
  ASSUME NEW row, IsOwn(row)
  PROVE  row.comment \notin Unmanaged
BY Owners, LookalikeIsNotManaged DEF IsOwn, Unmanaged

LEMMA EffectKeeps ==
  ASSUME ClientInv, table' = table, NEW command \in TableCommands, SafeCommand(command),
         Accepted(command), NEW e, e = Effect(command), rows' = e.new
  PROVE  /\ StillThere(UnmanagedIds, UnmanagedIds')
         /\ (command.op = "remove" => command.id \in OwnIds) =>
              StillThere(ForeignIds, ForeignIds')
<1>1. TypeOK /\ RowsKnown /\ rows \in Seq(Rows)
  BY DEF ClientInv, TypeOK
<1>2. /\ UnmanagedIds \in SUBSET (DOMAIN rows) /\ ForeignIds \in SUBSET (DOMAIN rows)
      /\ UnmanagedIds' \in SUBSET (DOMAIN rows') /\ ForeignIds' \in SUBSET (DOMAIN rows')
  BY SameTable DEF UnmanagedIds, ForeignIds
<1>o. ASSUME NEW j \in DOMAIN rows, NEW k \in DOMAIN rows', rows'[k] = rows[j]
      PROVE  /\ k \in UnmanagedIds' <=> j \in UnmanagedIds
             /\ k \in ForeignIds' <=> j \in ForeignIds
  <2>1. k \in UnmanagedIds' <=> j \in UnmanagedIds
    BY <1>o, SameTable DEF UnmanagedIds
  <2>2. k \in OwnIds' <=> j \in OwnIds
    BY <1>o, SameTable DEF OwnIds
  <2> QED BY <2>1, <2>2, SameTable DEF ForeignIds
<1>3. CASE command.op = "remove" /\ command.id \in DOMAIN rows /\ Effect(command) = Removal(command.id)
  <2> DEFINE i == command.id
  <2>1. \A j \in DOMAIN rows \ {i} : e.id[j] \in DOMAIN rows' /\ rows'[e.id[j]] = rows[j]
    BY <1>1, <1>3, Removed
  <2>2. i \notin UnmanagedIds
    <3>1. i \in Removable("wipe") \cup {Gone} /\ i # Gone
      BY <1>3 DEF SafeCommand, Accepted
    <3> QED BY <3>1 DEF Removable
  <2>3. StillThere(UnmanagedIds, UnmanagedIds')
    <3>1. UnmanagedIds \in SUBSET (DOMAIN rows \ {i})
      BY <1>2, <2>2
    <3>2. \A j \in DOMAIN rows \ {i} : e.id[j] \in UnmanagedIds' <=> j \in UnmanagedIds
      BY <2>1, <1>o
    <3> QED BY <3>1, <3>2, <1>1, <1>2, <1>3, RemovalKeeps
  <2>4. ASSUME i \in OwnIds PROVE StillThere(ForeignIds, ForeignIds')
    <3>1. ForeignIds \in SUBSET (DOMAIN rows \ {i})
      BY <1>2, <2>4 DEF ForeignIds
    <3>2. \A j \in DOMAIN rows \ {i} : e.id[j] \in ForeignIds' <=> j \in ForeignIds
      BY <2>1, <1>o
    <3> QED BY <3>1, <3>2, <1>1, <1>2, <1>3, RemovalKeeps
  <2> QED BY <2>3, <2>4, <1>3
<1>4. ASSUME command.op = "add", command.row \in Rows, NEW i \in 1 .. Len(rows) + 1,
             Effect(command) = Insertion(i, command.row)
      PROVE  StillThere(UnmanagedIds, UnmanagedIds') /\ StillThere(ForeignIds, ForeignIds')
  <2>1. /\ i \in DOMAIN rows' /\ rows'[i] = command.row
        /\ \A j \in DOMAIN rows : e.id[j] \in DOMAIN rows' /\ rows'[e.id[j]] = rows[j]
    BY <1>1, <1>4, Inserted
  <2>2. IsOwn(command.row)
    BY <1>4 DEF SafeCommand
  <2>3. i \notin UnmanagedIds' /\ i \notin ForeignIds'
    BY <2>1, <2>2, OwnIsNotUnmanaged, SameTable
  <2>4. \A j \in DOMAIN rows : /\ e.id[j] \in UnmanagedIds' <=> j \in UnmanagedIds
                               /\ e.id[j] \in ForeignIds' <=> j \in ForeignIds
    BY <2>1, <1>o
  <2>5. StillThere(UnmanagedIds, UnmanagedIds')
    BY <2>3, <2>4, <1>1, <1>2, <1>4, InsertionKeeps
  <2>6. StillThere(ForeignIds, ForeignIds')
    BY <2>3, <2>4, <1>1, <1>2, <1>4, InsertionKeeps
  <2> QED BY <2>5, <2>6
<1> QED BY <1>1, <1>3, <1>4, EffectKinds

--------------------------------------------------------------------------------
(* The invariant, when the table changes and the call goes on as c, ... *)
LEMMA ChangeInv ==
  ASSUME ClientInv, table' = table, want' \in Values \cup {"deleting", "gone"},
         NEW e, NEW c \in Calls, NEW l, Change(e, c, l), Moves(e.id),
         CallShape(c), SafeCall(c),
         l \subseteq TableCommands, \A command \in l : SafeCommand(command),
         \A x, y \in l : x = y
  PROVE  ClientInv'
<1> DEFINE follow(x) == IF x \in Nat THEN e.id[x] ELSE x
<1>1. /\ table \in Tables /\ rows \in Seq(Rows) /\ DOMAIN rows \subseteq Nat
      /\ Gone \notin Nat /\ Nothing \notin Nat /\ Nothing # Gone
  BY ClientAssumption DEF ClientInv, TypeOK
<1>2. /\ c.todo \in Seq(Ids) /\ c.first \in [Chains -> Ids \cup {Nothing}]
      /\ c.op \in {"none", "ensure", "delete", "wipe"} /\ c.value \in Values \cup {Nothing}
      /\ c.at \in {"ok", "failed", "look", "order", "list", "remove", "first", "add", "add srcnat"}
      /\ c.calm \in BOOLEAN
  BY DEF Calls
<1>3. /\ call' = [c EXCEPT !.todo = [i \in DOMAIN c.todo |-> follow(c.todo[i])],
                           !.first = [chain \in Chains |-> follow(c.first[chain])]]
      /\ late' = {[command EXCEPT !.id = follow(command.id)] : command \in l}
  BY DEF Change, Calls
<1>4. /\ call'.op = c.op /\ call'.value = c.value /\ call'.at = c.at /\ call'.calm = c.calm
      /\ call'.todo = [i \in DOMAIN c.todo |-> follow(c.todo[i])]
      /\ call'.first = [chain \in Chains |-> follow(c.first[chain])]
      /\ call' = [op |-> call'.op, value |-> call'.value, at |-> call'.at, todo |-> call'.todo,
                  first |-> call'.first, calm |-> call'.calm]
  BY <1>3 DEF Calls
<1>5. /\ rows' \in Seq(Rows) /\ e.id \in [DOMAIN rows -> DOMAIN rows' \cup {Gone}]
      /\ \A i \in DOMAIN rows : e.id[i] # Gone => rows'[e.id[i]].comment = rows[i].comment
      /\ \A k \in DOMAIN rows' : rows'[k].comment \in RowComments
  BY DEF Moves
<1>6. \A x \in Ids : follow(x) \in Ids'
  BY <1>1, <1>5 DEF Ids
<1>7. follow(Nothing) = Nothing /\ follow(Gone) = Gone
  BY <1>1
<1>8. \A op : \A x \in Removable(op) \cup {Gone} : follow(x) \in Removable(op)' \cup {Gone}
  <2> SUFFICES ASSUME NEW op, NEW x \in Removable(op), e.id[x] # Gone
               PROVE  e.id[x] \in Removable(op)'
    <3>1. \A op : Removable(op) \subseteq Nat
      BY <1>1 DEF Removable, OwnIds
    <3> QED BY <3>1, <1>7
  <2>1. x \in DOMAIN rows
    BY DEF Removable, OwnIds
  <2>2. e.id[x] \in DOMAIN rows' /\ rows'[e.id[x]].comment = rows[x].comment
    BY <2>1, <1>5
  <2>3. x \in OwnIds => e.id[x] \in OwnIds'
    BY <2>1, <2>2, SameTable DEF OwnIds, IsOwn
  <2>4. x \notin UnmanagedIds => e.id[x] \notin UnmanagedIds'
    BY <2>1, <2>2, SameTable DEF UnmanagedIds
  <2> QED BY <2>2, <2>3, <2>4 DEF Removable
<1> HIDE DEF follow
<1>9. call' \in Calls'
  <2>1. DOMAIN c.todo = 1 .. Len(c.todo) /\ Len(c.todo) \in Nat /\ \A i \in DOMAIN c.todo : c.todo[i] \in Ids
    <3> DEFINE t == c.todo
    <3> HIDE DEF t
    <3>1. t \in Seq(Ids)
      BY <1>2 DEF t
    <3>2. DOMAIN t = 1 .. Len(t) /\ Len(t) \in Nat /\ \A i \in DOMAIN t : t[i] \in Ids
      BY <3>1
    <3> QED BY <3>2 DEF t
  <2>2. call'.todo \in [1 .. Len(c.todo) -> Ids']
    BY <2>1, <1>4, <1>6
  <2>3. call'.todo \in Seq(Ids')
    BY <2>1, <2>2
  <2>4. call'.first \in [Chains -> Ids' \cup {Nothing}]
    <3>1. \A x \in Ids \cup {Nothing} : follow(x) \in Ids' \cup {Nothing}
      BY <1>6, <1>7
    <3> DEFINE f == c.first
    <3> HIDE DEF f
    <3>2. f \in [Chains -> Ids \cup {Nothing}] /\ call'.first = [chain \in Chains |-> follow(f[chain])]
      BY <1>2, <1>4 DEF f
    <3> QED BY <3>1, <3>2
  <2> QED BY <2>3, <2>4, <1>2, <1>4, SameTable DEF Calls
<1>10. ASSUME NEW d \in late'
       PROVE  d \in TableCommands' /\ SafeCommand(d)'
  <2>1. PICK command \in l : d = [command EXCEPT !.id = follow(command.id)]
    BY <1>3
  <2>2. command \in TableCommands /\ SafeCommand(command)
    OBVIOUS
  <2>3. CASE command \in [op: {"remove"}, id: Ids]
    <3>1. d = [op |-> "remove", id |-> follow(command.id)] /\ command.op = "remove" /\ command.id \in Ids
      BY <2>1, <2>3
    <3>2. d \in TableCommands'
      BY <3>1, <1>6 DEF TableCommands
    <3>3. follow(command.id) \in Removable("wipe")' \cup {Gone}
      BY <3>1, <2>2, <1>8 DEF SafeCommand
    <3> QED BY <3>1, <3>2, <3>3 DEF SafeCommand
  <2>4. CASE command \in [op: {"add"}, row: Rows, id: Ids \cup {Nothing}]
    <3>1. /\ d = [op |-> "add", row |-> command.row, id |-> follow(command.id)]
          /\ command.op = "add" /\ command.row \in Rows /\ command.id \in Ids \cup {Nothing}
      BY <2>1, <2>4
    <3>2. d \in TableCommands'
      <4>1. follow(command.id) \in Ids' \cup {Nothing}
        BY <3>1, <1>6, <1>7
      <4> QED BY <3>1, <4>1, SameTable DEF TableCommands
    <3>3. IsOwn(d.row)'
      BY <3>1, <2>2, SameTable DEF SafeCommand, IsOwn, Part
    <3> QED BY <3>1, <3>2, <3>3 DEF SafeCommand
  <2> QED BY <2>2, <2>3, <2>4 DEF TableCommands
<1>11. \A x, y \in late' : x = y
  BY <1>3
<1>12. TypeOK'
  BY <1>1, <1>5, <1>9, <1>10, <1>11, SameTable DEF TypeOK
<1>13. CallShape(call)'
  <2>1. c.todo # <<>> => call'.todo # <<>>
    <3>1. DOMAIN call'.todo = DOMAIN c.todo
      BY <1>4
    <3>2. c.todo # <<>> => 1 \in DOMAIN c.todo
      <4> DEFINE t == c.todo
      <4> HIDE DEF t
      <4>1. t \in Seq(Ids)
        BY <1>2 DEF t
      <4>2. t # <<>> => 1 \in DOMAIN t
        BY <4>1
      <4> QED BY <4>2 DEF t
    <3> QED BY <3>1, <3>2
  <2> QED BY <2>1, <1>4 DEF CallShape, Ordered
<1>14. RowsKnown'
  BY <1>5, SameTable DEF RowsKnown
<1>15. SafeCall(call)'
  <2> SUFFICES ASSUME c.at \in {"remove", "order"}, NEW x \in Range(call'.todo)
               PROVE  x \in Removable(c.op)' \cup {Gone}
    BY <1>4 DEF SafeCall
  <2>1. PICK i \in DOMAIN c.todo : x = follow(c.todo[i])
    BY <1>4 DEF Range
  <2>2. c.todo[i] \in Removable(c.op) \cup {Gone}
    BY DEF SafeCall, Range
  <2> QED BY <2>1, <2>2, <1>8
<1> QED BY <1>10, <1>12, <1>13, <1>14, <1>15 DEF ClientInv

(* ... or the table stays. *)
LEMMA StayInv ==
  ASSUME ClientInv, table' = table, rows' = rows, want' \in Values \cup {"deleting", "gone"},
         call' \in Calls, NEW c, c = call', CallShape(c), SafeCall(c),
         late' \subseteq TableCommands, \A command \in late' : SafeCommand(command),
         \A x, y \in late' : x = y
  PROVE  ClientInv'
<1>1. Chains' = Chains /\ Rows' = Rows /\ RowComments' = RowComments
  BY SameTable
<1>2. Ids' = Ids
  BY DEF Ids
<1>3. Calls' = Calls /\ TableCommands' = TableCommands
  BY <1>1, <1>2 DEF Calls, TableCommands
<1>4. OwnIds' = OwnIds /\ UnmanagedIds' = UnmanagedIds
  BY SameTable DEF OwnIds, UnmanagedIds
<1>5. \A op : Removable(op)' = Removable(op)
  BY <1>4 DEF Removable
<1>6. TypeOK'
  BY <1>1, <1>3 DEF ClientInv, TypeOK
<1>7. CallShape(call)'
  BY DEF CallShape, Ordered
<1>8. RowsKnown'
  BY <1>1 DEF ClientInv, RowsKnown
<1>9. SafeCall(call)'
  BY <1>5 DEF SafeCall
<1>10. ASSUME NEW d \in late' PROVE SafeCommand(d)'
  <2>1. SafeCommand(d)
    OBVIOUS
  <2>2. IsOwn(d.row) => IsOwn(d.row)'
    BY <1>1 DEF IsOwn, Part
  <2> QED BY <2>1, <2>2, <1>5 DEF SafeCommand
<1> QED BY <1>6, <1>7, <1>8, <1>9, <1>10 DEF ClientInv

(* What a call may be next. *)
LEMMA CallFields ==
  ASSUME ClientInv
  PROVE  /\ call \in Calls /\ call.todo \in Seq(Ids)
         /\ call.first \in [Chains -> Ids \cup {Nothing}]
         /\ call.op \in {"none", "ensure", "delete", "wipe"}
         /\ call.calm \in BOOLEAN /\ call.value \in Values \cup {Nothing}
         /\ rows \in Seq(Rows) /\ DOMAIN rows \subseteq Nat /\ IsFiniteSet(DOMAIN rows)
<1>1. call \in Calls /\ rows \in Seq(Rows)
  BY DEF ClientInv, TypeOK
<1>2. DOMAIN rows = 1 .. Len(rows) /\ Len(rows) \in Nat
  BY <1>1
<1>3. IsFiniteSet(DOMAIN rows) /\ DOMAIN rows \subseteq Nat
  BY <1>2, FS_Interval
<1> QED BY <1>1, <1>3 DEF Calls

LEMMA ReturnedCall ==
  ASSUME NEW r \in {"ok", "failed"}
  PROVE  /\ Returned(r) \in Calls /\ CallShape(Returned(r)) /\ SafeCall(Returned(r))
         /\ Returned(r).at = r /\ Returned(r).op = "none" /\ Returned(r).calm = TRUE
         /\ Idle \in Calls /\ Idle.calm = TRUE /\ Idle.at = "ok" /\ Idle.op = "none"
<1> DEFINE t == <<>>
           f == [chain \in Chains |-> Nothing]
           yes == TRUE
<1>1. t \in Seq(Ids)
  OBVIOUS
<1>2. f \in [Chains -> Ids \cup {Nothing}]
  OBVIOUS
<1>b. yes \in BOOLEAN
  OBVIOUS
<1> HIDE DEF t, f, yes
<1>i. Idle = [op |-> "none", value |-> Nothing, at |-> "ok", todo |-> t, first |-> f, calm |-> yes]
  BY Zenon DEF Idle, t, f, yes
<1>3. Returned(r) = [op |-> "none", value |-> Nothing, at |-> r, todo |-> t, first |-> f, calm |-> yes]
  BY <1>i DEF Returned
<1>4. Returned(r) \in Calls
  <2>1. yes \in BOOLEAN /\ Nothing \in Values \cup {Nothing}
    BY <1>b
  <2>2. r \in {"ok", "failed", "look", "order", "list", "remove", "first", "add", "add srcnat"}
    OBVIOUS
  <2> DEFINE ops == {"none", "ensure", "delete", "wipe"}
             ats == {"ok", "failed", "look", "order", "list", "remove", "first", "add", "add srcnat"}
             values == Values \cup {Nothing}
             todos == Seq(Ids)
             firsts == [Chains -> Ids \cup {Nothing}]
             bools == BOOLEAN
  <2>3. "none" \in ops /\ r \in ats /\ Nothing \in values /\ t \in todos /\ f \in firsts /\ yes \in bools
    BY <1>1, <1>2, <2>1, <2>2
  <2>4. Calls = [op: ops, value: values, at: ats, todo: todos, first: firsts, calm: bools]
    BY DEF Calls
  <2> HIDE DEF ops, ats, values, todos, firsts, bools
  <2> QED BY <1>3, <2>3, <2>4
<1>6. Idle \in Calls /\ Idle.calm = TRUE /\ Idle.at = "ok" /\ Idle.op = "none"
  <2>1. Idle = [Returned(r) EXCEPT !.at = "ok"]
    BY <1>3, <1>i
  <2>2. "ok" \in {"ok", "failed", "look", "order", "list", "remove", "first", "add", "add srcnat"}
    OBVIOUS
  <2>3. Idle \in Calls
    BY <1>4, <2>1, <2>2 DEF Calls
  <2>4. Idle.calm = yes /\ Idle.at = "ok" /\ Idle.op = "none"
    BY <1>i
  <2> QED BY <2>3, <2>4 DEF yes
<1>5. Returned(r).at = r /\ Returned(r).op = "none" /\ Returned(r).calm = TRUE
  <2>1. Returned(r).at = r /\ Returned(r).op = "none" /\ Returned(r).calm = yes
    BY <1>3
  <2> QED BY <2>1 DEF yes
<1> QED BY <1>4, <1>5, <1>6 DEF CallShape, SafeCall

LEMMA BegunCall ==
  ASSUME NEW op \in {"ensure", "delete", "wipe"}, NEW value \in Values \cup {Nothing},
         op = "ensure" => value \in Values,
         NEW c, c = [Idle EXCEPT !.op = op, !.value = value,
                                 !.at = IF op = "ensure" THEN "look" ELSE "list"]
  PROVE  /\ c \in Calls /\ CallShape(c) /\ SafeCall(c)
         /\ c.op = op /\ c.at \in {"look", "list"}
<1> DEFINE at == IF op = "ensure" THEN "look" ELSE "list"
<1>1. Idle \in Calls
  BY ReturnedCall
<1>2. at \in {"look", "list"} /\ (at = "look" => op = "ensure")
  OBVIOUS
<1> HIDE DEF at
<1>3. c = [Idle EXCEPT !.op = op, !.value = value, !.at = at]
  BY DEF at
<1>4. c \in Calls /\ c.op = op /\ c.value = value /\ c.at = at
  BY <1>1, <1>2, <1>3 DEF Calls
<1> QED BY <1>2, <1>4 DEF CallShape, SafeCall

LEMMA RemovingCall ==
  ASSUME ClientInv, call.at \in {"list", "remove"}, NEW todo \in Seq(Ids),
         Range(todo) \subseteq Removable(call.op) \cup {Gone}
  PROVE  /\ Removing(todo) \in Calls /\ CallShape(Removing(todo)) /\ SafeCall(Removing(todo))
         /\ todo # <<>> => Removing(todo) = [call EXCEPT !.at = "remove", !.todo = todo]
         /\ todo = <<>> /\ call.op # "ensure" => Removing(todo) = Returned("ok")
         /\ todo = <<>> /\ call.op = "ensure" =>
              Removing(todo) = [call EXCEPT !.at = IF PlaceBefore(call.value) THEN "first" ELSE "add",
                                            !.todo = <<>>]
<1>1. call \in Calls /\ CallShape(call)
  BY CallFields DEF ClientInv
<1>2. call.op # "none"
  BY <1>1 DEF CallShape
<1>3. CASE todo # <<>>
  <2> DEFINE c == [call EXCEPT !.at = "remove", !.todo = todo]
  <2>1. Removing(todo) = c
    BY <1>3 DEF Removing
  <2>2. /\ c \in Calls /\ c.at = "remove" /\ c.todo = todo /\ c.op = call.op
        /\ c.calm = call.calm /\ c.value = call.value
    BY <1>1 DEF Calls
  <2> HIDE DEF c
  <2>3. CallShape(c) /\ SafeCall(c)
    BY <2>2, <1>1, <1>2, <1>3 DEF CallShape, SafeCall
  <2> QED BY <2>1, <2>2, <2>3, <1>3 DEF c
<1>4. CASE todo = <<>> /\ call.op # "ensure"
  <2>1. Removing(todo) = Returned("ok")
    BY <1>4 DEF Removing
  <2> QED BY <2>1, <1>4, ReturnedCall
<1>5. CASE todo = <<>> /\ call.op = "ensure"
  <2> DEFINE at == IF PlaceBefore(call.value) THEN "first" ELSE "add"
             c == [call EXCEPT !.at = at, !.todo = todo]
  <2>1. Removing(todo) = c
    BY <1>5 DEF Removing
  <2>2. at \in {"first", "add"}
    OBVIOUS
  <2> HIDE DEF at
  <2>3. /\ c \in Calls /\ c.at = at /\ c.op = "ensure"
        /\ c.calm = call.calm /\ c.value = call.value
    BY <1>1, <1>5, <2>2 DEF Calls
  <2> HIDE DEF c
  <2>4. CallShape(c) /\ SafeCall(c)
    BY <2>2, <2>3, <1>1, <1>5 DEF CallShape, SafeCall
  <2> QED BY <2>1, <2>3, <2>4, <1>5 DEF c, at
<1> QED BY <1>3, <1>4, <1>5

(* A call sends commands it may send. *)
LEMMA AddingChain ==
  ASSUME ClientInv, Sending, call.at # "remove"
  PROVE  /\ Adding \in OwnChains /\ Adding \in Chains
         /\ call.op = "ensure" /\ call.value \in Values
         /\ Wanted(call.value, Adding) \in Rows /\ IsOwn(Wanted(call.value, Adding))
         /\ table = "nat" /\ call.at = "add" => Adding = "dstnat"
         /\ call.at = "add srcnat" => Adding = "srcnat" /\ table = "nat"
<1>1. call.at \in {"add", "add srcnat"} /\ CallShape(call)
  BY DEF Sending, ClientInv
<1>2. call.op = "ensure" /\ call.value \in Values /\ (call.at = "add srcnat" => table = "nat")
  BY <1>1 DEF CallShape
<1>3. OwnChains \subseteq Chains /\ OwnChains # {} /\ (table = "nat" => OwnChains = {"dstnat", "srcnat"})
  BY ChainsAre DEF OwnChains
<1>4. /\ Adding \in OwnChains
      /\ table = "nat" /\ call.at = "add" => Adding = "dstnat"
      /\ call.at = "add srcnat" => Adding = "srcnat"
  <2>1. CASE call.at = "add" /\ table = "nat"
    BY <2>1, <1>3 DEF Adding
  <2>2. CASE call.at = "add" /\ table # "nat"
    <3>1. Adding = CHOOSE chain \in OwnChains : TRUE
      BY <2>2 DEF Adding
    <3> QED BY <3>1, <2>2, <1>3
  <2>3. CASE call.at = "add srcnat"
    BY <2>3, <1>2, <1>3 DEF Adding
  <2> QED BY <1>1, <2>1, <2>2, <2>3
<1> DEFINE chain == Adding
<1>5. chain \in Chains
  BY <1>3, <1>4
<1>6. Own \in Seq(Tokens)
  BY CommentTokens
<1> HIDE DEF chain
<1>7. Part(Own, chain) \in Seq(Tokens)
  BY <1>5, <1>6, PartTokens
<1>8. Wanted(call.value, chain) \in Rows /\ IsOwn(Wanted(call.value, chain))
  BY <1>2, <1>5, <1>7 DEF Wanted, Row, Rows, IsOwn
<1> QED BY <1>2, <1>3, <1>4, <1>8 DEF chain

LEMMA PendingSafe ==
  ASSUME ClientInv, Sending
  PROVE  /\ Pending \in TableCommands /\ SafeCommand(Pending)
         /\ call.at = "remove" => Pending.op = "remove" /\ Pending.id = Head(call.todo)
         /\ call.at # "remove" => /\ Pending.op = "add" /\ Pending.id = call.first[Adding]
                                  /\ Pending.row = Wanted(call.value, Adding)
         /\ call.op # "wipe" /\ Pending.op = "remove" => Pending.id \in OwnIds \cup {Gone}
<1>1. CASE call.at = "remove"
  <2>1. call.todo # <<>> /\ Range(call.todo) \subseteq Removable(call.op) \cup {Gone}
    BY <1>1 DEF ClientInv, CallShape, SafeCall
  <2> DEFINE t == call.todo
             h == Head(call.todo)
  <2>2. h \in Ids /\ h \in Range(t)
    <3> HIDE DEF t
    <3>1. t \in Seq(Ids) /\ t # <<>>
      BY <2>1, CallFields DEF t
    <3>2. Head(t) \in Ids /\ Head(t) = t[1] /\ 1 \in DOMAIN t
      BY <3>1
    <3>3. Head(t) \in Range(t)
      BY <3>2 DEF Range
    <3> QED BY <3>2, <3>3 DEF t
  <2>3. Removable(call.op) \subseteq Removable("wipe")
    BY Entries DEF Removable, OwnIds, ClientInv
  <2>4. Pending = [op |-> "remove", id |-> h]
    BY <1>1 DEF Pending, RemoveCommand
  <2>5. h \in Removable(call.op) \cup {Gone}
    BY <2>1, <2>2
  <2>6. call.op # "wipe" => h \in OwnIds \cup {Gone}
    BY <2>5 DEF Removable
  <2> HIDE DEF h
  <2>7. Pending \in TableCommands /\ SafeCommand(Pending)
    BY <2>2, <2>3, <2>4, <2>5 DEF TableCommands, SafeCommand
  <2> QED BY <2>4, <2>6, <2>7, <1>1 DEF h
<1>2. CASE call.at # "remove"
  <2> DEFINE row == Wanted(call.value, Adding)
             id == call.first[Adding]
  <2>1. row \in Rows /\ IsOwn(row) /\ id \in Ids \cup {Nothing}
    BY <1>2, AddingChain, CallFields
  <2>2. Pending = [op |-> "add", row |-> row, id |-> id]
    BY <1>2 DEF Pending, AddCommand
  <2> HIDE DEF row, id
  <2>3. Pending \in TableCommands /\ SafeCommand(Pending)
    BY <2>1, <2>2 DEF TableCommands, SafeCommand
  <2> QED BY <2>2, <2>3, <1>2 DEF row, id
<1> QED BY <1>1, <1>2

--------------------------------------------------------------------------------
(* Every step keeps the invariant. *)

LEMMA InitInv == ClientInit => ClientInv
<1> SUFFICES ASSUME ClientInit PROVE ClientInv
  OBVIOUS
<1>1. table \in Tables /\ rows = <<>> /\ want = "gone" /\ call = Idle /\ late = {}
  BY DEF ClientInit
<1>2. call \in Calls /\ call.at = "ok" /\ call.op = "none" /\ call.calm = TRUE
  BY <1>1, ReturnedCall
<1>3. rows \in Seq(Rows) /\ DOMAIN rows = {}
  BY <1>1
<1>4. TypeOK
  BY <1>1, <1>2, <1>3 DEF TypeOK
<1>5. CallShape(call) /\ SafeCall(call)
  BY <1>2 DEF CallShape, SafeCall
<1> QED BY <1>1, <1>3, <1>4, <1>5 DEF ClientInv, RowsKnown

LEMMA BeginInv ==
  ASSUME ClientInv, BeginEnsure \/ BeginDelete \/ BeginWipe
  PROVE  ClientInv'
<1>1. PICK op \in {"ensure", "delete", "wipe"}, value \in Values \cup {Nothing} :
        (op = "ensure" => value \in Values) /\ Begin(op, value)
  BY DEF BeginEnsure, BeginDelete, BeginWipe
<1> DEFINE c == call'
<1>2. c = [Idle EXCEPT !.op = op, !.value = value, !.at = IF op = "ensure" THEN "look" ELSE "list"]
  BY <1>1 DEF Begin
<1>3. table' = table /\ rows' = rows /\ want' = want /\ late' = late
  BY <1>1 DEF Begin
<1> HIDE DEF c
<1>4. c \in Calls /\ CallShape(c) /\ SafeCall(c)
  BY <1>1, <1>2, BegunCall
<1> QED BY <1>3, <1>4, StayInv DEF c, ClientInv, TypeOK

(* What the call does next, when it leaves the table alone. *)
LEMMA ContinueInv ==
  ASSUME ClientInv, NEW c \in Calls, CallShape(c), SafeCall(c), Continue(c)
  PROVE  ClientInv'
<1>1. call' = c /\ rows' = rows /\ late' = late /\ table' = table /\ want' \in {want, "gone"}
  BY DEF Continue, Release
<1>2. want' \in Values \cup {"deleting", "gone"}
  BY <1>1 DEF ClientInv, TypeOK
<1> QED BY <1>1, <1>2, StayInv DEF ClientInv, TypeOK

LEMMA ReadInv ==
  ASSUME ClientInv, LookUp \/ CheckOrder \/ deleteMatching \/ FindFirst \/ Refused
  PROVE  ClientInv'
<1>1. /\ call \in Calls /\ CallShape(call) /\ SafeCall(call)
      /\ rows \in Seq(Rows) /\ DOMAIN rows \subseteq Nat /\ IsFiniteSet(DOMAIN rows)
      /\ managedEntries = OwnIds /\ deletedEntries = Removable(call.op)
  BY CallFields, Entries DEF ClientInv
<1>2. /\ OwnIds \in SUBSET (DOMAIN rows) /\ Removable(call.op) \in SUBSET (DOMAIN rows)
      /\ DOMAIN rows \subseteq Ids
  BY DEF OwnIds, Removable, Ids
<1>3. ASSUME NEW ids \in SUBSET (DOMAIN rows)
      PROVE  InOrder(ids) \in Seq(Ids) /\ Range(InOrder(ids)) = ids
  <2>1. IsFiniteSet(ids) /\ ids \subseteq Nat
    BY <1>1, FS_Subset
  <2>2. InOrder(ids) \in Seq(ids) /\ Range(InOrder(ids)) = ids
    BY <2>1, InOrderLists
  <2>3. ids \subseteq Ids
    BY <1>2
  <2> QED BY <2>2, <2>3, SeqMonotonic
<1>4. CASE LookUp
  <2>1. call.at = "look" /\ call.op = "ensure" /\ call.value \in Values
    BY <1>1, <1>4 DEF LookUp, CallShape
  <2>2. CASE entriesMatch(call.value) /\ Ordered(call.value)
    <3> DEFINE t == InOrder(OwnIds)
               c == [call EXCEPT !.at = "order", !.todo = t]
    <3>1. t \in Seq(Ids) /\ Range(t) = OwnIds
      BY <1>2, <1>3
    <3>2. t # <<>>
      <4>1. OwnIds # {}
        <5>1. OwnChains # {} /\ \A chain \in OwnChains : \E i \in OwnIds : rows[i] = Wanted(call.value, chain)
          BY <2>2, <1>1, ChainsAre DEF entriesMatch, OwnChains
        <5> QED BY <5>1
      <4>2. IsFiniteSet(OwnIds) /\ OwnIds \subseteq Nat
        BY <1>1, <1>2, FS_Subset
      <4> QED BY <4>1, <4>2, InOrderLists
    <3>3. Continue(c)
      BY <2>2, <1>4, <1>1 DEF LookUp
    <3> HIDE DEF t
    <3>4. /\ c \in Calls /\ c.at = "order" /\ c.todo = t /\ c.op = call.op
          /\ c.value = call.value /\ c.calm = call.calm
      BY <3>1, <1>1 DEF Calls
    <3> HIDE DEF c
    <3>5. CallShape(c)
      BY <3>2, <3>4, <2>1, <2>2 DEF CallShape
    <3>6. SafeCall(c)
      BY <3>1, <3>4, <2>1 DEF SafeCall, Removable
    <3> QED BY <3>3, <3>4, <3>5, <3>6, ContinueInv
  <2>3. CASE entriesMatch(call.value) /\ ~Ordered(call.value)
    <3>1. Continue(Returned("ok"))
      BY <2>3, <1>4 DEF LookUp
    <3> QED BY <3>1, ReturnedCall, ContinueInv
  <2>4. CASE ~entriesMatch(call.value)
    <3> DEFINE c == [call EXCEPT !.at = "list"]
    <3>1. Continue(c)
      BY <2>4, <1>4 DEF LookUp
    <3>2. /\ c \in Calls /\ c.at = "list" /\ c.op = call.op
          /\ c.value = call.value /\ c.calm = call.calm
      BY <1>1 DEF Calls
    <3> HIDE DEF c
    <3>3. CallShape(c) /\ SafeCall(c)
      BY <3>2, <2>1 DEF CallShape, SafeCall
    <3> QED BY <3>1, <3>2, <3>3, ContinueInv
  <2> QED BY <2>2, <2>3, <2>4
<1>5. CASE CheckOrder
  <2>1. call.at = "order" /\ call.op = "ensure" /\ call.value \in Values
    BY <1>1, <1>5 DEF CheckOrder, CallShape
  <2>2. CASE firewallRulePrecedesUnmanaged(Head(call.todo))
    <3>1. Continue(Returned("ok"))
      BY <2>2, <1>5 DEF CheckOrder
    <3> QED BY <3>1, ReturnedCall, ContinueInv
  <2>3. CASE ~firewallRulePrecedesUnmanaged(Head(call.todo))
    <3> DEFINE t == <<>>
               c == [call EXCEPT !.at = "list", !.todo = t]
    <3>1. Continue(c)
      BY <2>3, <1>5 DEF CheckOrder
    <3>2. t \in Seq(Ids)
      OBVIOUS
    <3> HIDE DEF t
    <3>3. /\ c \in Calls /\ c.at = "list" /\ c.op = call.op
          /\ c.value = call.value /\ c.calm = call.calm
      BY <3>2, <1>1 DEF Calls
    <3> HIDE DEF c
    <3>4. CallShape(c) /\ SafeCall(c)
      BY <3>3, <2>1 DEF CallShape, SafeCall
    <3> QED BY <3>1, <3>3, <3>4, ContinueInv
  <2> QED BY <2>2, <2>3
<1>6. CASE deleteMatching
  <2> DEFINE t == InOrder(Removable(call.op))
  <2>1. call.at = "list" /\ Continue(Removing(t))
    BY <1>1, <1>6 DEF deleteMatching
  <2>2. t \in Seq(Ids) /\ Range(t) = Removable(call.op)
    BY <1>2, <1>3
  <2> HIDE DEF t
  <2>3. Removing(t) \in Calls /\ CallShape(Removing(t)) /\ SafeCall(Removing(t))
    BY <2>1, <2>2, RemovingCall
  <2> QED BY <2>1, <2>3, ContinueInv
<1>7. CASE FindFirst
  <2>1. call.at = "first" /\ call.op = "ensure" /\ call.value \in Values
    BY <1>1, <1>7 DEF FindFirst, CallShape
  <2> DEFINE f == firstIDsByChain
             c == [call EXCEPT !.at = "add", !.first = f]
  <2>2. Continue(c)
    BY <1>7 DEF FindFirst
  <2>3. f \in [Chains -> Ids \cup {Nothing}]
    <3>1. ASSUME NEW chain \in Chains, InChain(chain) # {} PROVE Min(InChain(chain)) \in Ids
      <4>1. InChain(chain) \subseteq DOMAIN rows
        BY DEF InChain
      <4>2. InChain(chain) \subseteq Nat
        BY <4>1, <1>1
      <4>3. Min(InChain(chain)) \in InChain(chain)
        BY <4>2, <3>1, LeastExists
      <4> QED BY <4>1, <4>3, <1>2
    <3> QED BY <3>1 DEF firstIDsByChain
  <2> HIDE DEF f
  <2>4. /\ c \in Calls /\ c.at = "add" /\ c.op = call.op
        /\ c.value = call.value /\ c.calm = call.calm
    BY <2>3, <1>1 DEF Calls
  <2> HIDE DEF c
  <2>5. CallShape(c) /\ SafeCall(c)
    BY <2>4, <2>1 DEF CallShape, SafeCall
  <2> QED BY <2>2, <2>4, <2>5, ContinueInv
<1>8. CASE Refused
  <2>1. Continue(Returned("failed"))
    BY <1>8 DEF Refused
  <2> QED BY <2>1, ReturnedCall, ContinueInv
<1> QED BY <1>4, <1>5, <1>6, <1>7, <1>8

LEMMA TailRange ==
  ASSUME NEW S, NEW t \in Seq(S), t # <<>>
  PROVE  /\ Tail(t) \in Seq(S) /\ Head(t) \in Range(t)
         /\ Range(Tail(t)) \subseteq Range(t)
         /\ IsInjective(t) => IsInjective(Tail(t)) /\ Range(Tail(t)) = Range(t) \ {Head(t)}
<1> DEFINE n == Len(t)
           u == Tail(t)
<1>1. /\ n \in Nat \ {0} /\ DOMAIN t = 1 .. n /\ Head(t) = t[1]
      /\ u \in Seq(S) /\ Len(u) = n - 1 /\ \A i \in 1 .. n - 1 : u[i] = t[i + 1]
  BY HeadTailProperties, EmptySeq
<1>2. DOMAIN u = 1 .. n - 1
  BY <1>1
<1> HIDE DEF u, n
<1>3. 1 \in 1 .. n /\ \A i \in 1 .. n - 1 : i + 1 \in 1 .. n /\ i + 1 # 1
  BY <1>1
<1>4. Head(t) \in Range(t)
  BY <1>1, <1>3 DEF Range
<1>5. \A i \in DOMAIN u : u[i] \in Range(t)
  BY <1>1, <1>2, <1>3 DEF Range
<1>6. Range(u) \subseteq Range(t)
  BY <1>5 DEF Range
<1>7. ASSUME IsInjective(t) PROVE IsInjective(u)
  <2>1. \A i, j \in 1 .. n : t[i] = t[j] => i = j
    BY <1>1, <1>7 DEF IsInjective
  <2>2. \A i, j \in 1 .. n - 1 : u[i] = u[j] => i = j
    BY <2>1, <1>1, <1>3
  <2> QED BY <2>2, <1>2 DEF IsInjective
<1>8. ASSUME IsInjective(t) PROVE Range(u) = Range(t) \ {Head(t)}
  <2>1. \A i, j \in 1 .. n : t[i] = t[j] => i = j
    BY <1>1, <1>8 DEF IsInjective
  <2>2. \A i \in DOMAIN u : u[i] # Head(t)
    BY <2>1, <1>1, <1>2, <1>3
  <2>3. ASSUME NEW i \in 1 .. n, t[i] # Head(t) PROVE t[i] \in Range(u)
    <3>1. i # 1
      BY <2>3, <1>1
    <3>2. i - 1 \in 1 .. n - 1 /\ (i - 1) + 1 = i
      BY <3>1, <1>1
    <3>3. u[i - 1] = t[i]
      BY <3>2, <1>1
    <3> QED BY <3>2, <3>3, <1>2 DEF Range
  <2>4. Range(t) \ {Head(t)} \subseteq Range(u)
    <3> SUFFICES ASSUME NEW x \in Range(t), x # Head(t) PROVE x \in Range(u)
      OBVIOUS
    <3>1. PICK i \in 1 .. n : x = t[i]
      BY <1>1 DEF Range
    <3> QED BY <3>1, <2>3
  <2>5. Head(t) \notin Range(u)
    BY <2>2 DEF Range
  <2> QED BY <2>4, <2>5, <1>6
<1> QED BY <1>1, <1>4, <1>6, <1>7, <1>8 DEF u

LEMMA AnsweredCall ==
  ASSUME ClientInv, Sending
  PROVE  /\ Answered \in Calls /\ CallShape(Answered) /\ SafeCall(Answered)
         /\ call.at = "remove" => Answered = Removing(Tail(call.todo))
         /\ call.at # "remove" /\ Adding = "dstnat" =>
              /\ Answered = [call EXCEPT !.at = "add srcnat"]
              /\ table = "nat"
         /\ call.at # "remove" /\ Adding # "dstnat" => Answered = Returned("ok")
<1>1. call \in Calls /\ CallShape(call) /\ SafeCall(call) /\ call.todo \in Seq(Ids)
  BY CallFields DEF ClientInv
<1>2. CASE call.at = "remove"
  <2>1. Answered = Removing(Tail(call.todo))
    BY <1>2 DEF Answered
  <2>2. call.todo # <<>> /\ Range(call.todo) \subseteq Removable(call.op) \cup {Gone}
    BY <1>1, <1>2 DEF CallShape, SafeCall
  <2>3. Tail(call.todo) \in Seq(Ids) /\ Range(Tail(call.todo)) \subseteq Range(call.todo)
    BY <1>1, <2>2, TailRange
  <2> DEFINE t == Tail(call.todo)
  <2>4. t \in Seq(Ids) /\ Range(t) \subseteq Removable(call.op) \cup {Gone} /\ Answered = Removing(t)
    BY <2>1, <2>2, <2>3
  <2> HIDE DEF t
  <2>5. Removing(t) \in Calls /\ CallShape(Removing(t)) /\ SafeCall(Removing(t))
    BY <2>4, <1>2, RemovingCall
  <2> QED BY <2>1, <2>4, <2>5, <1>2
<1>3. CASE call.at # "remove" /\ Adding = "dstnat"
  <2> DEFINE c == [call EXCEPT !.at = "add srcnat"]
  <2>1. Answered = c
    BY <1>3 DEF Answered
  <2>2. call.op = "ensure" /\ call.value \in Values /\ Adding \in OwnChains
    BY <1>3, AddingChain
  <2>3. table = "nat"
    BY <1>3, <2>2, ChainsAre DEF OwnChains
  <2>4. /\ c \in Calls /\ c.at = "add srcnat" /\ c.op = call.op
        /\ c.value = call.value /\ c.calm = call.calm
    BY <1>1 DEF Calls
  <2> HIDE DEF c
  <2>5. CallShape(c) /\ SafeCall(c)
    BY <2>2, <2>3, <2>4 DEF CallShape, SafeCall
  <2> QED BY <2>1, <2>3, <2>4, <2>5, <1>3 DEF c
<1>4. CASE call.at # "remove" /\ Adding # "dstnat"
  <2>1. Answered = Returned("ok")
    BY <1>4 DEF Answered
  <2> QED BY <2>1, <1>4, ReturnedCall
<1> QED BY <1>2, <1>3, <1>4

(* A command of the call is carried out. *)
LEMMA CarriedOutInv ==
  ASSUME ClientInv, Sending, Accepted(Pending), NEW c \in Calls, CallShape(c), SafeCall(c),
         ContinueAfter(Effect(Pending), c)
  PROVE  ClientInv'
<1> DEFINE e == Effect(Pending)
<1>1. Change(e, c, late) /\ table' = table /\ want' \in {want, "gone"}
  BY DEF ContinueAfter, Release
<1>2. rows' = e.new
  BY <1>1 DEF Change
<1>3. Pending \in TableCommands /\ SafeCommand(Pending)
  BY PendingSafe
<1>4. Moves(e.id)
  BY <1>2, <1>3, EffectMoves
<1>5. want' \in Values \cup {"deleting", "gone"}
  BY <1>1 DEF ClientInv, TypeOK
<1>6. late \subseteq TableCommands /\ (\A command \in late : SafeCommand(command)) /\ \A x, y \in late : x = y
  BY DEF ClientInv, TypeOK
<1> HIDE DEF e
<1> QED BY <1>1, <1>4, <1>5, <1>6, ChangeInv

LEMMA ClientStepInv ==
  ASSUME ClientInv, ClientStep
  PROVE  ClientInv'
<1>1. CASE Send
  BY <1>1, AnsweredCall, CarriedOutInv DEF Send
<1> QED BY <1>1, ReadInv DEF ClientStep

LEMMA FaultInv ==
  ASSUME ClientInv, Fault
  PROVE  ClientInv'
<1>1. CASE RequestLost
  BY <1>1, ReturnedCall, ContinueInv DEF RequestLost
<1>2. CASE AnswerLost
  BY <1>2, ReturnedCall, CarriedOutInv DEF AnswerLost
<1>3. CASE TimesOut
  <2>1. late' = {Pending} /\ call' = Returned("failed") /\ table' = table /\ rows' = rows /\ want' = want
    BY <1>3 DEF TimesOut
  <2>2. Pending \in TableCommands /\ SafeCommand(Pending)
    BY <1>3, PendingSafe DEF TimesOut
  <2>3. want' \in Values \cup {"deleting", "gone"}
    BY <2>1 DEF ClientInv, TypeOK
  <2> QED BY <2>1, <2>2, <2>3, ReturnedCall, StayInv
<1> QED BY <1>1, <1>2, <1>3 DEF Fault

(* Somebody else changes the table. *)
LEMMA InterferedCall ==
  ASSUME ClientInv, NEW c, c = [call EXCEPT !.calm = call.op = "none"]
  PROVE  /\ c \in Calls /\ CallShape(c) /\ SafeCall(c)
         /\ c.op = call.op /\ c.at = call.at /\ (c.calm => call.op = "none")
<1> DEFINE q == (call.op = "none")
<1>1. q \in BOOLEAN
  BY Zenon
<1>2. call \in Calls /\ CallShape(call) /\ SafeCall(call)
  BY CallFields DEF ClientInv
<1> HIDE DEF q
<1>3. c = [call EXCEPT !.calm = q]
  BY Zenon DEF q
<1>4. /\ c \in Calls /\ c.op = call.op /\ c.value = call.value /\ c.at = call.at
      /\ c.todo = call.todo /\ c.calm = q
  BY <1>1, <1>2, <1>3 DEF Calls
<1>5. CallShape(c)
  BY <1>2, <1>4 DEF CallShape, q
<1>6. SafeCall(c)
  BY <1>2, <1>4 DEF SafeCall
<1> QED BY <1>4, <1>5, <1>6 DEF q

LEMMA InterfereInv ==
  ASSUME ClientInv, NEW e, NEW l \in SUBSET late, Interfere(e, l), Moves(e.id)
  PROVE  ClientInv'
<1> DEFINE c == [call EXCEPT !.calm = call.op = "none"]
<1>1. Change(e, c, l) /\ table' = table /\ want' = want
  BY DEF Interfere
<1> HIDE DEF c
<1>2. c \in Calls /\ CallShape(c) /\ SafeCall(c)
  BY InterferedCall DEF c
<1>3. /\ want' \in Values \cup {"deleting", "gone"}
      /\ l \subseteq TableCommands /\ (\A command \in l : SafeCommand(command)) /\ \A x, y \in l : x = y
  BY <1>1 DEF ClientInv, TypeOK
<1> QED BY <1>1, <1>2, <1>3, ChangeInv

LEMMA EnvironmentInv ==
  ASSUME ClientInv, Environment
  PROVE  ClientInv'
<1>1. TypeOK /\ RowsKnown /\ rows \in Seq(Rows)
  BY DEF ClientInv, TypeOK
<1>2. CASE LateCommand
  <2>1. PICK command \in late : Accepted(command) /\ Interfere(Effect(command), {})
    BY <1>2 DEF LateCommand
  <2>2. command \in TableCommands /\ SafeCommand(command)
    BY DEF ClientInv, TypeOK
  <2> DEFINE e == Effect(command)
  <2>3. rows' = e.new
    BY <2>1 DEF Interfere, Change
  <2>4. Moves(e.id)
    BY <2>1, <2>2, <2>3, EffectMoves
  <2>5. Interfere(e, {})
    BY <2>1
  <2> HIDE DEF e
  <2> QED BY <2>4, <2>5, InterfereInv
<1>3. CASE LateCommandLost
  <2>1. late' = {} /\ table' = table /\ rows' = rows /\ want' = want /\ call' = call
    BY <1>3 DEF LateCommandLost
  <2> QED BY <2>1, StayInv DEF ClientInv, TypeOK
<1>4. CASE ForeignAdd
  <2>1. PICK chain \in Chains, i \in 1 .. Len(rows) + 1 :
          \E comment \in Unmanaged \cup {Part(Neighbour, chain)} :
             Interfere(Insertion(i, Row(comment, chain, Nothing)), late)
    BY <1>4 DEF ForeignAdd
  <2>2. PICK comment \in Unmanaged \cup {Part(Neighbour, chain)} :
          Interfere(Insertion(i, Row(comment, chain, Nothing)), late)
    BY <2>1
  <2> DEFINE row == Row(comment, chain, Nothing)
             e == Insertion(i, row)
  <2>3. comment \in Seq(Tokens) /\ comment \in RowComments
    <3>1. Part(Neighbour, chain) \in Seq(Tokens) /\ Lookalike \in Seq(Tokens)
      BY CommentTokens, PartTokens
    <3> QED BY <3>1 DEF Unmanaged, RowComments
  <2>4. row \in Rows /\ row.comment = comment
    BY <2>3 DEF Row, Rows
  <2> HIDE DEF row
  <2>5. Interfere(e, late)
    BY <2>2 DEF row
  <2>6. rows' = e.new
    BY <2>5 DEF Interfere, Change
  <2>7. Moves(e.id)
    BY <2>3, <2>4, <2>6, <1>1, InsertionMoves
  <2> HIDE DEF e
  <2> QED BY <2>5, <2>7, InterfereInv
<1>5. CASE ForeignRemove
  <2>1. PICK i \in DOMAIN rows : Interfere(Removal(i), late)
    BY <1>5 DEF ForeignRemove
  <2> DEFINE e == Removal(i)
  <2>2. rows' = e.new
    BY <2>1 DEF Interfere, Change
  <2>3. Moves(e.id)
    BY <2>2, <1>1, RemovalMoves
  <2>4. Interfere(e, late)
    BY <2>1
  <2> HIDE DEF e
  <2> QED BY <2>3, <2>4, InterfereInv
<1>6. CASE ForeignEdit
  <2>1. PICK i \in DOMAIN rows : \E value \in Values \ {rows[i].value} :
          Interfere([new |-> [rows EXCEPT ![i].value = value], id |-> [j \in DOMAIN rows |-> j]], late)
    BY <1>6 DEF ForeignEdit
  <2>2. PICK value \in Values :
          Interfere([new |-> [rows EXCEPT ![i].value = value], id |-> [j \in DOMAIN rows |-> j]], late)
    BY <2>1
  <2> DEFINE e == [new |-> [rows EXCEPT ![i].value = value], id |-> [j \in DOMAIN rows |-> j]]
             row == [rows[i] EXCEPT !.value = value]
  <2>3. rows' = [rows EXCEPT ![i] = row] /\ e.id = [j \in DOMAIN rows |-> j]
    BY <2>2 DEF Interfere, Change
  <2>4. rows[i] \in Rows
    BY <1>1
  <2>5. row \in Rows /\ row.comment = rows[i].comment
    BY <2>4 DEF Rows
  <2>6. Interfere(e, late)
    BY <2>2
  <2> HIDE DEF e, row
  <2>7. /\ rows' \in Seq(Rows) /\ DOMAIN rows' = DOMAIN rows
        /\ \A j \in DOMAIN rows : rows'[j] = IF j = i THEN row ELSE rows[j]
    <3>1. i \in 1 .. Len(rows) /\ DOMAIN rows = 1 .. Len(rows)
      BY <1>1
    <3>2. [rows EXCEPT ![i] = row] \in Seq(Rows)
      BY <3>1, <2>5, <1>1, ExceptSeq
    <3> QED BY <3>2, <2>3
  <2>8. \A j \in DOMAIN rows : e.id[j] = j /\ rows'[j].comment = rows[j].comment
    BY <2>3, <2>5, <2>7
  <2>9. e.id \in [DOMAIN rows -> DOMAIN rows' \cup {Gone}]
    BY <2>3, <2>7
  <2>10. Moves(e.id)
    BY <2>7, <2>8, <2>9, <1>1 DEF Moves, RowsKnown
  <2> QED BY <2>6, <2>10, InterfereInv
<1>7. CASE UserStep
  <2>1. /\ table' = table /\ rows' = rows /\ call' = call /\ late' = late
        /\ want' \in Values \cup {"deleting"}
    BY <1>7 DEF UserStep
  <2> QED BY <2>1, StayInv DEF ClientInv, TypeOK
<1>8. CASE BeginWipe
  BY <1>8, BeginInv
<1> QED BY <1>2, <1>3, <1>4, <1>5, <1>6, <1>7, <1>8 DEF Environment

LEMMA NextInv ==
  ASSUME ClientInv, [ClientNext]_vars
  PROVE  ClientInv'
<1>1. CASE UNCHANGED vars
  <2>1. table' = table /\ rows' = rows /\ want' = want /\ call' = call /\ late' = late
    BY <1>1 DEF vars
  <2> QED BY <2>1, StayInv DEF ClientInv, TypeOK
<1>2. CASE ClientNext
  BY <1>2, BeginInv, ClientStepInv, FaultInv, EnvironmentInv DEF ClientNext
<1> QED BY <1>1, <1>2

(* A call knows its rows and everyone's comments, and a command, even one  *)
(* that is carried out long after its call returned, names a row that it   *)
(* may remove or adds one of the resource.                                 *)
THEOREM ClientInvariant == ClientSpec => []ClientInv
<1>1. ClientInit => ClientInv
  BY InitInv
<1>2. ClientInv /\ [ClientNext]_vars => ClientInv'
  BY NextInv
<1> QED BY <1>1, <1>2, PTL DEF ClientSpec

(* The tables, calls and commands of the client keep their types: whatever *)
(* a call or a late command names is a row of the table, or gone.          *)
THEOREM ClientTypes == ClientSpec => []TypeOK
<1>1. ClientInv => TypeOK
  BY DEF ClientInv
<1> QED BY <1>1, ClientInvariant, PTL

--------------------------------------------------------------------------------
(* The rows of others. *)

LEMMA OthersKept ==
  ASSUME ClientInv, ClientStep \/ Fault \/ LateCommand
  PROVE  /\ StillThere(UnmanagedIds, UnmanagedIds')
         /\ call.op \in {"ensure", "delete"} /\ late' = late =>
              StillThere(ForeignIds, ForeignIds')
<1>1. ASSUME rows' = rows, table' = table
      PROVE  StillThere(UnmanagedIds, UnmanagedIds') /\ StillThere(ForeignIds, ForeignIds')
  <2>1. UnmanagedIds' = UnmanagedIds /\ ForeignIds' = ForeignIds
    BY <1>1, SameTable DEF UnmanagedIds, ForeignIds, OwnIds
  <2>2. UnmanagedIds \in SUBSET (DOMAIN rows) /\ ForeignIds \in SUBSET (DOMAIN rows)
    BY DEF UnmanagedIds, ForeignIds
  <2>3. StillThere(UnmanagedIds, UnmanagedIds) /\ StillThere(ForeignIds, ForeignIds)
    BY <2>2, <1>1, SameKeeps
  <2> QED BY <2>1, <2>3
<1>2. ASSUME NEW c, Continue(c) PROVE rows' = rows /\ table' = table
  BY <1>2 DEF Continue, Release
<1>3. ASSUME Sending, Accepted(Pending), NEW c, ContinueAfter(Effect(Pending), c)
      PROVE  /\ StillThere(UnmanagedIds, UnmanagedIds')
             /\ call.op \in {"ensure", "delete"} => StillThere(ForeignIds, ForeignIds')
  <2> DEFINE p == Pending
             e == Effect(p)
  <2>1. p \in TableCommands /\ SafeCommand(p) /\ Accepted(p)
        /\ (call.op # "wipe" /\ p.op = "remove" => p.id \in OwnIds \cup {Gone})
    BY <1>3, PendingSafe
  <2>2. rows' = e.new /\ table' = table
    BY <1>3 DEF ContinueAfter, Change, Release
  <2> HIDE DEF p
  <2>3. call.op \in {"ensure", "delete"} => (p.op = "remove" => p.id \in OwnIds)
    BY <2>1 DEF Accepted
  <2> QED BY <2>1, <2>2, <2>3, EffectKeeps
<1>4. CASE LookUp \/ CheckOrder \/ deleteMatching \/ FindFirst \/ Refused \/ RequestLost
  <2>1. \E c : Continue(c)
    BY <1>4 DEF LookUp, CheckOrder, deleteMatching, FindFirst, Refused, RequestLost
  <2> QED BY <2>1, <1>1, <1>2
<1>5. CASE Send
  BY <1>3, <1>5 DEF Send
<1>6. CASE AnswerLost
  BY <1>3, <1>6 DEF AnswerLost
<1>7. CASE TimesOut
  BY <1>1, <1>7 DEF TimesOut
<1>8. CASE LateCommand
  <2>1. PICK command \in late : Accepted(command) /\ Interfere(Effect(command), {})
    BY <1>8 DEF LateCommand
  <2> DEFINE e == Effect(command)
  <2>2. rows' = e.new /\ table' = table /\ late' # late
    <3>1. late' = {}
      BY <2>1 DEF Interfere, Change
    <3> QED BY <2>1, <3>1 DEF Interfere, Change
  <2>3. command \in TableCommands /\ SafeCommand(command)
    BY DEF ClientInv, TypeOK
  <2> QED BY <2>1, <2>2, <2>3, EffectKeeps
<1> QED BY <1>4, <1>5, <1>6, <1>7, <1>8 DEF ClientStep, Fault

(* The operator's commands never remove, change or re-order a row that is  *)
(* not managed, and, except for a sweep, a row of another resource: in a   *)
(* table of any length, whatever is added and removed between the print    *)
(* and the command, however late the command is carried out.               *)
THEOREM OthersAreUntouched == ClientSpec => OthersUntouched
<1>1. ClientInv /\ [ClientNext]_vars =>
        [ClientStep \/ Fault \/ LateCommand =>
           /\ StillThere(UnmanagedIds, UnmanagedIds')
           /\ call.op \in {"ensure", "delete"} /\ late' = late =>
                StillThere(ForeignIds, ForeignIds')]_vars
  BY OthersKept
<1> QED BY <1>1, ClientInvariant, PTL DEF ClientSpec, OthersUntouched

--------------------------------------------------------------------------------
(* A call that nobody disturbs. *)

LEMMA SameRows ==
  ASSUME table' = table, rows' = rows
  PROVE  /\ OwnIds' = OwnIds /\ UnmanagedIds' = UnmanagedIds /\ managedEntries' = managedEntries
         /\ OwnChains' = OwnChains /\ firstIDsByChain' = firstIDsByChain
         /\ \A op : Removable(op)' = Removable(op)
         /\ \A v, chain : Wanted(v, chain)' = Wanted(v, chain)
         /\ \A v : /\ entriesMatch(v)' = entriesMatch(v)
                   /\ PlaceBefore(v)' = PlaceBefore(v)
                   /\ Ordered(v)' = Ordered(v)
                   /\ Right(v)' = Right(v)
<1>1. Chains' = Chains /\ OwnIds' = OwnIds /\ UnmanagedIds' = UnmanagedIds
  BY SameTable DEF OwnIds, UnmanagedIds
<1>2. managedEntries' = managedEntries
  BY DEF managedEntries
<1>3. OwnChains' = OwnChains
  BY <1>1 DEF OwnChains
<1>4. firstIDsByChain' = firstIDsByChain
  <2>1. \A chain : InChain(chain)' = InChain(chain)
    BY DEF InChain
  <2> QED BY <1>1, <2>1 DEF firstIDsByChain
<1>5. \A op : Removable(op)' = Removable(op)
  BY <1>1 DEF Removable
<1>6. \A v, chain : Wanted(v, chain)' = Wanted(v, chain)
  BY DEF Wanted, Row, Part
<1>7. ASSUME NEW v
      PROVE  entriesMatch(v)' = entriesMatch(v) /\ PlaceBefore(v)' = PlaceBefore(v)
             /\ Ordered(v)' = Ordered(v)
  BY <1>2, <1>3, <1>6 DEF entriesMatch, PlaceBefore, Ordered
<1>8. ASSUME NEW v PROVE Right(v)' = Right(v)
  BY <1>1, <1>3, <1>6, <1>7 DEF Right
<1> QED BY <1>1, <1>2, <1>3, <1>4, <1>5, <1>6, <1>7, <1>8

LEMMA StayCalm ==
  ASSUME table' = table, rows' = rows, NEW c, c = call', CalmCall(c)
  PROVE  CalmWork'
<1> SUFFICES CalmCall(call)'
  BY DEF CalmWork
<1>1. CASE ~c.calm
  BY <1>1 DEF CalmCall
<1>2. CASE c.calm
  <2>1. c.at \in {"remove", "order"} => IsInjective(c.todo) /\ Range(c.todo) = Removable(c.op)'
    BY <1>2, SameRows DEF CalmCall
  <2>2. c.at = "order" => entriesMatch(c.value)'
    BY <1>2, SameRows DEF CalmCall
  <2>3. c.at \in {"first", "add"} => OwnIds' = {}
    BY <1>2, SameRows DEF CalmCall
  <2>4. c.at = "add" /\ PlaceBefore(c.value)' => c.first = firstIDsByChain'
    BY <1>2, SameRows DEF CalmCall
  <2>5. c.at = "add srcnat" =>
          \E i \in OwnIds' : OwnIds' = {i} /\ rows'[i] = Wanted(c.value, "dstnat")'
    BY <1>2, SameRows DEF CalmCall
  <2> QED BY <2>1, <2>2, <2>3, <2>4, <2>5 DEF CalmCall
<1> QED BY <1>1, <1>2

(* Nothing is claimed of a call that has returned or begins. *)
LEMMA RestCalm ==
  ASSUME call'.at \in {"ok", "failed", "look", "list"} \/ ~call'.calm
  PROVE  CalmWork'
BY DEF CalmWork, CalmCall

LEMMA CalmInit == ClientInit => CalmWork
<1> SUFFICES ASSUME ClientInit PROVE CalmWork
  OBVIOUS
<1>1. call.at = "ok"
  BY ReturnedCall DEF ClientInit
<1> QED BY <1>1 DEF CalmWork, CalmCall

(* What a call looks like after the table changed. *)
LEMMA FollowFields ==
  ASSUME NEW e, NEW c \in Calls, NEW l, Change(e, c, l)
  PROVE  /\ rows' = e.new
         /\ call'.op = c.op /\ call'.value = c.value /\ call'.at = c.at /\ call'.calm = c.calm
         /\ call'.todo = [i \in DOMAIN c.todo |-> IF c.todo[i] \in Nat THEN e.id[c.todo[i]] ELSE c.todo[i]]
BY DEF Change, Calls

(* What the resource's rows are after a command. *)
LEMMA RemovedIds ==
  ASSUME ClientInv, table' = table, NEW i \in DOMAIN rows, NEW e, e = Removal(i), rows' = e.new
  PROVE  \A op : Removable(op)' = {e.id[j] : j \in Removable(op) \ {i}}
<1>1. /\ \A j \in DOMAIN rows \ {i} : e.id[j] \in DOMAIN rows' /\ rows'[e.id[j]] = rows[j]
      /\ \A k \in DOMAIN rows' : \E j \in DOMAIN rows \ {i} : k = e.id[j]
  BY CallFields, Removed
<1>2. \A j \in DOMAIN rows \ {i} : e.id[j] \in OwnIds' <=> j \in OwnIds
  BY <1>1, SameTable DEF OwnIds
<1>3. \A j \in DOMAIN rows \ {i} : e.id[j] \in UnmanagedIds' <=> j \in UnmanagedIds
  BY <1>1, SameTable DEF UnmanagedIds
<1>4. OwnIds \subseteq DOMAIN rows /\ OwnIds' \subseteq DOMAIN rows'
  BY SameTable DEF OwnIds
<1> SUFFICES ASSUME NEW op PROVE Removable(op)' = {e.id[j] : j \in Removable(op) \ {i}}
  OBVIOUS
<1>5. Removable(op) \subseteq DOMAIN rows /\ Removable(op)' \subseteq DOMAIN rows'
  BY <1>4 DEF Removable
<1>6. \A j \in DOMAIN rows \ {i} : e.id[j] \in Removable(op)' <=> j \in Removable(op)
  BY <1>1, <1>2, <1>3 DEF Removable
<1> QED BY <1>1, <1>5, <1>6

LEMMA InsertedIds ==
  ASSUME ClientInv, table' = table, NEW i \in 1 .. Len(rows) + 1, NEW row \in Rows, IsOwn(row),
         NEW e, e = Insertion(i, row), rows' = e.new
  PROVE  OwnIds' = {i} \cup {e.id[j] : j \in OwnIds}
<1>1. /\ i \in DOMAIN rows' /\ rows'[i] = row
      /\ \A j \in DOMAIN rows : e.id[j] \in DOMAIN rows' /\ rows'[e.id[j]] = rows[j]
      /\ \A k \in DOMAIN rows' : k = i \/ \E j \in DOMAIN rows : k = e.id[j]
  BY CallFields, Inserted
<1>2. \A j \in DOMAIN rows : e.id[j] \in OwnIds' <=> j \in OwnIds
  BY <1>1, SameTable DEF OwnIds
<1>3. OwnIds \subseteq DOMAIN rows /\ OwnIds' \subseteq DOMAIN rows' /\ i \in OwnIds'
  BY <1>1, SameTable DEF OwnIds
<1> QED BY <1>1, <1>2, <1>3

(* A removal goes on with the rows that are left. *)
LEMMA RemoveCalm ==
  ASSUME ClientInv, CalmWork, call.calm, Send, call.at = "remove", NEW op, op = call.op
  PROVE  CalmWork' /\ (call'.at = "ok" => Removable(op)' = {})
<1> DEFINE h == Head(call.todo)
           t == Tail(call.todo)
           e == Removal(h)
           c == Removing(t)
<1>1. /\ call.todo # <<>> /\ call.todo \in Seq(Ids)
      /\ IsInjective(call.todo) /\ Range(call.todo) = Removable(op)
  BY CallFields DEF ClientInv, CallShape, CalmWork, CalmCall
<1>2. /\ t \in Seq(Ids) /\ h \in Removable(op)
      /\ IsInjective(t) /\ Range(t) = Removable(op) \ {h}
  BY <1>1, TailRange
<1>3. Removable(op) \subseteq DOMAIN rows /\ DOMAIN rows \subseteq Nat /\ rows \in Seq(Rows)
  BY CallFields DEF Removable, OwnIds
<1>4. Sending /\ ContinueAfter(Effect(Pending), Answered)
  BY DEF Send
<1>5. Answered = c /\ Effect(Pending) = e
  <2>1. Pending.op = "remove" /\ Pending.id = h
    BY <1>4, PendingSafe
  <2> QED BY <2>1, <1>4, AnsweredCall DEF Effect
<1>6. Change(e, c, late) /\ table' = table
  BY <1>4, <1>5 DEF ContinueAfter, Release
<1>7. /\ c \in Calls
      /\ t # <<>> => c = [call EXCEPT !.at = "remove", !.todo = t]
      /\ t = <<>> /\ op # "ensure" => c = Returned("ok")
      /\ t = <<>> /\ op = "ensure" =>
           c = [call EXCEPT !.at = IF PlaceBefore(call.value) THEN "first" ELSE "add", !.todo = <<>>]
  <2> HIDE DEF t
  <2>1. Range(t) \subseteq Removable(call.op) \cup {Gone}
    BY <1>2
  <2> QED BY <1>2, <2>1, RemovingCall
<1> HIDE DEF t, h, c
<1>8. /\ rows' = e.new
      /\ call'.op = c.op /\ call'.value = c.value /\ call'.at = c.at
      /\ call'.todo = [i \in DOMAIN c.todo |-> IF c.todo[i] \in Nat THEN e.id[c.todo[i]] ELSE c.todo[i]]
  BY <1>6, <1>7, FollowFields
<1>9. Removable(op)' = {e.id[j] : j \in Removable(op) \ {h}}
  BY <1>2, <1>3, <1>6, <1>8, RemovedIds
<1>10. /\ \A j \in DOMAIN rows \ {h} : e.id[j] \in DOMAIN e.new
       /\ \A j, k \in DOMAIN rows \ {h} : j < k => e.id[j] < e.id[k]
  BY <1>2, <1>3, Removed
<1>11. e.new \in Seq(Rows)
  BY <1>2, <1>3, Removed
<1> HIDE DEF e
<1>12. call \in Calls
  BY CallFields
<1>13. CASE t # <<>>
  <2>1. c.op = op /\ c.at = "remove" /\ c.todo = t
    BY <1>7, <1>12, <1>13 DEF Calls
  <2>2. \A i \in DOMAIN t : t[i] \in Removable(op) \ {h}
    BY <1>2 DEF Range
  <2>3. call'.todo = [i \in DOMAIN t |-> e.id[t[i]]]
    BY <2>1, <2>2, <1>3, <1>8
  <2>4. Range(call'.todo) = Removable(op)'
    <3>1. Range(call'.todo) = {e.id[t[i]] : i \in DOMAIN t}
      BY <2>3 DEF Range
    <3>2. {e.id[t[i]] : i \in DOMAIN t} = {e.id[j] : j \in Range(t)}
      BY DEF Range
    <3> QED BY <3>1, <3>2, <1>2, <1>9
  <2>5. IsInjective(call'.todo)
    <3>1. \A j, k \in DOMAIN rows \ {h} : e.id[j] = e.id[k] => j = k
      <4> SUFFICES ASSUME NEW j \in DOMAIN rows \ {h}, NEW k \in DOMAIN rows \ {h},
                          e.id[j] = e.id[k], j # k
                   PROVE  FALSE
        OBVIOUS
      <4>1. j \in Nat /\ k \in Nat /\ e.id[j] \in Nat /\ e.id[k] \in Nat
        BY <1>3, <1>10, <1>11
      <4>2. j < k \/ k < j
        BY <4>1
      <4> QED BY <4>1, <4>2, <1>10
    <3>2. \A i, j \in DOMAIN t : t[i] = t[j] => i = j
      BY <1>2 DEF IsInjective
    <3>3. \A i, j \in DOMAIN t : e.id[t[i]] = e.id[t[j]] => i = j
      BY <3>1, <3>2, <2>2, <1>3
    <3> QED BY <3>3, <2>3 DEF IsInjective
  <2>6. call'.op = op /\ call'.at = "remove"
    BY <2>1, <1>8
  <2> QED BY <2>4, <2>5, <2>6 DEF CalmWork, CalmCall
<1>14. CASE t = <<>>
  <2>1. Removable(op)' = {}
    <3>1. Range(t) = {}
      <4>1. DOMAIN t = {}
        BY <1>14
      <4> QED BY <4>1 DEF Range
    <3> QED BY <3>1, <1>2, <1>9
  <2>2. CASE op # "ensure"
    <3>1. call'.at = "ok"
      BY <2>2, <1>7, <1>8, <1>14, ReturnedCall
    <3> QED BY <3>1, <2>1, RestCalm
  <2>3. CASE op = "ensure"
    <3> DEFINE at == IF PlaceBefore(call.value) THEN "first" ELSE "add"
    <3>1. c = [call EXCEPT !.at = at, !.todo = <<>>]
      BY <2>3, <1>7, <1>14
    <3>2. at \in {"first", "add"} /\ (at = "add" => ~PlaceBefore(call.value))
      OBVIOUS
    <3> HIDE DEF at
    <3>3. call'.at = at /\ call'.op = "ensure" /\ call'.value = call.value
      BY <3>1, <2>3, <1>8, <1>12 DEF Calls
    <3>4. OwnIds' = {}
      BY <2>1, <2>3 DEF Removable
    <3>5. PlaceBefore(call.value)' <=> PlaceBefore(call.value)
      BY <3>3, <1>6 DEF PlaceBefore, Ordered
    <3> QED BY <3>2, <3>3, <3>4, <3>5 DEF CalmWork, CalmCall
  <2> QED BY <2>2, <2>3
<1> QED BY <1>13, <1>14

LEMMA TwoElements ==
  ASSUME NEW a, NEW b, a # b
  PROVE  Cardinality({a} \cup {b}) = 2
<1>1. IsFiniteSet({a}) /\ Cardinality({a}) = 1 /\ b \notin {a}
  BY FS_Singleton
<1>2. Cardinality({a} \cup {b}) = Cardinality({a}) + 1
  BY <1>1, FS_AddElement
<1> QED BY <1>1, <1>2

(* An addition completes the resource, or its first half. *)
LEMMA AddCalm ==
  ASSUME ClientInv, CalmWork, call.calm, Send, call.at # "remove", NEW value, value = call.value
  PROVE  CalmWork' /\ (call'.at = "ok" => Right(value)')
<1> DEFINE chain == Adding
           row == Wanted(value, chain)
           first == call.first[chain]
<1>1. Sending /\ Accepted(Pending) /\ ContinueAfter(Effect(Pending), Answered)
  BY DEF Send
<1>2. /\ chain \in OwnChains /\ chain \in Chains /\ value \in Values
      /\ row \in Rows /\ IsOwn(row)
      /\ call.at \in {"add", "add srcnat"}
      /\ table = "nat" /\ call.at = "add" => chain = "dstnat"
      /\ call.at = "add srcnat" => chain = "srcnat" /\ table = "nat"
  BY <1>1, AddingChain DEF Sending
<1>3. PICK i \in 1 .. Len(rows) + 1 :
        /\ first # Nothing => i = first
        /\ Effect(Pending) = Insertion(i, row)
  <2>1. Pending \in TableCommands /\ Pending.op = "add" /\ Pending.id = first /\ Pending.row = row
    BY <1>1, PendingSafe
  <2> QED BY <2>1, <1>1, EffectKinds DEF ClientInv
<1> DEFINE e == Insertion(i, row)
<1>4. Change(e, Answered, late) /\ table' = table
  BY <1>1, <1>3 DEF ContinueAfter, Release
<1>5. /\ Answered \in Calls
      /\ chain = "dstnat" => Answered = [call EXCEPT !.at = "add srcnat"] /\ table = "nat"
      /\ chain # "dstnat" => Answered = Returned("ok")
  BY <1>1, AnsweredCall
<1>6. /\ rows' = e.new /\ call'.at = Answered.at /\ call'.value = Answered.value
  BY <1>4, <1>5, FollowFields
<1>w. row.chain = chain
  BY DEF Wanted, Row
<1> HIDE DEF chain, row, first, e
<1>e. e = Insertion(i, row) /\ i \in 1 .. Len(rows) + 1
  BY DEF e
<1>r. row \in Rows /\ IsOwn(row)
  BY <1>2
<1>s. rows' = e.new /\ table' = table
  BY <1>4, <1>6
<1>7. /\ i \in DOMAIN rows' /\ rows'[i] = row
      /\ \A j \in DOMAIN rows : e.id[j] = IF j < i THEN j ELSE j + 1
      /\ \A j \in DOMAIN rows : rows'[e.id[j]] = rows[j] /\ e.id[j] # i
      /\ \A k \in DOMAIN rows' : k = i \/ \E j \in DOMAIN rows : k = e.id[j]
  <2>1. rows \in Seq(Rows)
    BY CallFields
  <2>2. /\ i \in DOMAIN e.new /\ e.new[i] = row
        /\ \A j \in DOMAIN rows : e.id[j] = IF j < i THEN j ELSE j + 1
        /\ \A j \in DOMAIN rows : e.new[e.id[j]] = rows[j] /\ e.id[j] # i
        /\ \A k \in DOMAIN e.new : k = i \/ \E j \in DOMAIN rows : k = e.id[j]
    BY <2>1, <1>r, <1>e, Inserted
  <2> QED BY <2>2, <1>6
<1>8. OwnIds' = {i} \cup {e.id[j] : j \in OwnIds}
  BY <1>r, <1>s, <1>e, InsertedIds
<1>9. \A c : Wanted(value, c)' = Wanted(value, c)
  BY <1>4 DEF Wanted, Row, Part
<1>10. OwnChains' = OwnChains
  BY <1>4, SameTable DEF OwnChains
<1>11. CASE chain = "dstnat"
  <2>1. call.at = "add" /\ OwnIds = {}
    BY <1>2, <1>11 DEF CalmWork, CalmCall
  <2>2. call'.at = "add srcnat" /\ call'.value = value
    BY <1>5, <1>6, <1>11, CallFields DEF Calls
  <2>3. OwnIds' = {i} /\ rows'[i] = Wanted(value, "dstnat")
    BY <2>1, <1>7, <1>8, <1>11 DEF row
  <2>4. \E k \in OwnIds' : OwnIds' = {k} /\ rows'[k] = Wanted(value, "dstnat")'
    BY <2>3, <1>9
  <2> QED BY <2>2, <2>4 DEF CalmWork, CalmCall
<1>12. CASE call.at = "add" /\ chain # "dstnat"
  <2>1. OwnIds' = {i}
    BY <1>8, <1>12 DEF CalmWork, CalmCall
  <2>2. table # "nat" /\ OwnChains = {chain}
    BY <1>2, <1>12, ChainsAre DEF OwnChains
  <2>3. call'.at = "ok"
    BY <1>5, <1>6, <1>12, ReturnedCall
  <2>4. Cardinality(OwnIds)' = Cardinality(OwnChains)'
    BY <2>1, <2>2, <1>10, FS_Singleton
  <2>5. \A c \in OwnChains' : \E k \in OwnIds' : rows'[k] = Wanted(value, c)'
    BY <2>1, <2>2, <1>7, <1>9, <1>10 DEF row
  <2>6. ASSUME Ordered(value)', NEW k \in UnmanagedIds', NEW j \in OwnIds',
               rows'[k].chain = rows'[j].chain
        PROVE  j < k
    <3>1. PlaceBefore(value) /\ j = i /\ rows'[k].chain = chain
      BY <2>6, <2>1, <1>4, <1>7, <1>w DEF Ordered, PlaceBefore
    <3>2. k \in DOMAIN rows' /\ k # i
      <4>1. rows'[k].comment \in Unmanaged /\ row.comment \notin Unmanaged /\ k \in DOMAIN rows'
        BY <1>2, <1>4, SameTable, OwnIsNotUnmanaged
      <4> QED BY <4>1, <1>7
    <3>3. PICK x \in DOMAIN rows : k = e.id[x]
      BY <3>2, <1>7
    <3>4. x \in InChain(chain)
      BY <3>1, <3>3, <1>7 DEF InChain
    <3>5. first = Min(InChain(chain))
      <4>1. call.first = firstIDsByChain
        BY <3>1, <1>12 DEF CalmWork, CalmCall
      <4> QED BY <4>1, <3>4, <1>2 DEF first, firstIDsByChain
    <3>6. InChain(chain) \subseteq Nat
      BY CallFields DEF InChain
    <3>7. first \in Nat /\ first <= x
      BY <3>4, <3>5, <3>6, LeastExists
    <3>8. i = first
      BY <3>7, <1>3, ClientAssumption
    <3>9. x \in Nat /\ i \in Nat /\ ~(x < i)
      BY <3>4, <3>6, <3>7, <3>8
    <3>10. e.id[x] = x + 1
      BY <3>9, <1>7
    <3> QED BY <3>1, <3>3, <3>9, <3>10
  <2>7. Right(value)'
    BY <2>4, <2>5, <2>6 DEF Right
  <2> QED BY <2>3, <2>7, RestCalm
<1>13. CASE call.at = "add srcnat"
  <2>1. chain = "srcnat" /\ table = "nat" /\ OwnChains = {"dstnat", "srcnat"}
    BY <1>2, <1>13, ChainsAre DEF OwnChains
  <2>2. PICK k \in OwnIds : OwnIds = {k} /\ rows[k] = Wanted(value, "dstnat")
    BY <1>13 DEF CalmWork, CalmCall
  <2>3. k \in DOMAIN rows
    BY DEF OwnIds
  <2> DEFINE m == e.id[k]
  <2>4. OwnIds' = {i} \cup {m} /\ m # i /\ rows'[m] = Wanted(value, "dstnat") /\ rows'[i] = Wanted(value, "srcnat")
    BY <2>1, <2>2, <2>3, <1>7, <1>8 DEF row
  <2> HIDE DEF m
  <2>5. Cardinality(OwnIds)' = 2
    BY <2>4, TwoElements
  <2>6. Cardinality(OwnChains)' = 2
    <3>1. OwnChains' = {"dstnat"} \cup {"srcnat"} /\ "dstnat" # "srcnat"
      BY <2>1, <1>10
    <3> QED BY <3>1, TwoElements
  <2>7. \A c \in OwnChains' : \E n \in OwnIds' : rows'[n] = Wanted(value, c)'
    BY <2>1, <2>4, <1>9, <1>10
  <2>8. ~Ordered(value)'
    BY <2>1, <1>4 DEF Ordered
  <2>9. Right(value)'
    BY <2>5, <2>6, <2>7, <2>8 DEF Right
  <2>10. call'.at = "ok"
    BY <2>1, <1>5, <1>6, ReturnedCall
  <2> QED BY <2>9, <2>10, RestCalm
<1> QED BY <1>2, <1>11, <1>12, <1>13

(* What a call is for. *)
Achieved(op, value) ==
  CASE op = "ensure" -> \E v \in Values : v = value /\ Right(v)
    [] op = "delete" -> OwnIds = {}
    [] op = "wipe" -> UnmanagedIds = DOMAIN rows

LEMMA NothingToRemove ==
  ASSUME NEW op \in {"delete", "wipe"}, NEW value, Removable(op)' = {}
  PROVE  Achieved(op, value)'
<1>1. CASE op = "delete"
  BY <1>1 DEF Achieved, Removable
<1>2. CASE op = "wipe"
  <2>1. UnmanagedIds' \subseteq DOMAIN rows'
    BY DEF UnmanagedIds
  <2>2. (DOMAIN rows') \ UnmanagedIds' = {}
    BY <1>2 DEF Removable
  <2> QED BY <2>1, <2>2, <1>2 DEF Achieved
<1> QED BY <1>1, <1>2

(* The resource is as wanted exactly when the code finds it so. *)
LEMMA RightIsFound ==
  ASSUME ClientInv, NEW value
  PROVE  Right(value) <=>
           /\ entriesMatch(value)
           /\ Ordered(value) =>
                \A i \in UnmanagedIds, j \in OwnIds : rows[i].chain = rows[j].chain => j < i
<1>1. managedEntries = OwnIds
  BY Entries DEF ClientInv
<1> QED BY <1>1 DEF Right, entriesMatch

LEMMA OrderIsFound ==
  ASSUME ClientInv, CalmWork, call.calm, call.at = "order"
  PROVE  /\ entriesMatch(call.value) /\ Ordered(call.value)
         /\ firewallRulePrecedesUnmanaged(Head(call.todo)) <=>
              \A i \in UnmanagedIds, j \in OwnIds : rows[i].chain = rows[j].chain => j < i
<1> DEFINE h == Head(call.todo)
<1>1. /\ entriesMatch(call.value) /\ Ordered(call.value) /\ call.op = "ensure"
      /\ call.todo # <<>> /\ Range(call.todo) = OwnIds
  BY DEF CalmWork, CalmCall, ClientInv, CallShape, Removable
<1>2. h \in OwnIds
  BY <1>1, CallFields, TailRange
<1>3. OwnIds = {h}
  <2>1. OwnChains = {"forward"}
    BY <1>1 DEF Ordered, OwnChains
  <2>2. managedEntries = OwnIds
    BY Entries DEF ClientInv
  <2>3. Cardinality(OwnIds) = 1
    BY <1>1, <2>1, <2>2, FS_Singleton DEF entriesMatch
  <2>4. IsFiniteSet(OwnIds)
    BY CallFields, FS_Subset DEF OwnIds
  <2>5. PICK x : OwnIds = {x}
    BY <2>3, <2>4, FS_Singleton
  <2> QED BY <2>5, <1>2
<1>4. h \in DOMAIN rows /\ DOMAIN rows = 1 .. Len(rows) /\ Len(rows) \in Nat
  BY <1>2, CallFields DEF OwnIds
<1>5. h # Gone
  BY <1>4, ClientAssumption
<1>6. h \notin UnmanagedIds /\ \A i \in DOMAIN rows : isManagedComment(rows[i].comment) <=> i \notin UnmanagedIds
  BY <1>2, Entries DEF ClientInv
<1>7. UnmanagedIds \subseteq DOMAIN rows
  BY DEF UnmanagedIds
<1> HIDE DEF h
<1>8. \A i : i \in 1 .. h - 1 <=> i \in DOMAIN rows /\ i < h
  BY <1>4
<1>9. firewallRulePrecedesUnmanaged(h) <=>
        \A i \in 1 .. h - 1 : rows[i].chain = rows[h].chain => i \notin UnmanagedIds
  BY <1>5, <1>6, <1>8 DEF firewallRulePrecedesUnmanaged
<1>10. \A i \in DOMAIN rows \ {h} : i < h <=> ~(h < i)
  BY <1>4
<1>11. (\A i \in 1 .. h - 1 : rows[i].chain = rows[h].chain => i \notin UnmanagedIds) <=>
         \A i \in UnmanagedIds : rows[i].chain = rows[h].chain => h < i
  BY <1>6, <1>7, <1>8, <1>10
<1>12. (\A i \in UnmanagedIds, j \in OwnIds : rows[i].chain = rows[j].chain => j < i) <=>
         \A i \in UnmanagedIds : rows[i].chain = rows[h].chain => h < i
  BY <1>3
<1> QED BY <1>1, <1>9, <1>11, <1>12 DEF h

LEMMA ContinueCalm ==
  ASSUME ClientInv, NEW c, Continue(c), CalmCall(c)
  PROVE  CalmWork'
<1>1. call' = c /\ rows' = rows /\ table' = table
  BY DEF Continue, Release
<1> QED BY <1>1, StayCalm

(* A step of an undisturbed call that only reads. *)
LEMMA ReadCalm ==
  ASSUME ClientInv, CalmWork, call.calm,
         LookUp \/ CheckOrder \/ deleteMatching \/ FindFirst \/ Refused,
         NEW op, op = call.op, NEW value, value = call.value
  PROVE  CalmWork' /\ (call'.at = "ok" => Achieved(op, value)')
<1>1. /\ call \in Calls /\ CallShape(call) /\ IsFiniteSet(DOMAIN rows) /\ DOMAIN rows \subseteq Nat
      /\ managedEntries = OwnIds /\ deletedEntries = Removable(op)
      /\ op \in {"none", "ensure", "delete", "wipe"}
  BY CallFields, Entries DEF ClientInv
<1>2. OwnIds \in SUBSET (DOMAIN rows) /\ Removable(op) \in SUBSET (DOMAIN rows)
  BY DEF OwnIds, Removable
<1>3. ASSUME NEW ids \in SUBSET (DOMAIN rows)
      PROVE  /\ Range(InOrder(ids)) = ids /\ IsInjective(InOrder(ids))
             /\ InOrder(ids) \in Seq(Ids)
             /\ InOrder(ids) = <<>> <=> ids = {}
  <2>1. IsFiniteSet(ids) /\ ids \subseteq Nat
    BY <1>1, FS_Subset
  <2>2. InOrder(ids) \in Seq(ids) /\ ids \subseteq Ids
    BY <2>1, InOrderLists DEF Ids
  <2>3. InOrder(ids) \in Seq(Ids)
    BY <2>2, SeqMonotonic
  <2> QED BY <2>1, <2>3, InOrderLists
<1>4. ASSUME NEW c, Continue(c) PROVE call' = c /\ rows' = rows /\ table' = table
  BY <1>4 DEF Continue, Release
<1>5. ASSUME rows' = rows, table' = table, op = "ensure", value \in Values, Right(value)
      PROVE  Achieved(op, value)'
  <2>1. Right(value)'
    BY <1>5, SameRows
  <2> QED BY <2>1, <1>5 DEF Achieved
<1>6. CASE LookUp
  <2>1. op = "ensure" /\ value \in Values
    BY <1>1, <1>6 DEF LookUp, CallShape
  <2>2. CASE entriesMatch(value) /\ Ordered(value)
    <3> DEFINE t == InOrder(OwnIds)
               c == [call EXCEPT !.at = "order", !.todo = t]
    <3>1. t \in Seq(Ids) /\ Range(t) = OwnIds /\ IsInjective(t)
      BY <1>2, <1>3
    <3>2. Continue(c)
      BY <2>2, <1>1, <1>6 DEF LookUp
    <3> HIDE DEF t
    <3>3. c.at = "order" /\ c.todo = t /\ c.op = op /\ c.value = value
      BY <3>1, <1>1 DEF Calls
    <3> HIDE DEF c
    <3>4. CalmCall(c)
      BY <3>1, <3>3, <2>1, <2>2 DEF CalmCall, Removable
    <3>5. call'.at # "ok"
      BY <3>2, <3>3, <1>4
    <3> QED BY <3>2, <3>4, <3>5, ContinueCalm
  <2>3. CASE entriesMatch(value) /\ ~Ordered(value)
    <3>1. Continue(Returned("ok"))
      BY <2>3, <1>6 DEF LookUp
    <3>2. Right(value)
      BY <2>3, RightIsFound
    <3>3. call'.at = "ok" /\ rows' = rows /\ table' = table
      BY <3>1, <1>4, ReturnedCall
    <3> QED BY <3>2, <3>3, <2>1, <1>5, RestCalm
  <2>4. CASE ~entriesMatch(value)
    <3>1. Continue([call EXCEPT !.at = "list"])
      BY <2>4, <1>6 DEF LookUp
    <3>2. ([call EXCEPT !.at = "list"]).at = "list"
      BY <1>1 DEF Calls
    <3>3. call' = [call EXCEPT !.at = "list"]
      BY <3>1 DEF Continue
    <3>4. call'.at = "list"
      BY <3>2, <3>3, Zenon
    <3> QED BY <3>4, RestCalm
  <2> QED BY <2>2, <2>3, <2>4
<1>7. CASE CheckOrder
  <2>1. call.at = "order" /\ op = "ensure" /\ value \in Values
    BY <1>1, <1>7 DEF CheckOrder, CallShape
  <2>2. CASE firewallRulePrecedesUnmanaged(Head(call.todo))
    <3>1. Continue(Returned("ok"))
      BY <2>2, <1>7 DEF CheckOrder
    <3>2. Right(value)
      BY <2>1, <2>2, OrderIsFound, RightIsFound
    <3>3. call'.at = "ok" /\ rows' = rows /\ table' = table
      BY <3>1, <1>4, ReturnedCall
    <3> QED BY <3>2, <3>3, <2>1, <1>5, RestCalm
  <2>3. CASE ~firewallRulePrecedesUnmanaged(Head(call.todo))
    <3>1. Continue([call EXCEPT !.at = "list", !.todo = <<>>])
      BY <2>3, <1>7 DEF CheckOrder
    <3>2. ([call EXCEPT !.at = "list", !.todo = <<>>]).at = "list"
      BY <1>1 DEF Calls
    <3>3. call' = [call EXCEPT !.at = "list", !.todo = <<>>]
      BY <3>1 DEF Continue
    <3>4. call'.at = "list"
      BY <3>2, <3>3, Zenon
    <3> QED BY <3>4, RestCalm
  <2> QED BY <2>2, <2>3
<1>8. CASE deleteMatching
  <2> DEFINE t == InOrder(Removable(op))
             c == Removing(t)
  <2>1. call.at = "list" /\ Continue(c)
    BY <1>1, <1>8 DEF deleteMatching
  <2>2. t \in Seq(Ids) /\ Range(t) = Removable(op) /\ IsInjective(t) /\ (t = <<>> <=> Removable(op) = {})
    BY <1>2, <1>3
  <2> HIDE DEF t
  <2>3. /\ t # <<>> => c = [call EXCEPT !.at = "remove", !.todo = t]
        /\ t = <<>> /\ op # "ensure" => c = Returned("ok")
        /\ t = <<>> /\ op = "ensure" =>
             c = [call EXCEPT !.at = IF PlaceBefore(value) THEN "first" ELSE "add", !.todo = <<>>]
    <3>1. Range(t) \subseteq Removable(call.op) \cup {Gone}
      BY <2>2
    <3> QED BY <2>1, <2>2, <3>1, RemovingCall
  <2>4. call' = c /\ rows' = rows /\ table' = table
    BY <2>1, <1>4
  <2> HIDE DEF c
  <2>5. CASE t # <<>>
    <3>1. c.at = "remove" /\ c.todo = t /\ c.op = op
      BY <2>3, <2>5, <1>1 DEF Calls
    <3>2. CalmCall(c)
      BY <3>1, <2>2 DEF CalmCall
    <3> QED BY <3>1, <3>2, <2>1, <2>4, ContinueCalm
  <2>6. CASE t = <<>> /\ op # "ensure"
    <3>1. call'.at = "ok"
      BY <2>3, <2>4, <2>6, ReturnedCall
    <3>2. Removable(op)' = {}
      BY <2>2, <2>4, <2>6, SameRows
    <3>3. op \in {"delete", "wipe"}
      BY <1>1, <2>1, <2>6 DEF CallShape
    <3> QED BY <3>1, <3>2, <3>3, NothingToRemove, RestCalm
  <2>7. CASE t = <<>> /\ op = "ensure"
    <3> DEFINE at == IF PlaceBefore(value) THEN "first" ELSE "add"
    <3>1. c = [call EXCEPT !.at = at, !.todo = <<>>]
      BY <2>3, <2>7
    <3>2. at \in {"first", "add"} /\ (at = "add" => ~PlaceBefore(value))
      OBVIOUS
    <3> HIDE DEF at
    <3>3. c.at = at /\ c.value = value
      BY <3>1, <1>1 DEF Calls
    <3>4. OwnIds = {}
      BY <2>2, <2>7 DEF Removable
    <3>5. CalmCall(c)
      BY <3>2, <3>3, <3>4 DEF CalmCall
    <3> QED BY <3>2, <3>3, <3>5, <2>1, <2>4, ContinueCalm
  <2> QED BY <2>5, <2>6, <2>7
<1>9. CASE FindFirst
  <2> DEFINE f == firstIDsByChain
             c == [call EXCEPT !.at = "add", !.first = f]
  <2>1. call.at = "first" /\ Continue(c)
    BY <1>9 DEF FindFirst
  <2> HIDE DEF f
  <2>2. c.at = "add" /\ c.first = f
    BY <1>1 DEF Calls
  <2> HIDE DEF c
  <2>3. OwnIds = {}
    BY <2>1 DEF CalmWork, CalmCall
  <2>4. CalmCall(c)
    BY <2>2, <2>3 DEF CalmCall, f
  <2>5. call'.at # "ok"
    BY <2>1, <2>2, <1>4
  <2> QED BY <2>1, <2>4, <2>5, ContinueCalm
<1>10. CASE Refused
  <2>1. Continue(Returned("failed"))
    BY <1>10 DEF Refused
  <2>2. call'.at = "failed"
    BY <2>1, <1>4, ReturnedCall
  <2> QED BY <2>2, RestCalm
<1> QED BY <1>6, <1>7, <1>8, <1>9, <1>10

(* An undisturbed call that has been interfered with stays so until it     *)
(* returns.                                                                *)
LEMMA DisturbedRests ==
  ASSUME ClientInv, ~call.calm, ClientStep
  PROVE  CalmWork'
<1>1. call \in Calls /\ CallShape(call) /\ call.todo \in Seq(Ids) /\ deletedEntries = Removable(call.op)
  BY CallFields, Entries DEF ClientInv
<1>2. \A at, todo, first :
        /\ ~[call EXCEPT !.at = at].calm
        /\ ~[call EXCEPT !.at = at, !.todo = todo].calm
        /\ ~[call EXCEPT !.at = at, !.first = first].calm
  BY <1>1 DEF Calls
<1>3. Returned("ok").at = "ok" /\ Returned("failed").at = "failed"
  BY ReturnedCall
<1> DEFINE Rests(c) == c.at \in {"ok", "failed"} \/ ~c.calm
<1>4. ASSUME call.at \in {"list", "remove"}, NEW todo PROVE Rests(Removing(todo))
  <2>1. CASE todo # <<>>
    BY <2>1, <1>2 DEF Removing
  <2>2. CASE todo = <<>> /\ call.op # "ensure"
    BY <2>2, <1>3 DEF Removing
  <2>3. CASE todo = <<>> /\ call.op = "ensure"
    <3> DEFINE at == IF PlaceBefore(call.value) THEN "first" ELSE "add"
    <3>1. Removing(todo) = [call EXCEPT !.at = at, !.todo = <<>>]
      BY <2>3 DEF Removing
    <3> HIDE DEF at
    <3>2. ~Removing(todo).calm
      BY <3>1, <1>2, Zenon
    <3> QED BY <3>2
  <2> QED BY <2>1, <2>2, <2>3
<1>5. ASSUME NEW c, Continue(c), Rests(c) PROVE CalmWork'
  <2>1. call' = c
    BY <1>5 DEF Continue
  <2> QED BY <2>1, <1>5, RestCalm
<1>6. CASE LookUp
  <2>1. CASE entriesMatch(call.value) /\ Ordered(call.value)
    <3>1. Continue([call EXCEPT !.at = "order", !.todo = InOrder(managedEntries)])
      BY <2>1, <1>6 DEF LookUp
    <3> QED BY <3>1, <1>2, <1>5
  <2>2. CASE entriesMatch(call.value) /\ ~Ordered(call.value)
    <3>1. Continue(Returned("ok"))
      BY <2>2, <1>6 DEF LookUp
    <3> QED BY <3>1, <1>3, <1>5
  <2>3. CASE ~entriesMatch(call.value)
    <3>1. Continue([call EXCEPT !.at = "list"])
      BY <2>3, <1>6 DEF LookUp
    <3> QED BY <3>1, <1>2, <1>5
  <2> QED BY <2>1, <2>2, <2>3
<1>7. CASE CheckOrder
  <2>1. CASE firewallRulePrecedesUnmanaged(Head(call.todo))
    <3>1. Continue(Returned("ok"))
      BY <2>1, <1>7 DEF CheckOrder
    <3> QED BY <3>1, <1>3, <1>5
  <2>2. CASE ~firewallRulePrecedesUnmanaged(Head(call.todo))
    <3>1. Continue([call EXCEPT !.at = "list", !.todo = <<>>])
      BY <2>2, <1>7 DEF CheckOrder
    <3> QED BY <3>1, <1>2, <1>5
  <2> QED BY <2>1, <2>2
<1>8. CASE deleteMatching
  <2> DEFINE t == InOrder(deletedEntries)
  <2>1. call.at = "list" /\ Continue(Removing(t))
    BY <1>8 DEF deleteMatching
  <2> HIDE DEF t, Rests
  <2> QED BY <2>1, <1>4, <1>5
<1>9. CASE FindFirst
  <2>1. Continue([call EXCEPT !.at = "add", !.first = firstIDsByChain])
    BY <1>9 DEF FindFirst
  <2> QED BY <2>1, <1>2, <1>5
<1>10. CASE Refused
  <2>1. Continue(Returned("failed"))
    BY <1>10 DEF Refused
  <2> QED BY <2>1, <1>3, <1>5
<1>11. CASE Send
  <2>1. Sending /\ ContinueAfter(Effect(Pending), Answered)
    BY <1>11 DEF Send
  <2>2. Answered \in Calls
    BY <2>1, AnsweredCall
  <2>3. call'.at = Answered.at /\ call'.calm = Answered.calm
    <3>1. Change(Effect(Pending), Answered, late)
      BY <2>1 DEF ContinueAfter
    <3> QED BY <3>1, <2>2, FollowFields
  <2>4. Rests(Answered)
    <3>1. CASE call.at = "remove"
      <4> DEFINE t == Tail(call.todo)
      <4>1. Answered = Removing(t)
        BY <3>1, <2>1, AnsweredCall
      <4> HIDE DEF t, Rests
      <4>2. Rests(Removing(t))
        BY <3>1, <1>4
      <4> QED BY <4>1, <4>2
    <3>2. CASE call.at # "remove" /\ Adding = "dstnat"
      <4>1. Answered = [call EXCEPT !.at = "add srcnat"]
        BY <3>2, <2>1, AnsweredCall
      <4> QED BY <4>1, <1>2
    <3>3. CASE call.at # "remove" /\ Adding # "dstnat"
      <4>1. Answered = Returned("ok")
        BY <3>3, <2>1, AnsweredCall
      <4> QED BY <4>1, <1>3
    <3> QED BY <3>1, <3>2, <3>3
  <2> QED BY <2>3, <2>4, RestCalm
<1> QED BY <1>6, <1>7, <1>8, <1>9, <1>10, <1>11 DEF ClientStep

LEMMA EnvironmentCalm ==
  ASSUME ClientInv, NEW e, NEW l, Interfere(e, l)
  PROVE  CalmWork' /\ (call.op # "none" => call'.at # "ok")
<1> DEFINE c == [call EXCEPT !.calm = call.op = "none"]
<1>1. Change(e, c, l)
  BY DEF Interfere
<1> HIDE DEF c
<1>2. c \in Calls /\ c.at = call.at /\ (c.calm => call.op = "none")
  BY InterferedCall DEF c
<1>3. call'.at = call.at /\ call'.calm = c.calm
  BY <1>1, <1>2, FollowFields
<1>4. call.op = "none" <=> call.at \in {"ok", "failed"}
  BY DEF ClientInv, CallShape
<1>5. call'.at \in {"ok", "failed"} \/ ~call'.calm
  BY <1>2, <1>3, <1>4
<1> QED BY <1>3, <1>4, <1>5, RestCalm

LEMMA UnchangedCalm ==
  ASSUME CalmWork, call' = call, rows' = rows, table' = table
  PROVE  CalmWork'
BY StayCalm DEF CalmWork

LEMMA BeginCalm ==
  ASSUME BeginEnsure \/ BeginDelete \/ BeginWipe
  PROVE  CalmWork' /\ call.op = "none"
<1>1. PICK op \in {"ensure", "delete", "wipe"}, value \in Values \cup {Nothing} :
        (op = "ensure" => value \in Values) /\ Begin(op, value)
  BY DEF BeginEnsure, BeginDelete, BeginWipe
<1> DEFINE c == call'
<1>2. c = [Idle EXCEPT !.op = op, !.value = value, !.at = IF op = "ensure" THEN "look" ELSE "list"]
  BY <1>1 DEF Begin
<1> HIDE DEF c
<1>3. c.at \in {"look", "list"}
  BY <1>1, <1>2, BegunCall
<1>4. call'.at \in {"look", "list"}
  BY <1>3 DEF c
<1> QED BY <1>1, <1>4, RestCalm DEF Begin

(* Every step keeps what an undisturbed call knows, and the step with      *)
(* which it reports success leaves its work done.                          *)
LEMMA CalmNext ==
  ASSUME ClientInv, CalmWork, [ClientNext]_vars, NEW op, op = call.op, NEW value, value = call.value
  PROVE  /\ CalmWork'
         /\ op # "none" /\ call.calm /\ call'.at = "ok" => Achieved(op, value)'
<1>1. /\ call.op = "none" <=> call.at \in {"ok", "failed"}
      /\ op \in {"none", "ensure", "delete", "wipe"}
  BY CallFields DEF ClientInv, CallShape
<1>2. CASE UNCHANGED vars
  <2>1. call' = call /\ rows' = rows /\ table' = table
    BY <1>2 DEF vars
  <2> QED BY <2>1, <1>1, UnchangedCalm
<1>3. CASE BeginEnsure \/ BeginDelete \/ BeginWipe
  BY <1>3, BeginCalm
<1>4. CASE ClientStep
  <2>1. CASE ~call.calm
    BY <2>1, <1>4, DisturbedRests
  <2>2. CASE call.calm /\ ~Send
    BY <2>2, <1>4, ReadCalm DEF ClientStep
  <2>3. CASE call.calm /\ Send /\ call.at = "remove"
    <3>1. CalmWork' /\ (call'.at = "ok" => Removable(op)' = {})
      BY <2>3, RemoveCalm
    <3>2. ASSUME call'.at = "ok", op = "ensure" PROVE FALSE
      <4>1. Sending /\ ContinueAfter(Effect(Pending), Answered) /\ Answered = Removing(Tail(call.todo))
        BY <2>3, AnsweredCall DEF Send
      <4>2. Answered \in Calls /\ Change(Effect(Pending), Answered, late)
        BY <4>1, AnsweredCall DEF ContinueAfter
      <4>3. Answered.at = "ok"
        BY <4>2, <3>2, FollowFields
      <4>4. call \in Calls
        BY CallFields
      <4> DEFINE t == Tail(call.todo)
                 at == IF t # <<>> THEN "remove" ELSE IF PlaceBefore(call.value) THEN "first" ELSE "add"
      <4>5. Answered = [call EXCEPT !.at = at, !.todo = t]
        BY <4>1, <3>2 DEF Removing
      <4>6. at # "ok"
        OBVIOUS
      <4> HIDE DEF at, t
      <4>7. Answered.at = at
        BY <4>4, <4>5 DEF Calls
      <4> QED BY <4>3, <4>6, <4>7
    <3>3. call'.at = "ok" /\ op \in {"delete", "wipe"} => Achieved(op, value)'
      BY <3>1, NothingToRemove
    <3> QED BY <3>1, <3>2, <3>3, <1>1
  <2>4. CASE call.calm /\ Send /\ call.at # "remove"
    <3>1. CalmWork' /\ (call'.at = "ok" => Right(value)')
      BY <2>4, AddCalm
    <3>2. op = "ensure" /\ value \in Values
      BY <2>4, AddingChain DEF Send
    <3> QED BY <3>1, <3>2 DEF Achieved
  <2> QED BY <2>1, <2>2, <2>3, <2>4
<1>5. CASE Fault
  <2>1. call'.at = "failed"
    <3>1. CASE RequestLost
      BY <3>1, ReturnedCall DEF RequestLost, Continue
    <3>2. CASE AnswerLost
      <4>1. Returned("failed") \in Calls /\ Returned("failed").at = "failed"
        BY ReturnedCall
      <4>2. Change(Effect(Pending), Returned("failed"), late)
        BY <3>2 DEF AnswerLost, ContinueAfter
      <4> QED BY <4>1, <4>2, FollowFields
    <3>3. CASE TimesOut
      BY <3>3, ReturnedCall DEF TimesOut
    <3> QED BY <1>5, <3>1, <3>2, <3>3 DEF Fault
  <2> QED BY <2>1, RestCalm
<1>6. CASE LateCommand \/ ForeignAdd \/ ForeignRemove \/ ForeignEdit
  <2>1. \E e, l : Interfere(e, l)
    BY <1>6 DEF LateCommand, ForeignAdd, ForeignRemove, ForeignEdit
  <2> QED BY <2>1, EnvironmentCalm
<1>7. CASE LateCommandLost \/ UserStep
  <2>1. call' = call /\ rows' = rows /\ table' = table
    BY <1>7 DEF LateCommandLost, UserStep
  <2> QED BY <2>1, <1>1, UnchangedCalm
<1> QED BY <1>2, <1>3, <1>4, <1>5, <1>6, <1>7 DEF ClientNext, Environment

(* As long as nobody interferes, a call knows which of its rows are left   *)
(* and where its chain begins.                                             *)
THEOREM CalmInvariant == ClientSpec => []CalmWork
<1>1. ClientInit => CalmWork
  BY CalmInit
<1>2. ClientInv /\ CalmWork /\ [ClientNext]_vars => CalmWork'
  BY CalmNext
<1> QED BY <1>1, <1>2, ClientInvariant, PTL DEF ClientSpec

(* A call that reports success, and was not interfered with, has done its  *)
(* work, whatever earlier calls left behind: the resource is there exactly *)
(* once and as wanted, or none of its rows is left, or no managed row.     *)
THEOREM SuccessMeansDone == ClientSpec => SuccessIsReal
<1>1. ClientInv /\ CalmWork /\ [ClientNext]_vars =>
        [call.op # "none" /\ call.calm /\ call'.at = "ok" =>
           CASE call.op = "ensure" -> \E value \in Values : value = call.value /\ Right(value)'
             [] call.op = "delete" -> OwnIds' = {}
             [] call.op = "wipe" -> UnmanagedIds' = DOMAIN rows']_vars
  <2> SUFFICES ASSUME ClientInv, CalmWork, [ClientNext]_vars,
                      call.op # "none", call.calm, call'.at = "ok"
               PROVE  CASE call.op = "ensure" -> \E value \in Values : value = call.value /\ Right(value)'
                        [] call.op = "delete" -> OwnIds' = {}
                        [] call.op = "wipe" -> UnmanagedIds' = DOMAIN rows'
    OBVIOUS
  <2>1. PICK op, value : op = call.op /\ value = call.value
    OBVIOUS
  <2>2. Achieved(op, value)' /\ op \in {"ensure", "delete", "wipe"}
    BY <2>1, CalmNext, CallFields
  <2>3. CASE op = "ensure"
    <3>1. \E v \in Values : v = value /\ Right(v)'
      BY <2>2, <2>3 DEF Achieved
    <3> QED BY <3>1, <2>1, <2>3
  <2>4. CASE op = "delete"
    <3>1. OwnIds' = {}
      BY <2>2, <2>4 DEF Achieved
    <3> QED BY <3>1, <2>1, <2>4
  <2>5. CASE op = "wipe"
    <3>1. UnmanagedIds' = DOMAIN rows'
      BY <2>2, <2>5 DEF Achieved
    <3> QED BY <3>1, <2>1, <2>5
  <2> QED BY <2>2, <2>3, <2>4, <2>5
<1> QED BY <1>1, ClientInvariant, CalmInvariant, PTL DEF ClientSpec, SuccessIsReal

(* The drift check is harmless: an Ensure that nobody interferes with and  *)
(* that finds the resource as it should be does not take it down.          *)
THEOREM DriftCheckIsQuiet == ClientSpec => NoChurn
<1>1. ClientInv /\ CalmWork /\ [ClientNext]_vars =>
        [call.at \in {"look", "order"} /\ call.calm /\ Right(call.value) /\ ClientStep =>
           call'.at # "list"]_vars
  <2> SUFFICES ASSUME ClientInv, CalmWork, call.at \in {"look", "order"}, call.calm,
                      Right(call.value), ClientStep
               PROVE  call'.at # "list"
    OBVIOUS
  <2>1. call \in Calls
    BY CallFields
  <2>2. /\ entriesMatch(call.value)
        /\ Ordered(call.value) =>
             \A i \in UnmanagedIds, j \in OwnIds : rows[i].chain = rows[j].chain => j < i
    BY RightIsFound
  <2>3. CASE call.at = "look"
    <3>1. LookUp
      BY <2>3 DEF ClientStep, CheckOrder, deleteMatching, FindFirst, Send, Refused, Sending
    <3>2. CASE Ordered(call.value)
      <4> DEFINE c == [call EXCEPT !.at = "order", !.todo = InOrder(managedEntries)]
      <4>1. call' = c
        BY <2>2, <3>1, <3>2 DEF LookUp, Continue
      <4>2. c.at = "order"
        BY <2>1 DEF Calls
      <4> QED BY <4>1, <4>2
    <3>3. CASE ~Ordered(call.value)
      <4>1. call' = Returned("ok")
        BY <2>2, <3>1, <3>3 DEF LookUp, Continue
      <4> QED BY <4>1, ReturnedCall
    <3> QED BY <3>2, <3>3
  <2>4. CASE call.at = "order"
    <3>1. CheckOrder
      BY <2>4 DEF ClientStep, LookUp, deleteMatching, FindFirst, Send, Refused, Sending
    <3>2. firewallRulePrecedesUnmanaged(Head(call.todo))
      BY <2>2, <2>4, OrderIsFound
    <3>3. call' = Returned("ok")
      BY <3>1, <3>2 DEF CheckOrder, Continue
    <3> QED BY <3>3, ReturnedCall
  <2> QED BY <2>3, <2>4
<1> QED BY <1>1, ClientInvariant, CalmInvariant, PTL DEF ClientSpec, NoChurn
================================================================================
