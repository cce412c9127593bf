------------------------------- MODULE FoldProofs -------------------------------
(***************************************************************************)
(* What a fold over a sequence computes, for sequences of any length: on   *)
(* the empty sequence its base, on a longer one a step from what it        *)
(* computes on all but the last element.  A fold is defined by a recursive *)
(* function on sets of places, and the step here is a function, not an     *)
(* operator, so that the facts below are first-order and can be cited.     *)
(* Induction over sequences likewise speaks of a set of sequences.         *)
(***************************************************************************)
EXTENDS Naturals, Sequences, SequencesExt, SequenceTheorems, WellFoundedInduction, TLAPS

(* A non-empty set of naturals has a least element. *)
LEMMA LeastNatural ==
  ASSUME NEW N, N \subseteq Nat, N # {}
  PROVE  \E m \in N : \A n \in N : m <= n
<1>1. \E m \in N : \A n \in N : <<n, m>> \notin OpToRel(<, Nat)
  BY NatLessThanWellFounded, WFMin, Zenon
<1>2. PICK m \in N : \A n \in N : <<n, m>> \notin OpToRel(<, Nat)
  BY <1>1
<1>3. \A n \in N : ~(n < m)
  BY <1>2 DEF OpToRel
<1>4. \A n \in N : m <= n
  BY <1>3
<1> QED BY <1>4

(* A sequence that is not empty is a shorter one and its last element. *)
LEMMA ShorterAndLast ==
  ASSUME NEW T, NEW s \in Seq(T), s # <<>>
  PROVE  \E t \in Seq(T), x \in T : s = Append(t, x) /\ Len(s) = Len(t) + 1
<1>1. Len(s) \in Nat \ {0} /\ \A i \in 1 .. Len(s) : s[i] \in T
  BY EmptySeq, LenProperties, ElementOfSeq
<1> DEFINE n == Len(s) - 1
           t == SubSeq(s, 1, n)
           x == s[Len(s)]
<1>2. n \in Nat /\ Len(s) = n + 1 /\ x \in T /\ \A i \in 1 .. n : s[i] \in T
  BY <1>1
<1>3. t \in Seq(T) /\ Len(t) = n /\ \A i \in 1 .. n : t[i] = s[i]
  <2>1. 1 \in Int /\ n \in Int /\ (n - 1) + 1 = n /\ (\A i \in 1 .. n : 1 + i - 1 = i)
        /\ (IF 1 <= n THEN n - 1 + 1 ELSE 0) = n
    BY <1>2
  <2> HIDE DEF n
  <2>2. /\ t \in Seq(T) /\ Len(t) = IF 1 <= n THEN n - 1 + 1 ELSE 0
        /\ \A i \in 1 .. n - 1 + 1 : t[i] = s[1 + i - 1]
    BY <1>2, <2>1, SubSeqProperties
  <2> QED BY <2>1, <2>2
<1>4. x = s[n + 1] /\ x \in T
  BY <1>2
<1> HIDE DEF n, t, x
<1>5. /\ Append(t, x) \in Seq(T) /\ Len(Append(t, x)) = n + 1
      /\ Append(t, x)[n + 1] = x /\ \A i \in 1 .. n : Append(t, x)[i] = s[i]
  BY <1>3, <1>4, AppendProperties
<1>6. \A i \in 1 .. Len(s) : Append(t, x)[i] = s[i]
  BY <1>2, <1>4, <1>5
<1>7. s = Append(t, x)
  BY <1>2, <1>5, <1>6, SeqEqual
<1> QED BY <1>2, <1>3, <1>4, <1>7

(* Induction over sequences. *)
LEMMA SequenceInduction ==
  ASSUME NEW T, NEW P, <<>> \in P,
         \A s \in Seq(T), x \in T : s \in P => Append(s, x) \in P
  PROVE  Seq(T) \subseteq P
<1> SUFFICES ASSUME ~(Seq(T) \subseteq P) PROVE FALSE
  OBVIOUS
<1> DEFINE N == {Len(s) : s \in Seq(T) \ P}
<1>1. N \subseteq Nat /\ N # {}
  BY LenProperties
<1>2. PICK m \in N : \A n \in N : m <= n
  BY <1>1, LeastNatural
<1>3. PICK s \in Seq(T) \ P : m = Len(s)
  BY <1>2
<1>4. PICK t \in Seq(T), x \in T : s = Append(t, x) /\ Len(s) = Len(t) + 1
  BY <1>3, ShorterAndLast
<1>5. Len(t) \in Nat /\ Len(t) < m
  BY <1>3, <1>4, LenProperties
<1>6. Len(t) \notin N
  BY <1>1, <1>2, <1>5
<1> QED BY <1>3, <1>4, <1>6

(* The places of a sequence, up to n. *)
LEMMA Places ==
  ASSUME NEW n \in Nat \ {0}
  PROVE  /\ 1 .. n # {} /\ Max(1 .. n) = n
         /\ (1 .. n) \ {n} = 1 .. (n - 1)
         /\ \A N \in SUBSET (1 .. n) : n \in N => Max(N) = n
<1>1. \A N \in SUBSET (1 .. n) : n \in N => Max(N) = n
  <2> SUFFICES ASSUME NEW N \in SUBSET (1 .. n), n \in N PROVE Max(N) = n
    OBVIOUS
  <2>1. n \in N /\ \A m \in N : n >= m
    OBVIOUS
  <2> DEFINE last == Max(N)
  <2>2. last \in N /\ \A m \in N : last >= m
    BY <2>1 DEF Max
  <2> HIDE DEF last
  <2>3. last \in 1 .. n /\ last >= n
    BY <2>1, <2>2
  <2>4. last = n
    BY <2>3
  <2> QED BY <2>4 DEF last
<1> QED BY <1>1

LEMMA MaxOfPlaces ==
  ASSUME NEW n \in Nat, NEW N \in SUBSET (1 .. n), N # {}
  PROVE  Max(N) \in N
<1> DEFINE M == {n - i : i \in N}
<1>1. M \subseteq Nat
  <2>1. \A i \in N : i \in 1 .. n /\ n - i \in Nat
    OBVIOUS
  <2> QED BY <2>1
<1>2. M # {}
  OBVIOUS
<1>3. \E m \in M : \A k \in M : m <= k
  <2> HIDE DEF M
  <2> QED BY <1>1, <1>2, LeastNatural
<1>4. PICK i \in N : \A k \in M : n - i <= k
  BY <1>3
<1>5. ASSUME NEW j \in N PROVE i >= j
  <2>1. n - i <= n - j
    BY <1>4
  <2>2. i \in Nat /\ j \in Nat
    OBVIOUS
  <2> QED BY <2>1, <2>2
<1> QED BY <1>5 DEF Max

--------------------------------------------------------------------------------
(* What takes a state and an element of the sequence to the next state. *)
Steps(S, T) == [S \X T -> S]

(* The recursive function of a fold on the sets of the first n places. *)
Folding(base, step, seq, g, n) ==
  \A N \in SUBSET (1 .. n) :
    g[N] = IF N = {} THEN base ELSE step[<<g[N \ {Max(N)}], seq[Max(N)]>>]

Unfolds(base, step, S, T, seq, g) ==
  /\ g \in [SUBSET DOMAIN seq -> S]
  /\ Folding(base, step, seq, g, Len(seq))
  /\ \A N \in SUBSET DOMAIN seq : N # {} => seq[Max(N)] \in T
  /\ DOMAIN seq = 1 .. Len(seq)

(* There is such a function. *)
LEMMA FoldingExists ==
  ASSUME NEW S, NEW T, NEW base \in S, NEW step \in Steps(S, T), NEW seq \in Seq(T)
  PROVE  \E g : Unfolds(base, step, S, T, seq, g)
<1> DEFINE Found(n) == \E g \in [SUBSET (1 .. n) -> S] : Folding(base, step, seq, g, n)
           N == {n \in 0 .. Len(seq) : ~Found(n)}
<1>l. Len(seq) \in Nat
  BY LenProperties
<1>1. Found(0)
  <2>1. SUBSET (1 .. 0) = {{}}
    OBVIOUS
  <2>2. Folding(base, step, seq, [M \in SUBSET (1 .. 0) |-> base], 0)
    BY <2>1 DEF Folding
  <2> QED BY <2>2
<1>2. ASSUME NEW n \in 1 .. Len(seq), Found(n - 1) PROVE Found(n)
  <2>1. PICK h \in [SUBSET (1 .. (n - 1)) -> S] : Folding(base, step, seq, h, n - 1)
    BY <1>2
  <2> DEFINE g == [M \in SUBSET (1 .. n) |->
                     IF n \in M THEN step[<<h[M \ {n}], seq[n]>>] ELSE h[M]]
  <2>2. n \in Nat \ {0} /\ seq[n] \in T
    BY <1>l, ElementOfSeq
  <2>3. \A M \in SUBSET (1 .. n) : M \ {n} \in SUBSET (1 .. (n - 1))
    BY <2>2
  <2>4. \A M \in SUBSET (1 .. n) : n \notin M => M \in SUBSET (1 .. (n - 1))
    BY <2>2
  <2>5. g \in [SUBSET (1 .. n) -> S]
    BY <2>2, <2>3, <2>4 DEF Steps
  <2>6. ASSUME NEW M \in SUBSET (1 .. n), n \in M
        PROVE  g[M] = step[<<g[M \ {Max(M)}], seq[Max(M)]>>]
    <3>1. Max(M) = n
      BY <2>2, <2>6, Places
    <3>2. g[M \ {n}] = h[M \ {n}]
      BY <2>3
    <3> QED BY <3>1, <3>2, <2>6
  <2>7. ASSUME NEW M \in SUBSET (1 .. n), n \notin M
        PROVE  g[M] = IF M = {} THEN base ELSE step[<<g[M \ {Max(M)}], seq[Max(M)]>>]
    <3>1. M \in SUBSET (1 .. (n - 1))
      BY <2>4, <2>7
    <3>2. h[M] = IF M = {} THEN base ELSE step[<<h[M \ {Max(M)}], seq[Max(M)]>>]
      BY <2>1, <3>1 DEF Folding
    <3>3. g[M] = h[M] /\ g[M \ {Max(M)}] = h[M \ {Max(M)}]
      BY <2>7
    <3> QED BY <3>2, <3>3
  <2>8. Folding(base, step, seq, g, n)
    <3> HIDE DEF g
    <3> QED BY <2>6, <2>7 DEF Folding
  <2> QED BY <2>5, <2>8
<1> HIDE DEF Found
<1>3. N = {}
  <2> SUFFICES ASSUME N # {} PROVE FALSE
    OBVIOUS
  <2>0. N \subseteq Nat
    BY <1>l
  <2>1. PICK m \in N : \A n \in N : m <= n
    <3> HIDE DEF N
    <3> QED BY <2>0, LeastNatural
  <2>2. m # 0 /\ m - 1 \in 0 .. Len(seq) /\ m \in 1 .. Len(seq)
    BY <1>l, <1>1, <2>1
  <2>3. Found(m - 1)
    BY <1>l, <2>1, <2>2
  <2> QED BY <1>2, <2>1, <2>2, <2>3
<1>4. Found(Len(seq))
  BY <1>3, <1>l
<1>5. DOMAIN seq = 1 .. Len(seq)
  BY LenProperties
<1>6. \A M \in SUBSET DOMAIN seq : M # {} => seq[Max(M)] \in T
  BY <1>l, <1>5, MaxOfPlaces, ElementOfSeq
<1> QED BY <1>4, <1>5, <1>6 DEF Found, Unfolds

(* A function with the values on the first places. *)
Follows(base, step, S, seq, g) ==
  /\ g[{}] = base
  /\ \A n \in 1 .. Len(seq) :
       g[1 .. (n - 1)] \in S => g[1 .. n] = step[<<g[1 .. (n - 1)], seq[n]>>]

(* Two of them agree on what their sequences have in common. *)
LEMMA FollowsAppend ==
  ASSUME NEW S, NEW T, NEW base \in S, NEW step \in Steps(S, T),
         NEW seq \in Seq(T), NEW x \in T, NEW g, NEW h,
         Follows(base, step, S, seq, g), Follows(base, step, S, Append(seq, x), h)
  PROVE  /\ g[1 .. Len(seq)] \in S
         /\ h[1 .. (Len(seq) + 1)] = step[<<g[1 .. Len(seq)], x>>]
<1> DEFINE Same(n) == g[1 .. n] \in S /\ g[1 .. n] = h[1 .. n]
           N == {n \in 0 .. Len(seq) : ~Same(n)}
<1>l. Len(seq) \in Nat
  BY LenProperties
<1>a. /\ Len(Append(seq, x)) = Len(seq) + 1 /\ Append(seq, x)[Len(seq) + 1] = x
      /\ \A n \in 1 .. Len(seq) : Append(seq, x)[n] = seq[n] /\ seq[n] \in T
  BY <1>l, AppendProperties, ElementOfSeq
<1>1. Same(0)
  <2>1. 1 .. 0 = {}
    OBVIOUS
  <2> QED BY <2>1 DEF Follows
<1>2. ASSUME NEW n \in 1 .. Len(seq), Same(n - 1) PROVE Same(n)
  <2>1. n \in 1 .. (Len(seq) + 1)
    BY <1>l
  <2>2. g[1 .. n] = step[<<g[1 .. (n - 1)], seq[n]>>]
    BY <1>2 DEF Follows
  <2>3. h[1 .. n] = step[<<h[1 .. (n - 1)], seq[n]>>]
    BY <1>2, <1>a, <2>1 DEF Follows
  <2>4. seq[n] \in T
    BY <1>a
  <2> QED BY <1>2, <2>2, <2>3, <2>4 DEF Steps
<1> HIDE DEF Same
<1>3. N = {}
  <2> SUFFICES ASSUME N # {} PROVE FALSE
    OBVIOUS
  <2>0. N \subseteq Nat
    BY <1>l
  <2>1. PICK m \in N : \A n \in N : m <= n
    <3> HIDE DEF N
    <3> QED BY <2>0, LeastNatural
  <2>2. m # 0 /\ m - 1 \in 0 .. Len(seq) /\ m \in 1 .. Len(seq)
    BY <1>l, <1>1, <2>1
  <2>3. Same(m - 1)
    BY <1>l, <2>1, <2>2
  <2> QED BY <1>2, <2>1, <2>2, <2>3
<1>4. g[1 .. Len(seq)] \in S /\ g[1 .. Len(seq)] = h[1 .. Len(seq)]
  BY <1>3, <1>l DEF Same
<1>5. Len(seq) + 1 \in 1 .. Len(Append(seq, x)) /\ (Len(seq) + 1) - 1 = Len(seq)
  BY <1>l, <1>a
<1> QED BY <1>4, <1>5, <1>a DEF Follows

(* A fold, as a function of the sequence. *)
IsFold(base, step, S, T, fold) ==
  \A seq \in Seq(T) : \E g :
    /\ fold[seq] = g[DOMAIN seq]
    /\ \A N \in SUBSET DOMAIN seq :
         IF N = {} THEN g[N] = base
         ELSE g[N \ {Max(N)}] \in S => g[N] = step[<<g[N \ {Max(N)}], seq[Max(N)]>>]

LEMMA FoldAppend ==
  ASSUME NEW S, NEW T, NEW base \in S, NEW step \in Steps(S, T),
         NEW fold, IsFold(base, step, S, T, fold)
  PROVE  /\ fold[<<>>] = base
         /\ \A seq \in Seq(T), x \in T :
              fold[seq] \in S /\ fold[Append(seq, x)] = step[<<fold[seq], x>>]
<1>1. ASSUME NEW seq \in Seq(T)
      PROVE  \E g : fold[seq] = g[1 .. Len(seq)] /\ Follows(base, step, S, seq, g)
  <2>1. DOMAIN seq = 1 .. Len(seq) /\ Len(seq) \in Nat
    BY LenProperties
  <2>2. PICK g :
          /\ fold[seq] = g[DOMAIN seq]
          /\ \A N \in SUBSET DOMAIN seq :
               IF N = {} THEN g[N] = base
               ELSE g[N \ {Max(N)}] \in S => g[N] = step[<<g[N \ {Max(N)}], seq[Max(N)]>>]
    BY DEF IsFold
  <2>3. ASSUME NEW n \in 1 .. Len(seq), g[1 .. (n - 1)] \in S
        PROVE  g[1 .. n] = step[<<g[1 .. (n - 1)], seq[n]>>]
    <3>1. n \in Nat \ {0} /\ 1 .. n \in SUBSET DOMAIN seq
      BY <2>1
    <3>2. 1 .. n # {} /\ Max(1 .. n) = n /\ (1 .. n) \ {n} = 1 .. (n - 1)
      BY <3>1, Places
    <3> QED BY <2>2, <2>3, <3>1, <3>2
  <2>4. g[{}] = base
    BY <2>2
  <2> QED BY <2>1, <2>2, <2>3, <2>4 DEF Follows
<1>2. fold[<<>>] = base
  <2>1. <<>> \in Seq(T) /\ Len(<<>>) = 0 /\ 1 .. 0 = {}
    OBVIOUS
  <2> QED BY <1>1, <2>1 DEF Follows
<1>3. ASSUME NEW seq \in Seq(T), NEW x \in T
      PROVE  fold[seq] \in S /\ fold[Append(seq, x)] = step[<<fold[seq], x>>]
  <2>1. Append(seq, x) \in Seq(T) /\ Len(Append(seq, x)) = Len(seq) + 1
    BY AppendProperties
  <2>2. PICK g : fold[seq] = g[1 .. Len(seq)] /\ Follows(base, step, S, seq, g)
    BY <1>1
  <2>3. PICK h : /\ fold[Append(seq, x)] = h[1 .. (Len(seq) + 1)]
                 /\ Follows(base, step, S, Append(seq, x), h)
    BY <1>1, <2>1
  <2> QED BY <2>2, <2>3, FollowsAppend
<1> QED BY <1>2, <1>3
================================================================================
