----------------------------- MODULE TextProofs -----------------------------
(* What the texts on the mesh say: which subscriptions a key meets, for    *)
(* names of any number of chunks (KeyExpr), and what bytes a text stands   *)
(* for, in hex and in base64, for bytes of four and of eight bits and      *)
(* PeerIds and bytes of any length (Codec).                                *)
EXTENDS Codec, KeyExpr, WellFoundedInduction, TLAPS

-----------------------------------------------------------------------------
(* Zenoh's matching of a key against a subscription, which is defined by   *)
(* recursion over what is left of both.                                    *)

(* Every set of numbers has a least one.                                   *)
LEMMA Least ==
  ASSUME NEW T, T \subseteq Nat, T # {}
  PROVE  \E x \in T : \A y \in T : ~(y < x)
<1> DEFINE R == {ss \in Nat \X Nat : ss[1] < ss[2]}
<1>1. IsWellFoundedOn(R, Nat)
  BY NatLessThanWellFounded, Zenon DEF OpToRel
<1>2. \E x \in T : \A y \in T : ~(<<y, x>> \in R)
  BY <1>1, WFMin, Zenon
<1> QED
  BY <1>2

(* Induction, for a set of numbers.                                        *)
LEMMA AllNumbers ==
  ASSUME NEW T, 0 \in T, \A n \in Nat : n \in T => n + 1 \in T
  PROVE  Nat \subseteq T
<1>1. SUFFICES ASSUME Nat \ T # {} PROVE FALSE
  BY Zenon
<1>2. PICK x \in Nat \ T : \A y \in Nat \ T : ~(y < x)
  BY <1>1, Least, Zenon
<1>3. x # 0
  BY Zenon
<1>4. x - 1 \in Nat /\ x - 1 < x /\ x - 1 + 1 = x
  BY <1>3
<1>5. x - 1 \notin Nat \ T
  BY <1>2, <1>4, Zenon
<1> QED
  BY <1>2, <1>4, <1>5, Zenon

(* The equations of Intersects: f says of each pair of rests whether they  *)
(* match.                                                                  *)
IsMeets(k, l, f) == f = [p \in Suffixes(k, l) |-> MeetsAt(k, l, f, p[1], p[2])]

(* How much is left of both.                                               *)
Rank(k, l, p) == (Len(k) + 1 - p[1]) + (Len(l) + 1 - p[2])

(* Where a function satisfies the equations of the matching, Intersects is *)
(* such a function from the first chunk of both on.                        *)
LEMMA IntersectsIs ==
  ASSUME NEW k, NEW l, \E f : IsMeets(k, l, f)
  PROVE  \E f : IsMeets(k, l, f) /\ Intersects(k, l) = f[<<1, 1>>]
<1> DEFINE F == CHOOSE f : f = [p \in Suffixes(k, l) |-> MeetsAt(k, l, f, p[1], p[2])]
<1>1. IsMeets(k, l, F)
  BY Zenon DEF IsMeets
<1>2. Intersects(k, l) = F[<<1, 1>>]
  BY Zenon DEF Intersects
<1> QED
  BY <1>1, <1>2, Zenon

(* What is left further on.                                                *)
LEMMA RankIsNat ==
  ASSUME NEW S, NEW T, NEW k \in Seq(S), NEW l \in Seq(T), NEW p \in Suffixes(k, l)
  PROVE  Rank(k, l, p) \in Nat /\ Rank(k, l, p) <= Len(k) + Len(l)
<1>1. PICK m \in Nat, n \in Nat : m = Len(k) /\ n = Len(l)
  OBVIOUS
<1>2. PICK i \in 1 .. m + 1, j \in 1 .. n + 1 : p[1] = i /\ p[2] = j
  BY <1>1 DEF Suffixes
<1>3. Rank(k, l, p) = (m + 1 - i) + (n + 1 - j)
  BY <1>1, <1>2, Zenon DEF Rank
<1>4. (m + 1 - i) + (n + 1 - j) \in Nat /\ (m + 1 - i) + (n + 1 - j) <= m + n
  OBVIOUS
<1> QED
  BY <1>1, <1>3, <1>4, Zenon

(* Two functions that agree on what is shorter give the same.              *)
Agree(k, l, p, f, g) ==
  \A q \in Suffixes(k, l) : Rank(k, l, q) < Rank(k, l, p) => f[q] = g[q]

(* One step of the matching looks only at shorter rests.                   *)
LEMMA MeetsAtLocal ==
  ASSUME NEW S, NEW T, NEW k \in Seq(S), NEW l \in Seq(T), NEW p \in Suffixes(k, l),
         NEW f, NEW g, Agree(k, l, p, f, g)
  PROVE  MeetsAt(k, l, f, p[1], p[2]) = MeetsAt(k, l, g, p[1], p[2])
<1> USE DEF Agree
<1>1. PICK i \in 1 .. Len(k) + 1, j \in 1 .. Len(l) + 1 : p[1] = i /\ p[2] = j
  BY DEF Suffixes
<1>2. PICK m \in Nat, n \in Nat : m = Len(k) /\ n = Len(l)
  OBVIOUS
<1>3. ~(i > Len(k)) => f[<<i + 1, j>>] = g[<<i + 1, j>>]
  <2>1. SUFFICES ASSUME ~(i > Len(k)) PROVE f[<<i + 1, j>>] = g[<<i + 1, j>>]
    OBVIOUS
  <2>2. i + 1 \in 1 .. Len(k) + 1 /\ Rank(k, l, <<i + 1, j>>) < Rank(k, l, p)
    BY <1>1, <1>2, <2>1 DEF Rank
  <2> QED
    BY <2>2 DEF Suffixes
<1>4. ~(j > Len(l)) => f[<<i, j + 1>>] = g[<<i, j + 1>>]
  <2>1. SUFFICES ASSUME ~(j > Len(l)) PROVE f[<<i, j + 1>>] = g[<<i, j + 1>>]
    OBVIOUS
  <2>2. j + 1 \in 1 .. Len(l) + 1 /\ Rank(k, l, <<i, j + 1>>) < Rank(k, l, p)
    BY <1>1, <1>2, <2>1 DEF Rank
  <2> QED
    BY <2>2 DEF Suffixes
<1>5. ~(i > Len(k)) /\ ~(j > Len(l)) => f[<<i + 1, j + 1>>] = g[<<i + 1, j + 1>>]
  <2>1. SUFFICES ASSUME ~(i > Len(k)), ~(j > Len(l))
                 PROVE  f[<<i + 1, j + 1>>] = g[<<i + 1, j + 1>>]
    OBVIOUS
  <2>2. /\ i + 1 \in 1 .. Len(k) + 1 /\ j + 1 \in 1 .. Len(l) + 1
        /\ Rank(k, l, <<i + 1, j + 1>>) < Rank(k, l, p)
    BY <1>1, <1>2, <2>1 DEF Rank
  <2> QED
    BY <2>2 DEF Suffixes
<1>6. MeetsAt(k, l, f, i, j) = MeetsAt(k, l, g, i, j)
  BY <1>3, <1>4, <1>5, Zenon DEF MeetsAt
<1> QED
  BY <1>1, <1>6, Zenon

(* So the equations have a solution, whatever the key and the              *)
(* subscription.                                                           *)
LEMMA MeetsExists ==
  ASSUME NEW S, NEW T, NEW k \in Seq(S), NEW l \in Seq(T)
  PROVE  \E f : IsMeets(k, l, f)
<1> DEFINE Grid == Suffixes(k, l)
           R(p) == Rank(k, l, p)
           M(f, p) == MeetsAt(k, l, f, p[1], p[2])
           D == {d \in Nat : \E f : \A p \in Grid : R(p) < d => f[p] = M(f, p)}
<1>1. \A p \in Grid : R(p) \in Nat /\ R(p) <= Len(k) + Len(l)
  BY RankIsNat, Zenon
<1>2. ASSUME NEW f, NEW g, NEW p \in Grid, \A q \in Grid : R(q) < R(p) => f[q] = g[q]
      PROVE  M(f, p) = M(g, p)
  <2>1. Agree(k, l, p, f, g)
    BY <1>2, Zenon DEF Agree
  <2>2. p \in Suffixes(k, l)
    OBVIOUS
  <2>3. MeetsAt(k, l, f, p[1], p[2]) = MeetsAt(k, l, g, p[1], p[2])
    BY <2>1, <2>2, MeetsAtLocal, SMT
  <2> QED
    BY <2>3, Zenon
<1> HIDE DEF Grid, R, M
<1>3. 0 \in D
  <2>1. \A p \in Grid : ~(R(p) < 0)
    BY <1>1
  <2> QED
    BY <2>1
<1>4. ASSUME NEW d \in Nat, d \in D PROVE d + 1 \in D
  <2>1. PICK f : \A p \in Grid : R(p) < d => f[p] = M(f, p)
    BY <1>4, Zenon
  <2>2. PICK g : g = [p \in Grid |-> IF R(p) < d THEN f[p] ELSE M(f, p)]
    OBVIOUS
  <2>3. \A p \in Grid : (R(p) < d => g[p] = f[p]) /\ (~(R(p) < d) => g[p] = M(f, p))
    BY <2>2, Zenon
  <2>4. ASSUME NEW p \in Grid, R(p) < d + 1 PROVE g[p] = M(g, p)
    <3>1. \A q \in Grid : R(q) < R(p) => R(q) < d
      BY <1>1, <1>4, <2>4
    <3>2. M(f, p) = M(g, p)
      BY <1>2, <2>3, <3>1, Zenon
    <3> QED
      BY <2>1, <2>3, <3>2, Zenon
  <2> QED
    BY <2>4
<1>5. Nat \subseteq D
  BY <1>3, <1>4, AllNumbers, Zenon
<1>6. PICK n \in Nat : n = Len(k) + Len(l) + 1
  OBVIOUS
<1>7. PICK f : \A p \in Grid : R(p) < n => f[p] = M(f, p)
  BY <1>5, <1>6, Zenon
<1>8. \A p \in Grid : R(p) < n
  BY <1>1, <1>6
<1>9. PICK g : g = [p \in Grid |-> f[p]]
  OBVIOUS
<1>10. \A p \in Grid : g[p] = M(g, p)
  <2>1. \A p \in Grid : g[p] = f[p]
    BY <1>9, Zenon
  <2> QED
    BY <1>2, <1>7, <1>8, <2>1, Zenon
<1>11. g = [p \in Grid |-> M(g, p)]
  BY <1>9, <1>10, Zenon
<1> QED
  BY <1>11, Zenon DEF IsMeets, Grid, M

(* A solution satisfies the equation at each place.                        *)
LEMMA MeetsStep ==
  ASSUME NEW k, NEW l, NEW f, IsMeets(k, l, f),
         NEW i \in 1 .. Len(k) + 1, NEW j \in 1 .. Len(l) + 1
  PROVE  f[<<i, j>>] <=> MeetsAt(k, l, f, i, j)
<1>1. PICK p : p = <<i, j>>
  OBVIOUS
<1>2. p \in Suffixes(k, l) /\ p[1] = i /\ p[2] = j
  BY <1>1 DEF Suffixes
<1>3. f[p] = MeetsAt(k, l, f, p[1], p[2])
  BY <1>2, Zenon DEF IsMeets
<1> QED
  BY <1>1, <1>2, <1>3, Zenon

(* Two chunks in the same place, neither of them `**`.                     *)
PlainStep(k, l, f, i, n) == f[<<i, i>>] <=> ChunksMeet(k[i], l[i]) /\ f[<<n, n>>]

(* Chunks that are not `**` are matched one to one.                        *)
LEMMA MeetsPlain ==
  ASSUME NEW k, NEW l, NEW f, IsMeets(k, l, f), Len(k) \in Nat, Len(l) \in Nat,
         NEW i, i \in 1 .. Len(k), i \in 1 .. Len(l),
         k[i] # DoubleStar, l[i] # DoubleStar, NEW n, n = i + 1
  PROVE  PlainStep(k, l, f, i, n)
<1>1. /\ i \in 1 .. Len(k) + 1 /\ i \in 1 .. Len(l) + 1
      /\ ~(i > Len(k)) /\ ~(i > Len(l))
  OBVIOUS
<1>2. f[<<i, i>>] <=> MeetsAt(k, l, f, i, i)
  BY <1>1, MeetsStep, Zenon
<1>3. MeetsAt(k, l, f, i, i) <=> ChunksMeet(k[i], l[i]) /\ f[<<i + 1, i + 1>>]
  BY <1>1, Zenon DEF MeetsAt
<1> QED
  BY <1>2, <1>3, Zenon DEF PlainStep

(* The first four chunks of a subscription and of a key.                   *)
SubShape(k, c) ==
  /\ \E V : k \in Seq(V)
  /\ Len(k) \in Nat /\ 4 <= Len(k)
  /\ k[1] = Lit("furcate") /\ k[2] = Lit("mesh") /\ k[3] = Star /\ k[4] = Lit(c)
KeyShape(l, c) ==
  /\ \E V : l \in Seq(V)
  /\ Len(l) \in Nat /\ 4 <= Len(l)
  /\ l[1] = Lit("furcate") /\ l[2] = Lit("mesh") /\ l[3][1] = "hex" /\ l[4] = Lit(c)

(* A subscription and a key of key_for match if they have the same word    *)
(* and the rests after it match.                                           *)
LEMMA MeetsPrefix ==
  ASSUME NEW k, NEW l, NEW f, IsMeets(k, l, f), NEW x, NEW c, SubShape(k, x), KeyShape(l, c)
  PROVE  f[<<1, 1>>] <=> x = c /\ f[<<5, 5>>]
<1>1. /\ Len(k) \in Nat /\ Len(l) \in Nat
      /\ 1 \in 1 .. Len(k) /\ 2 \in 1 .. Len(k) /\ 3 \in 1 .. Len(k) /\ 4 \in 1 .. Len(k)
      /\ 1 \in 1 .. Len(l) /\ 2 \in 1 .. Len(l) /\ 3 \in 1 .. Len(l) /\ 4 \in 1 .. Len(l)
      /\ 2 = 1 + 1 /\ 3 = 2 + 1 /\ 4 = 3 + 1 /\ 5 = 4 + 1
  BY DEF SubShape, KeyShape
<1>2. \A text : Lit(text) # DoubleStar /\ Lit(text) # Star
  BY DEF Lit, DoubleStar, Star
<1>3. Star # DoubleStar /\ Star[1] # "verbatim" /\ "hex" # "verbatim"
  BY DEF Star, DoubleStar
<1>4. l[3] # DoubleStar
  <2>1. DoubleStar[1] # "hex"
    BY DEF DoubleStar
  <2> QED
    BY <2>1, Zenon DEF KeyShape
<1>5. \A s, u : Lit(s) = Lit(u) => s = u
  BY DEF Lit
<1>6. ChunksMeet(k[1], l[1]) /\ ChunksMeet(k[2], l[2])
  BY Zenon DEF ChunksMeet, SubShape, KeyShape
<1>7. ChunksMeet(k[3], l[3])
  BY <1>3, Zenon DEF ChunksMeet, SubShape, KeyShape
<1>8. ChunksMeet(k[4], l[4]) <=> x = c
  BY <1>2, <1>5, Zenon DEF ChunksMeet, SubShape, KeyShape
<1>9. /\ k[1] # DoubleStar /\ k[2] # DoubleStar /\ k[3] # DoubleStar /\ k[4] # DoubleStar
      /\ l[1] # DoubleStar /\ l[2] # DoubleStar /\ l[4] # DoubleStar
  BY <1>2, <1>3, Zenon DEF SubShape, KeyShape
<1>10. PlainStep(k, l, f, 1, 2)
  BY <1>1, <1>9, MeetsPlain, Zenon
<1>11. PlainStep(k, l, f, 2, 3)
  BY <1>1, <1>9, MeetsPlain, Zenon
<1>12. PlainStep(k, l, f, 3, 4)
  BY <1>1, <1>4, <1>9, MeetsPlain, Zenon
<1>13. PlainStep(k, l, f, 4, 5)
  BY <1>1, <1>9, MeetsPlain, Zenon
<1> QED
  BY <1>6, <1>7, <1>8, <1>10, <1>11, <1>12, <1>13, Zenon DEF PlainStep

(* Where both end, they match.                                             *)
LEMMA MeetsAtEnds ==
  ASSUME NEW k, NEW l, NEW f, IsMeets(k, l, f), Len(k) = 4, Len(l) = 4
  PROVE  f[<<5, 5>>]
<1>1. 5 \in 1 .. Len(k) + 1 /\ 5 \in 1 .. Len(l) + 1 /\ 5 > Len(k) /\ 5 > Len(l)
  OBVIOUS
<1>2. f[<<5, 5>>] <=> MeetsAt(k, l, f, 5, 5)
  BY <1>1, MeetsStep, Zenon
<1> QED
  BY <1>1, <1>2, Zenon DEF MeetsAt

(* `**` at the end of a subscription meets what has no verbatim chunk.     *)
NoVerbatim(l, j) == \A i \in j .. Len(l) : l[i][1] # "verbatim"

(* No chunk from j on begins with '@': by cases, the first or a later one. *)
LEMMA NoVerbatimFrom ==
  ASSUME NEW l, Len(l) \in Nat, NEW j \in 1 .. Len(l)
  PROVE  NoVerbatim(l, j) <=> l[j][1] # "verbatim" /\ NoVerbatim(l, j + 1)
<1>1. \A i \in j .. Len(l) : i = j \/ i \in j + 1 .. Len(l)
  OBVIOUS
<1>2. j \in j .. Len(l) /\ \A i \in j + 1 .. Len(l) : i \in j .. Len(l)
  OBVIOUS
<1> QED
  BY <1>1, <1>2, Zenon DEF NoVerbatim

(* A final `**` meets any number of chunks, as long as none begins with    *)
(* '@'. By induction on how many are left.                                 *)
LEMMA MeetsTail ==
  ASSUME NEW k, NEW l, NEW f, IsMeets(k, l, f),
         Len(k) = 5, k[5] = DoubleStar, Len(l) \in Nat, 4 <= Len(l)
  PROVE  f[<<5, 5>>] <=> NoVerbatim(l, 5)
<1> DEFINE N == Len(l)
           Good(j) == /\ f[<<6, j>>] => NoVerbatim(l, j)
                      /\ f[<<5, j>>] <=> NoVerbatim(l, j)
           D == {d \in Nat : \A j \in 1 .. N + 1 : N + 1 - j <= d => Good(j)}
<1>0. N \in Nat /\ ~(5 > Len(k)) /\ 6 > Len(k) /\ 5 + 1 = 6
      /\ 5 \in 1 .. Len(k) + 1 /\ 6 \in 1 .. Len(k) + 1
  OBVIOUS
<1>1. DoubleStar[1] # "verbatim"
  BY DEF DoubleStar
<1>2. \A j \in 1 .. N + 1 : /\ f[<<6, j>>] <=> MeetsAt(k, l, f, 6, j)
                            /\ f[<<5, j>>] <=> MeetsAt(k, l, f, 5, j)
  BY <1>0, MeetsStep, Zenon
<1>3. Good(N + 1)
  <2>1. N + 1 \in 1 .. N + 1 /\ N + 1 > Len(l)
    BY <1>0
  <2>2. NoVerbatim(l, N + 1)
    <3>1. N + 1 .. N = {}
      BY <1>0
    <3> QED
      BY <3>1, Zenon DEF NoVerbatim
  <2>3. f[<<6, N + 1>>]
    BY <1>0, <1>2, <2>1, Zenon DEF MeetsAt
  <2>4. f[<<5, N + 1>>]
    BY <1>0, <1>2, <2>1, <2>3, Zenon DEF MeetsAt
  <2> QED
    BY <2>2, <2>4, Zenon
<1>4. ASSUME NEW j \in 1 .. N, Good(j + 1) PROVE Good(j)
  <2>1. j \in 1 .. N + 1 /\ ~(j > Len(l))
    BY <1>0
  <2>2. NoVerbatim(l, j) <=> l[j][1] # "verbatim" /\ NoVerbatim(l, j + 1)
    BY <1>0, NoVerbatimFrom, Zenon
  <2>3. f[<<6, j>>] <=> l[j] = DoubleStar /\ f[<<6, j + 1>>]
    BY <1>0, <1>2, <2>1, Zenon DEF MeetsAt
  <2>4. f[<<6, j>>] => NoVerbatim(l, j)
    BY <1>1, <1>4, <2>2, <2>3, Zenon
  <2>5. f[<<5, j>>] <=> \/ f[<<6, j>>]
                        \/ l[j][1] # "verbatim" /\ f[<<5, j + 1>>]
                        \/ l[j] = DoubleStar /\ f[<<5, j + 1>>]
                        \/ ChunksMeet(DoubleStar, l[j]) /\ f[<<6, j + 1>>]
    BY <1>0, <1>1, <1>2, <2>1, Zenon DEF MeetsAt
  <2>6. ChunksMeet(DoubleStar, l[j]) => l[j][1] # "verbatim"
    BY <1>1, Zenon DEF ChunksMeet
  <2> QED
    BY <1>1, <1>4, <2>2, <2>4, <2>5, <2>6, Zenon
<1> HIDE DEF Good
<1>5. 0 \in D
  <2>1. \A j \in 1 .. N + 1 : N + 1 - j <= 0 => j = N + 1
    BY <1>0
  <2>2. 0 \in Nat
    OBVIOUS
  <2> QED
    BY <1>3, <2>1, <2>2, Zenon
<1>6. ASSUME NEW d \in Nat, d \in D PROVE d + 1 \in D
  <2>1. ASSUME NEW j \in 1 .. N + 1, N + 1 - j <= d + 1 PROVE Good(j)
    <3>1. CASE j = N + 1
      BY <1>3, <3>1, Zenon
    <3>2. CASE j # N + 1
      <4>1. j \in 1 .. N /\ j + 1 \in 1 .. N + 1 /\ N + 1 - (j + 1) <= d
        BY <1>0, <2>1, <3>2
      <4> QED
        BY <1>4, <1>6, <4>1, Zenon
    <3> QED
      BY <3>1, <3>2
  <2>2. d + 1 \in Nat
    OBVIOUS
  <2> QED
    BY <2>1, <2>2, Zenon
<1>7. Nat \subseteq D
  BY <1>5, <1>6, AllNumbers, Zenon
<1>8. N \in D /\ 5 \in 1 .. N + 1 /\ N + 1 - 5 <= N
  BY <1>0, <1>7
<1> QED
  BY <1>8, Zenon DEF Good

-----------------------------------------------------------------------------
(* Keys and subscriptions, chunk by chunk.                                 *)
IsConcat(u, s, t) ==
  /\ Len(u) = Len(s) + Len(t)
  /\ \A i \in 1 .. Len(s) : u[i] = s[i]
  /\ \A i \in 1 .. Len(t) : u[Len(s) + i] = t[i]

(* The chunks of two sequences put together.                               *)
LEMMA Concatenated ==
  ASSUME NEW V, NEW s \in Seq(V), NEW t \in Seq(V)
  PROVE  s \o t \in Seq(V) /\ IsConcat(s \o t, s, t)
  BY DEF IsConcat

KeyOfWord(key, c, r) ==
  /\ KeyShape(key, c) /\ Len(key) = 4 + Len(r)
  /\ \A i \in 1 .. Len(r) : key[4 + i] = r[i]

(* The chunks of a key: the root, the PeerId, the word and the name.       *)
LEMMA KeyChunks ==
  ASSUME NEW S, NEW r \in Seq(S), NEW p, NEW c,
         NEW key, key = ROOT \o <<Hex(p)>> \o (<<Lit(c)>> \o r)
  PROVE  KeyOfWord(key, c, r)
<1> DEFINE V == S \cup {Lit("furcate"), Lit("mesh"), Hex(p), Lit(c)}
<1>1. r \in Seq(V) /\ ROOT \in Seq(V) /\ <<Hex(p)>> \in Seq(V) /\ <<Lit(c)>> \in Seq(V)
  BY DEF ROOT
<1>2. Len(ROOT) = 2 /\ ROOT[1] = Lit("furcate") /\ ROOT[2] = Lit("mesh")
  BY DEF ROOT
<1> HIDE DEF V
<1>3. PICK a : a = ROOT \o <<Hex(p)>>
  OBVIOUS
<1>4. a \in Seq(V) /\ IsConcat(a, ROOT, <<Hex(p)>>)
  BY <1>1, <1>3, Concatenated, Zenon
<1>5. /\ Len(a) = 3 /\ a[1] = Lit("furcate") /\ a[2] = Lit("mesh") /\ a[3] = Hex(p)
  <2>1. Len(<<Hex(p)>>) = 1 /\ <<Hex(p)>>[1] = Hex(p)
    OBVIOUS
  <2>2. 1 \in 1 .. 2 /\ 2 \in 1 .. 2 /\ 1 \in 1 .. 1 /\ 2 + 1 = 3
    OBVIOUS
  <2>3. Len(a) = 3
    BY <1>2, <1>4, <2>1, <2>2, Zenon DEF IsConcat
  <2>4. a[1] = Lit("furcate") /\ a[2] = Lit("mesh")
    BY <1>2, <1>4, <2>2, Zenon DEF IsConcat
  <2>5. a[2 + 1] = Hex(p)
    BY <1>2, <1>4, <2>1, <2>2, Zenon DEF IsConcat
  <2> QED
    BY <2>2, <2>3, <2>4, <2>5, Zenon
<1>6. PICK b : b = <<Lit(c)>> \o r
  OBVIOUS
<1>7. b \in Seq(V) /\ IsConcat(b, <<Lit(c)>>, r)
  BY <1>1, <1>6, Concatenated, Zenon
<1>8. Len(b) = 1 + Len(r) /\ b[1] = Lit(c) /\ \A i \in 1 .. Len(r) : b[1 + i] = r[i]
  <2>1. Len(<<Lit(c)>>) = 1 /\ <<Lit(c)>>[1] = Lit(c) /\ 1 \in 1 .. 1
    OBVIOUS
  <2> QED
    BY <1>7, <2>1, Zenon DEF IsConcat
<1>9. key = a \o b /\ key \in Seq(V) /\ IsConcat(key, a, b)
  BY <1>3, <1>4, <1>6, <1>7, Concatenated, Zenon
<1>10. Len(r) \in Nat
  OBVIOUS
<1>13. /\ Len(key) = 4 + Len(r)
       /\ key[1] = a[1] /\ key[2] = a[2] /\ key[3] = a[3] /\ key[4] = b[1]
  <2>1. Len(key) = 3 + (1 + Len(r))
    BY <1>5, <1>8, <1>9, Zenon DEF IsConcat
  <2>2. /\ 1 \in 1 .. 3 /\ 2 \in 1 .. 3 /\ 3 \in 1 .. 3 /\ 3 + 1 = 4
        /\ 1 \in 1 .. 1 + Len(r) /\ 3 + (1 + Len(r)) = 4 + Len(r)
    BY <1>10
  <2>3. key[1] = a[1] /\ key[2] = a[2] /\ key[3] = a[3]
    BY <1>5, <1>9, <2>2, Zenon DEF IsConcat
  <2>4. key[3 + 1] = b[1]
    BY <1>5, <1>8, <1>9, <2>2, Zenon DEF IsConcat
  <2> QED
    BY <2>1, <2>2, <2>3, <2>4, Zenon
<1>14. ASSUME NEW i \in 1 .. Len(r) PROVE key[4 + i] = r[i]
  <2>1. 1 + i \in 1 .. 1 + Len(r) /\ 3 + (1 + i) = 4 + i
    BY <1>10
  <2>2. key[3 + (1 + i)] = b[1 + i]
    BY <1>5, <1>8, <1>9, <2>1, Zenon DEF IsConcat
  <2> QED
    BY <1>8, <2>1, <2>2, Zenon
<1>11. Hex(p)[1] = "hex"
  BY DEF Hex
<1>12. Len(key) \in Nat /\ 4 <= Len(key)
  BY <1>10, <1>13
<1> QED
  BY <1>5, <1>8, <1>9, <1>11, <1>12, <1>13, <1>14, Zenon DEF KeyOfWord, KeyShape

(* A key that ends with its word has an empty rest.                        *)
LEMMA NoRest ==
  ASSUME NEW c
  PROVE  <<Lit(c)>> = <<Lit(c)>> \o <<>> /\ <<>> \in Seq({}) /\ Len(<<>>) = 0
  OBVIOUS

(* The chunks of the three SUB_ALL wildcards.                              *)
LEMMA SubChunks ==
  /\ SubShape(SUB_ALL_HEARTBEATS, "heartbeat") /\ Len(SUB_ALL_HEARTBEATS) = 4
  /\ SubShape(SUB_ALL_MODELS, "model") /\ Len(SUB_ALL_MODELS) = 5
  /\ SUB_ALL_MODELS[5] = DoubleStar
  /\ SubShape(SUB_ALL_AGENT_STATE, "agent") /\ Len(SUB_ALL_AGENT_STATE) = 5
  /\ SUB_ALL_AGENT_STATE[5] = DoubleStar
<1> DEFINE V == {Lit("furcate"), Lit("mesh"), Lit("heartbeat"), Lit("model"), Lit("agent"),
                 Star, DoubleStar}
<1>1. ROOT \in Seq(V) /\ Len(ROOT) = 2 /\ ROOT[1] = Lit("furcate") /\ ROOT[2] = Lit("mesh")
  BY DEF ROOT
<1>2. ASSUME NEW c \in {"heartbeat", "model", "agent"}, NEW n \in {2, 3},
             NEW s \in Seq(V), Len(s) = n, s[1] = Star, s[2] = Lit(c)
      PROVE  /\ SubShape(ROOT \o s, c) /\ Len(ROOT \o s) = 2 + n
             /\ (n = 3 => (ROOT \o s)[5] = s[3])
  <2>1. PICK u : u = ROOT \o s
    OBVIOUS
  <2>2. u \in Seq(V) /\ IsConcat(u, ROOT, s)
    BY <1>1, <2>1, Concatenated, Zenon
  <2>3. /\ 1 \in 1 .. 2 /\ 2 \in 1 .. 2 /\ 1 \in 1 .. n /\ 2 \in 1 .. n /\ (n = 3 => 3 \in 1 .. n)
        /\ 2 + 1 = 3 /\ 2 + 2 = 4 /\ 2 + 3 = 5
        /\ 2 + n \in Nat /\ 4 <= 2 + n
    OBVIOUS
  <2>4. Len(u) = 2 + n /\ u[1] = Lit("furcate") /\ u[2] = Lit("mesh")
    BY <1>1, <1>2, <2>2, <2>3, Zenon DEF IsConcat
  <2>5. \A i \in 1 .. n : u[2 + i] = s[i]
    BY <1>1, <1>2, <2>2, Zenon DEF IsConcat
  <2>6. u[3] = Star /\ u[4] = Lit(c)
    BY <1>2, <2>3, <2>5, Zenon
  <2>7. n = 3 => u[5] = s[3]
    BY <2>3, <2>5, Zenon
  <2> QED
    BY <2>1, <2>2, <2>3, <2>4, <2>6, <2>7, Zenon DEF SubShape
<1>3. /\ <<Star, Lit("heartbeat")>> \in Seq(V)
      /\ <<Star, Lit("model"), DoubleStar>> \in Seq(V)
      /\ <<Star, Lit("agent"), DoubleStar>> \in Seq(V)
  OBVIOUS
<1> HIDE DEF V
<1>4. SubShape(SUB_ALL_HEARTBEATS, "heartbeat") /\ Len(SUB_ALL_HEARTBEATS) = 4
  <2>1. PICK s : s = <<Star, Lit("heartbeat")>>
    OBVIOUS
  <2>2. Len(s) = 2 /\ s[1] = Star /\ s[2] = Lit("heartbeat") /\ 2 + 2 = 4
    BY <2>1
  <2> QED
    BY <1>2, <1>3, <2>1, <2>2, Zenon DEF SUB_ALL_HEARTBEATS
<1>5. /\ SubShape(SUB_ALL_MODELS, "model") /\ Len(SUB_ALL_MODELS) = 5
      /\ SUB_ALL_MODELS[5] = DoubleStar
  <2>1. PICK s : s = <<Star, Lit("model"), DoubleStar>>
    OBVIOUS
  <2>2. Len(s) = 3 /\ s[1] = Star /\ s[2] = Lit("model") /\ s[3] = DoubleStar /\ 2 + 3 = 5
    BY <2>1
  <2> QED
    BY <1>2, <1>3, <2>1, <2>2, Zenon DEF SUB_ALL_MODELS
<1>6. /\ SubShape(SUB_ALL_AGENT_STATE, "agent") /\ Len(SUB_ALL_AGENT_STATE) = 5
      /\ SUB_ALL_AGENT_STATE[5] = DoubleStar
  <2>1. PICK s : s = <<Star, Lit("agent"), DoubleStar>>
    OBVIOUS
  <2>2. Len(s) = 3 /\ s[1] = Star /\ s[2] = Lit("agent") /\ s[3] = DoubleStar /\ 2 + 3 = 5
    BY <2>1
  <2> QED
    BY <1>2, <1>3, <2>1, <2>2, Zenon DEF SUB_ALL_AGENT_STATE
<1> QED
  BY <1>4, <1>5, <1>6, Zenon

-----------------------------------------------------------------------------
(* Which keys of key_for a wildcard with a given word meets.               *)
LEMMA ShapesMeet ==
  ASSUME NEW k, NEW l, NEW x, NEW c, SubShape(k, x), KeyShape(l, c)
  PROVE  /\ x # c => ~Intersects(k, l)
         /\ x = c /\ Len(k) = 4 /\ Len(l) = 4 => Intersects(k, l)
         /\ x = c /\ Len(k) = 5 /\ k[5] = DoubleStar => (Intersects(k, l) <=> NoVerbatim(l, 5))
<1>1. \E f : IsMeets(k, l, f)
  BY MeetsExists, Zenon DEF SubShape, KeyShape
<1>2. PICK f : IsMeets(k, l, f) /\ Intersects(k, l) = f[<<1, 1>>]
  BY <1>1, IntersectsIs, Zenon
<1>3. f[<<1, 1>>] <=> x = c /\ f[<<5, 5>>]
  BY <1>2, MeetsPrefix, Zenon
<1>4. Len(k) = 4 /\ Len(l) = 4 => f[<<5, 5>>]
  BY <1>2, MeetsAtEnds, Zenon
<1>5. Len(k) = 5 /\ k[5] = DoubleStar => (f[<<5, 5>>] <=> NoVerbatim(l, 5))
  BY <1>2, MeetsTail, Zenon DEF KeyShape
<1> QED
  BY <1>2, <1>3, <1>4, <1>5, Zenon

Plain(r) == \A i \in 1 .. Len(r) : r[i][1] # "verbatim"

(* Which subscriptions a key meets, by the word after the PeerId.          *)
MeetsByWord(key, c, r) ==
  /\ c = "heartbeat" /\ Len(r) = 0 => Intersects(SUB_ALL_HEARTBEATS, key)
  /\ c # "heartbeat" => ~Intersects(SUB_ALL_HEARTBEATS, key)
  /\ Intersects(SUB_ALL_MODELS, key) <=> c = "model" /\ Plain(r)
  /\ Intersects(SUB_ALL_AGENT_STATE, key) <=> c = "agent" /\ Plain(r)

(* Which of the three wildcards the key with a given word and name meets.  *)
LEMMA KeyMeets ==
  ASSUME NEW S, NEW r \in Seq(S), NEW p, NEW c,
         NEW key, key = ROOT \o <<Hex(p)>> \o (<<Lit(c)>> \o r)
  PROVE  MeetsByWord(key, c, r)
<1>1. /\ KeyShape(key, c) /\ Len(key) = 4 + Len(r)
      /\ \A i \in 1 .. Len(r) : key[4 + i] = r[i]
  <2>1. KeyOfWord(key, c, r)
    BY KeyChunks, Zenon
  <2> QED
    BY <2>1, Zenon DEF KeyOfWord
<1>2. PICK n \in Nat : n = Len(r)
  OBVIOUS
<1>3. Len(r) = 0 => Len(key) = 4
  BY <1>1
<1>4. NoVerbatim(key, 5) <=> Plain(r)
  <2>1. \A j \in 5 .. 4 + n : j - 4 \in 1 .. n /\ 4 + (j - 4) = j
    BY <1>2
  <2>2. \A i \in 1 .. n : 4 + i \in 5 .. 4 + n
    BY <1>2
  <2>3. NoVerbatim(key, 5) => Plain(r)
    BY <1>1, <1>2, <2>2, Zenon DEF NoVerbatim, Plain
  <2>4. ASSUME Plain(r), NEW j \in 5 .. Len(key) PROVE key[j][1] # "verbatim"
    <3>1. j - 4 \in 1 .. n /\ 4 + (j - 4) = j
      BY <1>1, <1>2, <2>1, <2>4, Zenon
    <3>2. key[4 + (j - 4)] = r[j - 4]
      BY <1>1, <1>2, <3>1, Zenon
    <3>3. r[j - 4][1] # "verbatim"
      BY <1>2, <2>4, <3>1, Zenon DEF Plain
    <3> QED
      BY <3>1, <3>2, <3>3, Zenon
  <2> QED
    BY <2>3, <2>4, Zenon DEF NoVerbatim
<1>5. /\ c = "heartbeat" /\ Len(r) = 0 => Intersects(SUB_ALL_HEARTBEATS, key)
      /\ c # "heartbeat" => ~Intersects(SUB_ALL_HEARTBEATS, key)
  BY <1>1, <1>3, SubChunks, ShapesMeet, Zenon
<1>a. ASSUME NEW k, NEW x, SubShape(k, x), Len(k) = 5, k[5] = DoubleStar
      PROVE  Intersects(k, key) <=> c = x /\ Plain(r)
  <2>1. /\ x # c => ~Intersects(k, key)
        /\ x = c /\ Len(k) = 5 /\ k[5] = DoubleStar => (Intersects(k, key) <=> NoVerbatim(key, 5))
    BY <1>1, <1>a, ShapesMeet, Zenon
  <2> QED
    BY <1>4, <1>a, <2>1, Zenon
<1>6. Intersects(SUB_ALL_MODELS, key) <=> c = "model" /\ Plain(r)
  BY <1>a, SubChunks, Zenon
<1>7. Intersects(SUB_ALL_AGENT_STATE, key) <=> c = "agent" /\ Plain(r)
  BY <1>a, SubChunks, Zenon
<1> QED
  BY <1>5, <1>6, <1>7, Zenon DEF MeetsByWord

-----------------------------------------------------------------------------
(* Numbers. With C for 2^(ByteBits / 4), a byte is below C^4, a symbol     *)
(* below C^3 and a hex digit below C^2.                                    *)
LEMMA Widths ==
  \/ /\ ByteBits = 4 /\ SymbolBits = 3 /\ Base = 4
     /\ Byte = 0 .. 15 /\ Symbol = 0 .. 7
  \/ /\ ByteBits = 8 /\ SymbolBits = 6 /\ Base = 16
     /\ Byte = 0 .. 255 /\ Symbol = 0 .. 63
<1>1. ByteBits = 4 \/ ByteBits = 8
  BY CodecAssumption
<1>2. CASE ByteBits = 4
  <2>1. SymbolBits = 3 /\ 2 ^ SymbolBits = 8
    BY <1>2 DEF SymbolBits
  <2>2. Base = 4 /\ 2 ^ ByteBits = 16
    BY <1>2 DEF Base
  <2> QED
    BY <1>2, <2>1, <2>2 DEF Byte, Symbol
<1>3. CASE ByteBits = 8
  <2>1. SymbolBits = 6 /\ 2 ^ SymbolBits = 64
    BY <1>3 DEF SymbolBits
  <2>2. Base = 16 /\ 2 ^ ByteBits = 256
    BY <1>3 DEF Base
  <2> QED
    BY <1>3, <2>1, <2>2 DEF Byte, Symbol
<1> QED
  BY <1>1, <1>2, <1>3, Zenon

(* A function on 1 .. n is a sequence of n elements.                       *)
LEMMA FunctionIsSeq ==
  ASSUME NEW S, NEW n \in Nat, NEW f \in [1 .. n -> S]
  PROVE  f \in Seq(S) /\ Len(f) = n /\ DOMAIN f = 1 .. n
  OBVIOUS

(* A sequence is the function from its indices to its elements.            *)
LEMMA SeqIsFunction ==
  ASSUME NEW S, NEW s \in Seq(S)
  PROVE  /\ Len(s) \in Nat /\ DOMAIN s = 1 .. Len(s)
         /\ s = [i \in 1 .. Len(s) |-> s[i]]
         /\ \A i \in 1 .. Len(s) : s[i] \in S
  OBVIOUS

(* Two sequences are equal when their lengths and elements are.            *)
LEMMA SeqsEqual ==
  ASSUME NEW S, NEW T, NEW s \in Seq(S), NEW t \in Seq(T), Len(s) = Len(t),
         \A i \in 1 .. Len(s) : s[i] = t[i]
  PROVE  s = t
  OBVIOUS

(* The two digits of a byte.                                               *)
LEMMA DigitsOfByte ==
  ASSUME NEW x \in Byte
  PROVE  /\ x \div Base \in 0 .. Base - 1 /\ x % Base \in 0 .. Base - 1
         /\ (x \div Base) * Base + (x % Base) = x
  BY Widths

(* A byte is made of any two hex digits, and gives them back.              *)
LEMMA ByteOfDigits ==
  ASSUME NEW d \in 0 .. Base - 1, NEW e \in 0 .. Base - 1
  PROVE  /\ d * Base + e \in Byte
         /\ (d * Base + e) \div Base = d /\ (d * Base + e) % Base = e
<1>1. CASE Base = 4 /\ Byte = 0 .. 15
  BY <1>1
<1>2. CASE Base = 16 /\ Byte = 0 .. 255
  BY <1>2
<1> QED
  BY <1>1, <1>2, Widths, Zenon

-----------------------------------------------------------------------------
(* Results.                                                                *)
LEMMA ResultsDiffer ==
  ASSUME NEW bytes
  PROVE  /\ Decoded(bytes) # Malformed /\ IsOk(Decoded(bytes)) /\ ~IsOk(Malformed)
         /\ Decoded(bytes).ok = bytes
<1>1. DOMAIN Decoded(bytes) = {"ok"} /\ DOMAIN Malformed = {"error"}
  BY Zenon DEF Decoded, Malformed
<1>2. "ok" # "error"
  BY Zenon
<1>3. Decoded(bytes) # Malformed
  BY <1>1, <1>2, Zenon
<1> QED
  BY <1>3, Zenon DEF IsOk, Decoded

(* hex::encode, character by character.                                    *)
LEMMA HexEncodeChars ==
  ASSUME NEW bytes \in Seq(Byte)
  PROVE  LET text == HexEncode(bytes) IN
         /\ text \in Seq(HexChar) /\ Len(text) = 2 * Len(bytes)
         /\ \A i \in 1 .. Len(bytes) :
              /\ text[2 * i - 1] = [digit |-> bytes[i] \div Base, upper |-> FALSE]
              /\ text[2 * i] = [digit |-> bytes[i] % Base, upper |-> FALSE]
         /\ \A i \in 1 .. Len(text) : text[i].upper = FALSE
<1> DEFINE text == HexEncode(bytes)
           n == Len(bytes)
           Char(i) == [digit |-> IF i % 2 = 1 THEN bytes[(i + 1) \div 2] \div Base
                                 ELSE bytes[(i + 1) \div 2] % Base,
                       upper |-> FALSE]
<1>1. n \in Nat /\ \A i \in 1 .. n : bytes[i] \in Byte
  OBVIOUS
<1>2. text = [i \in 1 .. 2 * n |-> Char(i)]
  BY Zenon DEF HexEncode
<1>3. ASSUME NEW i \in 1 .. 2 * n
      PROVE  Char(i) \in HexChar
  <2>1. (i + 1) \div 2 \in 1 .. n
    BY <1>1
  <2>2. PICK x \in Byte : x = bytes[(i + 1) \div 2]
    BY <1>1, <2>1, Zenon
  <2>3. x \div Base \in 0 .. Base - 1 /\ x % Base \in 0 .. Base - 1
    BY DigitsOfByte, Zenon
  <2> QED
    BY <2>2, <2>3, Zenon DEF HexChar
<1> HIDE DEF Char
<1>4. text \in [1 .. 2 * n -> HexChar]
  BY <1>2, <1>3, Zenon
<1>5. text \in Seq(HexChar) /\ Len(text) = 2 * n
  BY <1>1, <1>4, FunctionIsSeq
<1>6. ASSUME NEW i \in 1 .. n
      PROVE  /\ text[2 * i - 1] = [digit |-> bytes[i] \div Base, upper |-> FALSE]
             /\ text[2 * i] = [digit |-> bytes[i] % Base, upper |-> FALSE]
  <2>1. /\ 2 * i - 1 \in 1 .. 2 * n /\ 2 * i \in 1 .. 2 * n
        /\ (2 * i - 1) % 2 = 1 /\ (2 * i - 1 + 1) \div 2 = i
        /\ (2 * i) % 2 # 1 /\ (2 * i + 1) \div 2 = i
    BY <1>1
  <2>2. text[2 * i - 1] = Char(2 * i - 1) /\ text[2 * i] = Char(2 * i)
    BY <1>2, <2>1, Zenon
  <2> QED
    BY <2>1, <2>2, Zenon DEF Char
<1>7. ASSUME NEW i \in 1 .. 2 * n
      PROVE  text[i].upper = FALSE
  BY <1>2 DEF Char
<1> QED
  BY <1>5, <1>6, <1>7, Zenon

(* A text that hex::decode accepts, and what it makes of it.               *)
LEMMA HexDecodeBytes ==
  ASSUME NEW text \in Seq(HexChar), NEW n \in Nat, Len(text) = 2 * n
  PROVE  \E bytes \in [1 .. n -> Byte] :
           /\ HexDecode(text) = Decoded(bytes)
           /\ \A i \in 1 .. n : /\ bytes[i] \div Base = text[2 * i - 1].digit
                                /\ bytes[i] % Base = text[2 * i].digit
<1> DEFINE bytes == [i \in 1 .. n |-> text[2 * i - 1].digit * Base + text[2 * i].digit]
<1>1. ASSUME NEW i \in 1 .. n
      PROVE  /\ text[2 * i - 1].digit \in 0 .. Base - 1
             /\ text[2 * i].digit \in 0 .. Base - 1
  <2>1. 2 * i - 1 \in 1 .. Len(text) /\ 2 * i \in 1 .. Len(text)
    OBVIOUS
  <2>2. text[2 * i - 1] \in HexChar /\ text[2 * i] \in HexChar
    BY <2>1
  <2> QED
    BY <2>2, Zenon DEF HexChar
<1>2. ASSUME NEW i \in 1 .. n
      PROVE  /\ bytes[i] \in Byte
             /\ bytes[i] \div Base = text[2 * i - 1].digit
             /\ bytes[i] % Base = text[2 * i].digit
  BY <1>1, ByteOfDigits, Zenon
<1>3. Chars(text) \subseteq HexChar /\ Len(text) % 2 = 0 /\ Len(text) \div 2 = n
  BY DEF Chars
<1>4. HexDecode(text) = Decoded(bytes)
  BY <1>3, Zenon DEF HexDecode
<1> QED
  BY <1>2, <1>4, Zenon

(* Each character of a text of pairs is the first or the second of one.    *)
LEMMA InPairs ==
  ASSUME NEW n \in Nat, NEW k \in 1 .. 2 * n
  PROVE  \E i \in 1 .. n : k = 2 * i - 1 \/ k = 2 * i
<1>1. (k + 1) \div 2 \in 1 .. n
  OBVIOUS
<1>2. k = 2 * ((k + 1) \div 2) - 1 \/ k = 2 * ((k + 1) \div 2)
  OBVIOUS
<1> QED
  BY <1>1, <1>2, Zenon

(* hex::decode undoes hex::encode.                                         *)
LEMMA HexRoundTrip ==
  ASSUME NEW bytes \in Seq(Byte)
  PROVE  HexDecode(HexEncode(bytes)) = Decoded(bytes)
<1> DEFINE text == HexEncode(bytes)
           n == Len(bytes)
<1>0. n \in Nat
  OBVIOUS
<1>1. /\ text \in Seq(HexChar) /\ Len(text) = 2 * n
      /\ \A i \in 1 .. n :
           /\ text[2 * i - 1] = [digit |-> bytes[i] \div Base, upper |-> FALSE]
           /\ text[2 * i] = [digit |-> bytes[i] % Base, upper |-> FALSE]
  BY HexEncodeChars, Zenon
<1> HIDE DEF text
<1>2. PICK back \in [1 .. n -> Byte] :
        /\ HexDecode(text) = Decoded(back)
        /\ \A i \in 1 .. n : /\ back[i] \div Base = text[2 * i - 1].digit
                             /\ back[i] % Base = text[2 * i].digit
  BY <1>0, <1>1, HexDecodeBytes, Zenon
<1>3. ASSUME NEW i \in 1 .. n PROVE back[i] = bytes[i]
  <2>1. PICK x \in Byte, y \in Byte : x = back[i] /\ y = bytes[i]
    OBVIOUS
  <2>2. /\ text[2 * i - 1].digit = bytes[i] \div Base
        /\ text[2 * i].digit = bytes[i] % Base
    <3>1. /\ text[2 * i - 1] = [digit |-> bytes[i] \div Base, upper |-> FALSE]
          /\ text[2 * i] = [digit |-> bytes[i] % Base, upper |-> FALSE]
      BY <1>1, Zenon
    <3> QED
      BY <3>1
  <2>3. x \div Base = y \div Base /\ x % Base = y % Base
    BY <1>2, <2>1, <2>2, Zenon
  <2> QED
    BY <2>1, <2>3, DigitsOfByte, Zenon
<1>4. back \in Seq(Byte) /\ Len(back) = n
  BY <1>0, FunctionIsSeq, Zenon
<1>5. back = bytes
  BY <1>3, <1>4, SeqsEqual, Zenon
<1> QED
  BY <1>2, <1>5, Zenon DEF text

(* A text of lower-case digits is what hex::encode makes of its bytes.     *)
LEMMA HexRoundTripBack ==
  ASSUME NEW text \in Seq(HexChar), NEW n \in Nat, Len(text) = 2 * n,
         \A i \in 1 .. 2 * n : ~text[i].upper
  PROVE  \E bytes \in [1 .. n -> Byte] :
           HexDecode(text) = Decoded(bytes) /\ HexEncode(bytes) = text
<1>1. PICK bytes \in [1 .. n -> Byte] :
        /\ HexDecode(text) = Decoded(bytes)
        /\ \A i \in 1 .. n : /\ bytes[i] \div Base = text[2 * i - 1].digit
                             /\ bytes[i] % Base = text[2 * i].digit
  BY HexDecodeBytes, Zenon
<1>2. bytes \in Seq(Byte) /\ Len(bytes) = n
  BY FunctionIsSeq, Zenon
<1> DEFINE new == HexEncode(bytes)
<1>3. /\ new \in Seq(HexChar) /\ Len(new) = 2 * n
      /\ \A i \in 1 .. n :
           /\ new[2 * i - 1] = [digit |-> bytes[i] \div Base, upper |-> FALSE]
           /\ new[2 * i] = [digit |-> bytes[i] % Base, upper |-> FALSE]
  BY <1>2, HexEncodeChars, Zenon
<1> HIDE DEF new
<1>4. ASSUME NEW k \in 1 .. 2 * n
      PROVE  text[k] = [digit |-> text[k].digit, upper |-> FALSE]
  <2>1. text[k] \in HexChar /\ ~text[k].upper
    OBVIOUS
  <2> QED
    BY <2>1, Zenon DEF HexChar
<1>5. ASSUME NEW i \in 1 .. n
      PROVE  new[2 * i - 1] = text[2 * i - 1] /\ new[2 * i] = text[2 * i]
  <2>1. 2 * i - 1 \in 1 .. 2 * n /\ 2 * i \in 1 .. 2 * n
    OBVIOUS
  <2> QED
    BY <1>1, <1>3, <1>4, <2>1, Zenon
<1>6. ASSUME NEW k \in 1 .. 2 * n PROVE new[k] = text[k]
  <2>1. PICK i \in 1 .. n : k = 2 * i - 1 \/ k = 2 * i
    BY InPairs, Zenon
  <2> QED
    BY <1>5, <2>1, Zenon
<1>7. new = text
  BY <1>3, <1>6, SeqsEqual, Zenon
<1> QED
  BY <1>1, <1>7, Zenon DEF new

-----------------------------------------------------------------------------
(* Base64. Three bytes b0, b1, b2 make four symbols, and four symbols s0,  *)
(* s1, s2, s3 three bytes; Quarter is 2 to a quarter of a byte's bits.     *)
Quarter == 2 ^ (ByteBits \div 4)
S0(b0) == b0 \div Quarter
S1(b0, b1) == (b0 % Quarter) * Base + (b1 \div Base)
S2(b1, b2) == (b1 % Base) * Quarter + (b2 \div (Quarter * Base))
S3(b2) == b2 % (Quarter * Base)
B0(s0, s1) == s0 * Quarter + (s1 \div Base)
B1(s1, s2) == (s1 % Base) * Base + (s2 \div Quarter)
B2(s2, s3) == (s2 % Quarter) * (Quarter * Base) + s3

(* The quarter of a byte, in numbers.                                      *)
LEMMA QuarterWidth ==
  /\ ByteBits = 4 => Quarter = 2 /\ Quarter * Base = 8
  /\ ByteBits = 8 => Quarter = 4 /\ Quarter * Base = 64
<1>1. CASE ByteBits = 4
  <2>1. Base = 4
    BY <1>1, Widths, Zenon
  <2>2. Quarter = 2
    BY <1>1 DEF Quarter
  <2> QED
    BY <1>1, <2>1, <2>2
<1>2. CASE ByteBits = 8
  <2>1. Base = 16
    BY <1>2, Widths, Zenon
  <2>2. Quarter = 4
    BY <1>2 DEF Quarter
  <2> QED
    BY <1>2, <2>1, <2>2
<1> QED
  BY <1>1, <1>2, Widths, Zenon

(* Bytes and symbols are numbers.                                          *)
LEMMA AllNatural == (\A x \in Byte : x \in Nat) /\ (\A x \in Symbol : x \in Nat)
  BY Widths

(* Three bytes give four symbols, and these the bytes again.               *)
LEMMA SymbolsOfBytes ==
  ASSUME NEW b0 \in Byte, NEW b1 \in Byte, NEW b2 \in Byte
  PROVE  /\ S0(b0) \in Symbol /\ S1(b0, b1) \in Symbol
         /\ S2(b1, b2) \in Symbol /\ S3(b2) \in Symbol
         /\ B0(S0(b0), S1(b0, b1)) = b0
         /\ B1(S1(b0, b1), S2(b1, b2)) = b1
         /\ B2(S2(b1, b2), S3(b2)) = b2
<1>1. CASE ByteBits = 4
  BY <1>1, Widths, QuarterWidth DEF S0, S1, S2, S3, B0, B1, B2
<1>2. CASE ByteBits = 8
  <2>1. S0(b0) \in Symbol /\ S1(b0, b1) \in Symbol /\ S2(b1, b2) \in Symbol /\ S3(b2) \in Symbol
    BY <1>2, Widths, QuarterWidth DEF S0, S1, S2, S3
  <2>2. B0(S0(b0), S1(b0, b1)) = b0
    BY <1>2, Widths, QuarterWidth DEF S0, S1, B0
  <2>3. B1(S1(b0, b1), S2(b1, b2)) = b1
    <3>1. b0 \in 0 .. 255 /\ b1 \in 0 .. 255 /\ b2 \in 0 .. 255 /\ Base = 16 /\ Quarter = 4
      BY <1>2, Widths, QuarterWidth
    <3>2. S1(b0, b1) % Base = b1 \div 16
      BY <3>1 DEF S1
    <3>3. S2(b1, b2) \div Quarter = b1 % 16
      BY <3>1 DEF S2
    <3> QED
      BY <3>1, <3>2, <3>3 DEF B1
  <2>4. B2(S2(b1, b2), S3(b2)) = b2
    BY <1>2, Widths, QuarterWidth DEF S2, S3, B2
  <2> QED
    BY <2>1, <2>2, <2>3, <2>4, Zenon
<1> QED
  BY <1>1, <1>2, Widths, Zenon

SymbolsAgain(s0, s1, s2, s3) ==
  /\ S0(B0(s0, s1)) = s0
  /\ S1(B0(s0, s1), B1(s1, s2)) = s1
  /\ S2(B1(s1, s2), B2(s2, s3)) = s2
  /\ S3(B2(s2, s3)) = s3
  /\ s1 % Base = 0 => S1(B0(s0, s1), 0) = s1
  /\ s2 % Quarter = 0 => S2(B1(s1, s2), 0) = s2

(* Four symbols give three bytes, and these the symbols again.             *)
LEMMA BytesOfSymbols ==
  ASSUME NEW s0 \in Symbol, NEW s1 \in Symbol, NEW s2 \in Symbol, NEW s3 \in Symbol
  PROVE  /\ B0(s0, s1) \in Byte /\ B1(s1, s2) \in Byte /\ B2(s2, s3) \in Byte
         /\ SymbolsAgain(s0, s1, s2, s3)
<1>1. B0(s0, s1) \in Byte /\ B1(s1, s2) \in Byte /\ B2(s2, s3) \in Byte
  <2>1. CASE ByteBits = 4
    BY <2>1, Widths, QuarterWidth DEF B0, B1, B2
  <2>2. CASE ByteBits = 8
    BY <2>2, Widths, QuarterWidth DEF B0, B1, B2
  <2> QED
    BY <2>1, <2>2, Widths, Zenon
<1>2. CASE ByteBits = 4
  <2>1. SymbolsAgain(s0, s1, s2, s3)
    BY <1>2, Widths, QuarterWidth DEF S0, S1, S2, S3, B0, B1, B2, SymbolsAgain
  <2> QED
    BY <1>1, <2>1, Zenon
<1>3. CASE ByteBits = 8
  <2>1. S0(B0(s0, s1)) = s0 /\ S3(B2(s2, s3)) = s3
    BY <1>3, Widths, QuarterWidth DEF S0, S3, B0, B2
  <2>2. /\ S1(B0(s0, s1), B1(s1, s2)) = s1
        /\ s1 % Base = 0 => S1(B0(s0, s1), 0) = s1
    BY <1>3, Widths, QuarterWidth DEF S1, B0, B1
  <2>3. /\ S2(B1(s1, s2), B2(s2, s3)) = s2
        /\ s2 % Quarter = 0 => S2(B1(s1, s2), 0) = s2
    BY <1>3, Widths, QuarterWidth DEF S2, B1, B2
  <2> QED
    BY <1>1, <2>1, <2>2, <2>3, Zenon DEF SymbolsAgain
<1> QED
  BY <1>2, <1>3, Widths, Zenon

(* What is missing at the end of a text counts as zero.                    *)
LEMMA ZeroBytes ==
  /\ 0 \in Byte /\ 0 \in Symbol
  /\ S0(0) = 0 /\ S1(0, 0) = 0 /\ S2(0, 0) = 0 /\ S3(0) = 0
  /\ \A b \in Byte : S1(b, 0) % Base = 0 /\ S2(b, 0) % Quarter = 0
<1>1. CASE ByteBits = 4
  BY <1>1, Widths, QuarterWidth DEF S0, S1, S2, S3
<1>2. CASE ByteBits = 8
  BY <1>2, Widths, QuarterWidth DEF S0, S1, S2, S3
<1> QED
  BY <1>1, <1>2, Widths, Zenon

(* n bytes take m symbols.                                                 *)
Lengths(n, m) ==
  \E q \in Nat : \/ n = 3 * q /\ m = 4 * q
                 \/ n = 3 * q + 1 /\ m = 4 * q + 2
                 \/ n = 3 * q + 2 /\ m = 4 * q + 3

SymbolCount(n) == (ByteBits * n + SymbolBits - 1) \div SymbolBits
ByteCount(m) == (SymbolBits * m) \div ByteBits

(* Bytes come in groups of three, with up to two over.                     *)
LEMMA InThrees ==
  ASSUME NEW n \in Nat
  PROVE  \E q \in Nat : n = 3 * q \/ n = 3 * q + 1 \/ n = 3 * q + 2
<1>1. n \div 3 \in Nat
  OBVIOUS
<1>2. \/ n = 3 * (n \div 3) \/ n = 3 * (n \div 3) + 1 \/ n = 3 * (n \div 3) + 2
  OBVIOUS
<1> QED
  BY <1>1, <1>2, Zenon

(* Symbols come in groups of four, with up to three over.                  *)
LEMMA InFours ==
  ASSUME NEW m \in Nat
  PROVE  \E q \in Nat : \/ m = 4 * q \/ m = 4 * q + 1
                        \/ m = 4 * q + 2 \/ m = 4 * q + 3
<1>1. m \div 4 \in Nat
  OBVIOUS
<1>2. \/ m = 4 * (m \div 4) \/ m = 4 * (m \div 4) + 1
      \/ m = 4 * (m \div 4) + 2 \/ m = 4 * (m \div 4) + 3
  OBVIOUS
<1> QED
  BY <1>1, <1>2, Zenon

(* How long the encoding of n bytes is.                                    *)
LEMMA EncodedLength ==
  ASSUME NEW n \in Nat
  PROVE  SymbolCount(n) \in Nat /\ Lengths(n, SymbolCount(n))
<1>1. PICK q \in Nat : n = 3 * q \/ n = 3 * q + 1 \/ n = 3 * q + 2
  BY InThrees, Zenon
<1>2. /\ SymbolCount(3 * q) = 4 * q
      /\ SymbolCount(3 * q + 1) = 4 * q + 2
      /\ SymbolCount(3 * q + 2) = 4 * q + 3
  <2>1. CASE ByteBits = 4
    BY <2>1, Widths DEF SymbolCount
  <2>2. CASE ByteBits = 8
    BY <2>2, Widths DEF SymbolCount
  <2> QED
    BY <2>1, <2>2, Widths, Zenon
<1> QED
  BY <1>1, <1>2 DEF Lengths

(* The powers of two that occur.                                           *)
LEMMA Powers == 2 ^ 0 = 1 /\ 2 ^ 1 = 2 /\ 2 ^ 2 = 4 /\ 2 ^ 4 = 16
  OBVIOUS

(* And m symbols hold as many bytes, with some bits left over.             *)
LEMMA DecodedLength ==
  ASSUME NEW m \in Nat, NEW n, Lengths(n, m)
  PROVE  /\ n \in Nat /\ n = ByteCount(m) /\ m = SymbolCount(n) /\ m % 4 # 1
         /\ LET left == SymbolBits * m - ByteBits * n IN
            2 ^ left = CASE m % 4 = 0 -> 1 [] m % 4 = 2 -> Base [] m % 4 = 3 -> Quarter
<1>1. PICK q \in Nat : \/ n = 3 * q /\ m = 4 * q
                       \/ n = 3 * q + 1 /\ m = 4 * q + 2
                       \/ n = 3 * q + 2 /\ m = 4 * q + 3
  BY Zenon DEF Lengths
<1>2. n \in Nat /\ m % 4 # 1
  BY <1>1
<1>3. n = ByteCount(m) /\ m = SymbolCount(n)
  <2>1. CASE ByteBits = 4
    BY <1>1, <2>1, Widths DEF ByteCount, SymbolCount
  <2>2. CASE ByteBits = 8
    BY <1>1, <2>2, Widths DEF ByteCount, SymbolCount
  <2> QED
    BY <2>1, <2>2, Widths, Zenon
<1> DEFINE left == SymbolBits * m - ByteBits * n
<1>4. CASE n = 3 * q /\ m = 4 * q
  <2>1. left = 0 /\ m % 4 = 0
    BY <1>4, Widths
  <2>2. 2 ^ left = 1
    BY <2>1, Powers, Zenon
  <2> QED
    BY <1>2, <1>3, <2>1, <2>2
<1>5. CASE n = 3 * q + 1 /\ m = 4 * q + 2
  <2>1. m % 4 = 2
    BY <1>5
  <2>2. CASE ByteBits = 4
    <3>1. left = 2 /\ Base = 4
      BY <1>5, <2>2, Widths
    <3>2. 2 ^ left = 4
      BY <3>1, Powers, Zenon
    <3> QED
      BY <1>2, <1>3, <2>1, <3>1, <3>2
  <2>3. CASE ByteBits = 8
    <3>1. left = 4 /\ Base = 16
      BY <1>5, <2>3, Widths
    <3>2. 2 ^ left = 16
      BY <3>1, Powers, Zenon
    <3> QED
      BY <1>2, <1>3, <2>1, <3>1, <3>2
  <2> QED
    BY <2>2, <2>3, Widths, Zenon
<1>6. CASE n = 3 * q + 2 /\ m = 4 * q + 3
  <2>1. m % 4 = 3
    BY <1>6
  <2>2. CASE ByteBits = 4
    <3>1. left = 1 /\ Quarter = 2
      BY <1>6, <2>2, Widths, QuarterWidth
    <3>2. 2 ^ left = 2
      BY <3>1, Powers, Zenon
    <3> QED
      BY <1>2, <1>3, <2>1, <3>1, <3>2
  <2>3. CASE ByteBits = 8
    <3>1. left = 2 /\ Quarter = 4
      BY <1>6, <2>3, Widths, QuarterWidth
    <3>2. 2 ^ left = 4
      BY <3>1, Powers, Zenon
    <3> QED
      BY <1>2, <1>3, <2>1, <3>1, <3>2
  <2> QED
    BY <2>2, <2>3, Widths, Zenon
<1> QED
  BY <1>1, <1>4, <1>5, <1>6, Zenon

(* Every length of a text but one more than a multiple of four is that of  *)
(* an encoding.                                                            *)
LEMMA LengthsExist ==
  ASSUME NEW m \in Nat, m % 4 # 1
  PROVE  Lengths(ByteCount(m), m)
<1>1. PICK q \in Nat : \/ m = 4 * q \/ m = 4 * q + 1
                       \/ m = 4 * q + 2 \/ m = 4 * q + 3
  BY InFours, Zenon
<1>2. m # 4 * q + 1
  OBVIOUS
<1>3. \/ Lengths(3 * q, m) \/ Lengths(3 * q + 1, m) \/ Lengths(3 * q + 2, m)
  BY <1>1, <1>2, Zenon DEF Lengths
<1> QED
  BY <1>3, DecodedLength, Zenon

(* Number k, from 0, of Repack(s, v, w, n).                                *)
Window(s, v, w, k) ==
  ((At(s, (w * k) \div v) * 2 ^ v + At(s, (w * k) \div v + 1))
     \div 2 ^ (2 * v - ((w * k) % v) - w)) % 2 ^ w

(* Repack takes a window for each place of what it yields.                 *)
LEMMA RepackWindows ==
  ASSUME NEW s, NEW v, NEW w, NEW n
  PROVE  Repack(s, v, w, n) = [i \in 1 .. n |-> Window(s, v, w, i - 1)]
  BY Zenon DEF Repack, Window

(* At yields an element or zero.                                           *)
LEMMA AtType ==
  ASSUME NEW S, 0 \in S, NEW s \in Seq(S), NEW k \in Nat
  PROVE  At(s, k) \in S
  BY DEF At

(* Each symbol from the bytes of its group, for the two widths.            *)
LEMMA SymbolWindows4 ==
  ASSUME NEW s \in Seq(Byte), NEW q \in Nat, ByteBits = 4
  PROVE  /\ Window(s, 4, 3, 4 * q) = S0(At(s, 3 * q))
         /\ Window(s, 4, 3, 4 * q + 1) = S1(At(s, 3 * q), At(s, 3 * q + 1))
         /\ Window(s, 4, 3, 4 * q + 2) = S2(At(s, 3 * q + 1), At(s, 3 * q + 2))
         /\ Window(s, 4, 3, 4 * q + 3) = S3(At(s, 3 * q + 2))
<1>1. \A k \in Nat : At(s, k) \in Byte
  BY AtType, ZeroBytes, Zenon
<1>2. /\ (3 * (4 * q)) \div 4 = 3 * q /\ (3 * (4 * q)) % 4 = 0
      /\ (3 * (4 * q + 1)) \div 4 = 3 * q /\ (3 * (4 * q + 1)) % 4 = 3
      /\ (3 * (4 * q + 2)) \div 4 = 3 * q + 1 /\ (3 * (4 * q + 2)) % 4 = 2 /\ 3 * q + 1 + 1 = 3 * q + 2
      /\ (3 * (4 * q + 3)) \div 4 = 3 * q + 2 /\ (3 * (4 * q + 3)) % 4 = 1 /\ 3 * q + 2 + 1 = 3 * q + 3
  OBVIOUS
<1>3. /\ 2 * 4 - 0 - 3 = 5 /\ 2 * 4 - 3 - 3 = 2
      /\ 2 * 4 - 2 - 3 = 3 /\ 2 * 4 - 1 - 3 = 4
  OBVIOUS
<1>4. /\ Window(s, 4, 3, 4 * q) =
           ((At(s, 3 * q) * 2 ^ 4 + At(s, 3 * q + 1)) \div 2 ^ 5) % 2 ^ 3
      /\ Window(s, 4, 3, 4 * q + 1) =
           ((At(s, 3 * q) * 2 ^ 4 + At(s, 3 * q + 1)) \div 2 ^ 2) % 2 ^ 3
      /\ Window(s, 4, 3, 4 * q + 2) =
           ((At(s, 3 * q + 1) * 2 ^ 4 + At(s, 3 * q + 2)) \div 2 ^ 3) % 2 ^ 3
      /\ Window(s, 4, 3, 4 * q + 3) =
           ((At(s, 3 * q + 2) * 2 ^ 4 + At(s, 3 * q + 3)) \div 2 ^ 4) % 2 ^ 3
  BY <1>2, <1>3, Zenon DEF Window
<1>5. Byte = 0 .. 15 /\ Quarter = 2 /\ Base = 4 /\ Quarter * Base = 8
  BY Widths, QuarterWidth
<1>6. ASSUME NEW x \in Byte, NEW y \in Byte
      PROVE  /\ ((x * 2 ^ 4 + y) \div 2 ^ 5) % 2 ^ 3 = S0(x)
             /\ ((x * 2 ^ 4 + y) \div 2 ^ 2) % 2 ^ 3 = S1(x, y)
             /\ ((x * 2 ^ 4 + y) \div 2 ^ 3) % 2 ^ 3 = S2(x, y)
             /\ ((x * 2 ^ 4 + y) \div 2 ^ 4) % 2 ^ 3 = S3(x)
  BY <1>5 DEF S0, S1, S2, S3
<1>7. 3 * q \in Nat /\ 3 * q + 1 \in Nat /\ 3 * q + 2 \in Nat /\ 3 * q + 3 \in Nat
  OBVIOUS
<1> QED
  BY <1>1, <1>4, <1>6, <1>7, Zenon

(* The same for bytes of eight bits.                                       *)
LEMMA SymbolWindows8 ==
  ASSUME NEW s \in Seq(Byte), NEW q \in Nat, ByteBits = 8
  PROVE  /\ Window(s, 8, 6, 4 * q) = S0(At(s, 3 * q))
         /\ Window(s, 8, 6, 4 * q + 1) = S1(At(s, 3 * q), At(s, 3 * q + 1))
         /\ Window(s, 8, 6, 4 * q + 2) = S2(At(s, 3 * q + 1), At(s, 3 * q + 2))
         /\ Window(s, 8, 6, 4 * q + 3) = S3(At(s, 3 * q + 2))
<1>1. \A k \in Nat : At(s, k) \in Byte
  BY AtType, ZeroBytes, Zenon
<1>2. /\ (6 * (4 * q)) \div 8 = 3 * q /\ (6 * (4 * q)) % 8 = 0
      /\ (6 * (4 * q + 1)) \div 8 = 3 * q /\ (6 * (4 * q + 1)) % 8 = 6
      /\ (6 * (4 * q + 2)) \div 8 = 3 * q + 1 /\ (6 * (4 * q + 2)) % 8 = 4 /\ 3 * q + 1 + 1 = 3 * q + 2
      /\ (6 * (4 * q + 3)) \div 8 = 3 * q + 2 /\ (6 * (4 * q + 3)) % 8 = 2 /\ 3 * q + 2 + 1 = 3 * q + 3
  OBVIOUS
<1>3. /\ 2 * 8 - 0 - 6 = 10 /\ 2 * 8 - 6 - 6 = 4
      /\ 2 * 8 - 4 - 6 = 6 /\ 2 * 8 - 2 - 6 = 8
  OBVIOUS
<1>4. /\ Window(s, 8, 6, 4 * q) =
           ((At(s, 3 * q) * 2 ^ 8 + At(s, 3 * q + 1)) \div 2 ^ 10) % 2 ^ 6
      /\ Window(s, 8, 6, 4 * q + 1) =
           ((At(s, 3 * q) * 2 ^ 8 + At(s, 3 * q + 1)) \div 2 ^ 4) % 2 ^ 6
      /\ Window(s, 8, 6, 4 * q + 2) =
           ((At(s, 3 * q + 1) * 2 ^ 8 + At(s, 3 * q + 2)) \div 2 ^ 6) % 2 ^ 6
      /\ Window(s, 8, 6, 4 * q + 3) =
           ((At(s, 3 * q + 2) * 2 ^ 8 + At(s, 3 * q + 3)) \div 2 ^ 8) % 2 ^ 6
  BY <1>2, <1>3, Zenon DEF Window
<1>5. Byte = 0 .. 255 /\ Quarter = 4 /\ Base = 16 /\ Quarter * Base = 64
  BY Widths, QuarterWidth
<1>6. ASSUME NEW x \in Byte, NEW y \in Byte
      PROVE  /\ ((x * 2 ^ 8 + y) \div 2 ^ 10) % 2 ^ 6 = S0(x)
             /\ ((x * 2 ^ 8 + y) \div 2 ^ 4) % 2 ^ 6 = S1(x, y)
             /\ ((x * 2 ^ 8 + y) \div 2 ^ 6) % 2 ^ 6 = S2(x, y)
             /\ ((x * 2 ^ 8 + y) \div 2 ^ 8) % 2 ^ 6 = S3(x)
  <2>1. ((x * 2 ^ 8 + y) \div 2 ^ 10) % 2 ^ 6 = S0(x)
    BY <1>5 DEF S0
  <2>2. ((x * 2 ^ 8 + y) \div 2 ^ 4) % 2 ^ 6 = S1(x, y)
    BY <1>5 DEF S1
  <2>3. ((x * 2 ^ 8 + y) \div 2 ^ 6) % 2 ^ 6 = S2(x, y)
    BY <1>5 DEF S2
  <2>4. ((x * 2 ^ 8 + y) \div 2 ^ 8) % 2 ^ 6 = S3(x)
    BY <1>5 DEF S3
  <2> QED
    BY <2>1, <2>2, <2>3, <2>4, Zenon
<1>7. 3 * q \in Nat /\ 3 * q + 1 \in Nat /\ 3 * q + 2 \in Nat /\ 3 * q + 3 \in Nat
  OBVIOUS
<1> QED
  BY <1>1, <1>4, <1>6, <1>7, Zenon

(* And each byte from the symbols of its group.                            *)
LEMMA ByteWindows4 ==
  ASSUME NEW s \in Seq(Symbol), NEW q \in Nat, ByteBits = 4
  PROVE  /\ Window(s, 3, 4, 3 * q) = B0(At(s, 4 * q), At(s, 4 * q + 1))
         /\ Window(s, 3, 4, 3 * q + 1) = B1(At(s, 4 * q + 1), At(s, 4 * q + 2))
         /\ Window(s, 3, 4, 3 * q + 2) = B2(At(s, 4 * q + 2), At(s, 4 * q + 3))
<1>1. \A k \in Nat : At(s, k) \in Symbol
  BY AtType, ZeroBytes, Zenon
<1>2. /\ (4 * (3 * q)) \div 3 = 4 * q /\ (4 * (3 * q)) % 3 = 0
      /\ (4 * (3 * q + 1)) \div 3 = 4 * q + 1 /\ (4 * (3 * q + 1)) % 3 = 1 /\ 4 * q + 1 + 1 = 4 * q + 2
      /\ (4 * (3 * q + 2)) \div 3 = 4 * q + 2 /\ (4 * (3 * q + 2)) % 3 = 2 /\ 4 * q + 2 + 1 = 4 * q + 3
  OBVIOUS
<1>3. /\ 2 * 3 - 0 - 4 = 2 /\ 2 * 3 - 1 - 4 = 1 /\ 2 * 3 - 2 - 4 = 0
  OBVIOUS
<1>4. /\ Window(s, 3, 4, 3 * q) =
           ((At(s, 4 * q) * 2 ^ 3 + At(s, 4 * q + 1)) \div 2 ^ 2) % 2 ^ 4
      /\ Window(s, 3, 4, 3 * q + 1) =
           ((At(s, 4 * q + 1) * 2 ^ 3 + At(s, 4 * q + 2)) \div 2 ^ 1) % 2 ^ 4
      /\ Window(s, 3, 4, 3 * q + 2) =
           ((At(s, 4 * q + 2) * 2 ^ 3 + At(s, 4 * q + 3)) \div 2 ^ 0) % 2 ^ 4
  BY <1>2, <1>3, Zenon DEF Window
<1>5. Symbol = 0 .. 7 /\ Quarter = 2 /\ Base = 4 /\ Quarter * Base = 8
  BY Widths, QuarterWidth
<1>6. ASSUME NEW x \in Symbol, NEW y \in Symbol
      PROVE  /\ ((x * 2 ^ 3 + y) \div 2 ^ 2) % 2 ^ 4 = B0(x, y)
             /\ ((x * 2 ^ 3 + y) \div 2 ^ 1) % 2 ^ 4 = B1(x, y)
             /\ ((x * 2 ^ 3 + y) \div 2 ^ 0) % 2 ^ 4 = B2(x, y)
  BY <1>5 DEF B0, B1, B2
<1>7. 4 * q \in Nat /\ 4 * q + 1 \in Nat /\ 4 * q + 2 \in Nat /\ 4 * q + 3 \in Nat
  OBVIOUS
<1> QED
  BY <1>1, <1>4, <1>6, <1>7, Zenon

(* The same for bytes of eight bits.                                       *)
LEMMA ByteWindows8 ==
  ASSUME NEW s \in Seq(Symbol), NEW q \in Nat, ByteBits = 8
  PROVE  /\ Window(s, 6, 8, 3 * q) = B0(At(s, 4 * q), At(s, 4 * q + 1))
         /\ Window(s, 6, 8, 3 * q + 1) = B1(At(s, 4 * q + 1), At(s, 4 * q + 2))
         /\ Window(s, 6, 8, 3 * q + 2) = B2(At(s, 4 * q + 2), At(s, 4 * q + 3))
<1>1. \A k \in Nat : At(s, k) \in Symbol
  BY AtType, ZeroBytes, Zenon
<1>2. /\ (8 * (3 * q)) \div 6 = 4 * q /\ (8 * (3 * q)) % 6 = 0
      /\ (8 * (3 * q + 1)) \div 6 = 4 * q + 1 /\ (8 * (3 * q + 1)) % 6 = 2 /\ 4 * q + 1 + 1 = 4 * q + 2
      /\ (8 * (3 * q + 2)) \div 6 = 4 * q + 2 /\ (8 * (3 * q + 2)) % 6 = 4 /\ 4 * q + 2 + 1 = 4 * q + 3
  OBVIOUS
<1>3. /\ 2 * 6 - 0 - 8 = 4 /\ 2 * 6 - 2 - 8 = 2 /\ 2 * 6 - 4 - 8 = 0
  OBVIOUS
<1>4. /\ Window(s, 6, 8, 3 * q) =
           ((At(s, 4 * q) * 2 ^ 6 + At(s, 4 * q + 1)) \div 2 ^ 4) % 2 ^ 8
      /\ Window(s, 6, 8, 3 * q + 1) =
           ((At(s, 4 * q + 1) * 2 ^ 6 + At(s, 4 * q + 2)) \div 2 ^ 2) % 2 ^ 8
      /\ Window(s, 6, 8, 3 * q + 2) =
           ((At(s, 4 * q + 2) * 2 ^ 6 + At(s, 4 * q + 3)) \div 2 ^ 0) % 2 ^ 8
  BY <1>2, <1>3, Zenon DEF Window
<1>5. Symbol = 0 .. 63 /\ Quarter = 4 /\ Base = 16 /\ Quarter * Base = 64
  BY Widths, QuarterWidth
<1>6. ASSUME NEW x \in Symbol, NEW y \in Symbol
      PROVE  /\ ((x * 2 ^ 6 + y) \div 2 ^ 4) % 2 ^ 8 = B0(x, y)
             /\ ((x * 2 ^ 6 + y) \div 2 ^ 2) % 2 ^ 8 = B1(x, y)
             /\ ((x * 2 ^ 6 + y) \div 2 ^ 0) % 2 ^ 8 = B2(x, y)
  BY <1>5 DEF B0, B1, B2
<1>7. 4 * q \in Nat /\ 4 * q + 1 \in Nat /\ 4 * q + 2 \in Nat /\ 4 * q + 3 \in Nat
  OBVIOUS
<1> QED
  BY <1>1, <1>4, <1>6, <1>7, Zenon


(* The symbols of bytes b, zeros past both ends, and the n bytes of        *)
(* symbols s.                                                              *)
SymbolsFrom(s, b) ==
  \A q \in Nat :
    /\ At(s, 4 * q) = S0(At(b, 3 * q))
    /\ At(s, 4 * q + 1) = S1(At(b, 3 * q), At(b, 3 * q + 1))
    /\ At(s, 4 * q + 2) = S2(At(b, 3 * q + 1), At(b, 3 * q + 2))
    /\ At(s, 4 * q + 3) = S3(At(b, 3 * q + 2))

BytesFrom(b, s, n) ==
  \A q \in Nat :
    /\ 3 * q < n => At(b, 3 * q) = B0(At(s, 4 * q), At(s, 4 * q + 1))
    /\ 3 * q + 1 < n =>
         At(b, 3 * q + 1) = B1(At(s, 4 * q + 1), At(s, 4 * q + 2))
    /\ 3 * q + 2 < n =>
         At(b, 3 * q + 2) = B2(At(s, 4 * q + 2), At(s, 4 * q + 3))

(* URL_SAFE_NO_PAD.encode, symbol by symbol.                               *)
LEMMA EncodedSymbols ==
  ASSUME NEW b \in Seq(Byte), NEW s, s = Base64Encode(b)
  PROVE  /\ s \in Seq(Symbol) /\ Len(s) = SymbolCount(Len(b))
         /\ SymbolsFrom(s, b)
<1> DEFINE n == Len(b)
           m == SymbolCount(n)
           W(k) == Window(b, ByteBits, SymbolBits, k)
<1>1. n \in Nat /\ m \in Nat /\ Lengths(n, m)
  BY EncodedLength
<1>2. s = [i \in 1 .. m |-> W(i - 1)]
  BY RepackWindows, Zenon DEF Base64Encode, SymbolCount
<1>3. ASSUME NEW q \in Nat
      PROVE  /\ W(4 * q) = S0(At(b, 3 * q))
             /\ W(4 * q + 1) = S1(At(b, 3 * q), At(b, 3 * q + 1))
             /\ W(4 * q + 2) = S2(At(b, 3 * q + 1), At(b, 3 * q + 2))
             /\ W(4 * q + 3) = S3(At(b, 3 * q + 2))
  <2>1. CASE ByteBits = 4
    <3>1. SymbolBits = 3
      BY <2>1, Widths
    <3> QED
      BY <2>1, <3>1, SymbolWindows4, Zenon
  <2>2. CASE ByteBits = 8
    <3>1. SymbolBits = 6
      BY <2>2, Widths
    <3> QED
      BY <2>2, <3>1, SymbolWindows8, Zenon
  <2> QED
    BY <2>1, <2>2, Widths, Zenon
<1> HIDE DEF W, m, n
<1>4. \A k \in Nat : At(b, k) \in Byte
  BY AtType, ZeroBytes, Zenon
<1>5. ASSUME NEW k \in Nat PROVE W(k) \in Symbol
  <2>1. PICK q \in Nat : k = 4 * q \/ k = 4 * q + 1 \/ k = 4 * q + 2 \/ k = 4 * q + 3
    BY InFours, Zenon
  <2>2. PICK b0 \in Byte, b1 \in Byte, b2 \in Byte :
          b0 = At(b, 3 * q) /\ b1 = At(b, 3 * q + 1) /\ b2 = At(b, 3 * q + 2)
    BY <1>4
  <2> QED
    BY <1>3, <2>1, <2>2, SymbolsOfBytes
<1>6. s \in [1 .. m -> Symbol]
  <2>1. \A i \in 1 .. m : i - 1 \in Nat
    BY <1>1
  <2> QED
    BY <1>2, <1>5, <2>1, Zenon
<1>7. s \in Seq(Symbol) /\ Len(s) = m
  BY <1>1, <1>6, FunctionIsSeq, Zenon
<1>8. ASSUME NEW k \in Nat
      PROVE  At(s, k) = IF k < m THEN W(k) ELSE 0
  <2>1. CASE k < m
    <3>1. k + 1 \in 1 .. m /\ k + 1 - 1 = k
      BY <1>1, <2>1
    <3>2. s[k + 1] = W(k)
      BY <1>2, <3>1
    <3> QED
      BY <1>7, <2>1, <3>2, Zenon DEF At
  <2>2. CASE ~(k < m)
    BY <1>7, <2>2, Zenon DEF At
  <2> QED
    BY <2>1, <2>2, Zenon
<1>9. ASSUME NEW q \in Nat
      PROVE  /\ At(s, 4 * q) = S0(At(b, 3 * q))
             /\ At(s, 4 * q + 1) = S1(At(b, 3 * q), At(b, 3 * q + 1))
             /\ At(s, 4 * q + 2) = S2(At(b, 3 * q + 1), At(b, 3 * q + 2))
             /\ At(s, 4 * q + 3) = S3(At(b, 3 * q + 2))
  <2>1. PICK p \in Nat : \/ n = 3 * p /\ m = 4 * p
                         \/ n = 3 * p + 1 /\ m = 4 * p + 2
                         \/ n = 3 * p + 2 /\ m = 4 * p + 3
    BY <1>1, Zenon DEF Lengths
  <2>2. /\ ~(4 * q < m) => At(b, 3 * q) = 0
        /\ ~(4 * q + 1 < m) => At(b, 3 * q) = 0 /\ At(b, 3 * q + 1) = 0
        /\ ~(4 * q + 2 < m) => At(b, 3 * q + 1) = 0 /\ At(b, 3 * q + 2) = 0
        /\ ~(4 * q + 3 < m) => At(b, 3 * q + 2) = 0
    BY <2>1 DEF At, n
  <2>3. 4 * q \in Nat /\ 4 * q + 1 \in Nat /\ 4 * q + 2 \in Nat /\ 4 * q + 3 \in Nat
    OBVIOUS
  <2> QED
    BY <1>3, <1>8, <2>2, <2>3, ZeroBytes, Zenon
<1> QED
  BY <1>7, <1>9, Zenon DEF m, n, SymbolsFrom

(* Decoding of symbols, byte by byte.                                      *)
LEMMA DecodedBytes ==
  ASSUME NEW s \in Seq(Symbol), NEW n \in Nat, NEW b,
         b = Repack(s, SymbolBits, ByteBits, n)
  PROVE  /\ b \in [1 .. n -> Byte] /\ b \in Seq(Byte) /\ Len(b) = n
         /\ BytesFrom(b, s, n)
<1> DEFINE W(k) == Window(s, SymbolBits, ByteBits, k)
<1>1. b = [i \in 1 .. n |-> W(i - 1)]
  BY RepackWindows, Zenon
<1>2. ASSUME NEW q \in Nat
      PROVE  /\ W(3 * q) = B0(At(s, 4 * q), At(s, 4 * q + 1))
             /\ W(3 * q + 1) = B1(At(s, 4 * q + 1), At(s, 4 * q + 2))
             /\ W(3 * q + 2) = B2(At(s, 4 * q + 2), At(s, 4 * q + 3))
  <2>1. CASE ByteBits = 4
    <3>1. SymbolBits = 3
      BY <2>1, Widths
    <3> QED
      BY <2>1, <3>1, ByteWindows4, Zenon
  <2>2. CASE ByteBits = 8
    <3>1. SymbolBits = 6
      BY <2>2, Widths
    <3> QED
      BY <2>2, <3>1, ByteWindows8, Zenon
  <2> QED
    BY <2>1, <2>2, Widths, Zenon
<1> HIDE DEF W
<1>3. \A k \in Nat : At(s, k) \in Symbol
  BY AtType, ZeroBytes, Zenon
<1>4. ASSUME NEW k \in Nat PROVE W(k) \in Byte
  <2>1. PICK q \in Nat : k = 3 * q \/ k = 3 * q + 1 \/ k = 3 * q + 2
    BY InThrees, Zenon
  <2>2. PICK s0 \in Symbol, s1 \in Symbol, s2 \in Symbol, s3 \in Symbol :
          /\ s0 = At(s, 4 * q) /\ s1 = At(s, 4 * q + 1)
          /\ s2 = At(s, 4 * q + 2) /\ s3 = At(s, 4 * q + 3)
    BY <1>3
  <2>3. B0(s0, s1) \in Byte /\ B1(s1, s2) \in Byte /\ B2(s2, s3) \in Byte
    BY BytesOfSymbols, Zenon
  <2>4. W(3 * q) \in Byte /\ W(3 * q + 1) \in Byte /\ W(3 * q + 2) \in Byte
    BY <1>2, <2>2, <2>3, Zenon
  <2> QED
    BY <2>1, <2>4, Zenon
<1>5. b \in [1 .. n -> Byte]
  <2>1. \A i \in 1 .. n : i - 1 \in Nat
    OBVIOUS
  <2> QED
    BY <1>1, <1>4, <2>1, Zenon
<1>6. b \in Seq(Byte) /\ Len(b) = n
  BY <1>5, FunctionIsSeq, Zenon
<1>7. ASSUME NEW k \in Nat, k < n PROVE At(b, k) = W(k)
  <2>1. k + 1 \in 1 .. n /\ k + 1 - 1 = k
    BY <1>7
  <2> QED
    BY <1>1, <1>6, <1>7, <2>1 DEF At
<1>8. \A q \in Nat : 3 * q \in Nat /\ 3 * q + 1 \in Nat /\ 3 * q + 2 \in Nat
  OBVIOUS
<1> QED
  BY <1>2, <1>5, <1>6, <1>7, <1>8, Zenon DEF BytesFrom

(* Decoding undoes encoding, and finds no bits left over.                  *)
LEMMA BytesRoundTrip ==
  ASSUME NEW b \in Seq(Byte)
  PROVE  /\ Base64Encode(b) \in Seq(Symbol)
         /\ SymbolsDecode(Base64Encode(b)) = Decoded(b)
<1> DEFINE n == Len(b)
           m == SymbolCount(n)
<1>1. PICK s : s = Base64Encode(b)
  BY Zenon
<1>2. /\ s \in Seq(Symbol) /\ Len(s) = m
      /\ SymbolsFrom(s, b)
  BY <1>1, EncodedSymbols, Zenon
<1>3. n \in Nat /\ m \in Nat /\ Lengths(n, m)
  BY EncodedLength
<1> HIDE DEF m
<1>4. \A k \in Nat : At(b, k) \in Byte
  BY AtType, ZeroBytes, Zenon
<1>5. n = ByteCount(m) /\ m % 4 # 1
  BY <1>3, DecodedLength, Zenon
<1> DEFINE left == SymbolBits * m - ByteBits * n
<1>6. s # <<>> => s[Len(s)] % 2 ^ left = 0
  <2> SUFFICES ASSUME s # <<>> PROVE s[m] % 2 ^ left = 0
    BY <1>2, Zenon
  <2>1. m # 0 /\ At(s, m - 1) = s[m]
    BY <1>2, <1>3 DEF At
  <2>2. 2 ^ left = CASE m % 4 = 0 -> 1 [] m % 4 = 2 -> Base [] m % 4 = 3 -> Quarter
    BY <1>3, DecodedLength, Zenon
  <2>3. PICK q \in Nat : \/ n = 3 * q /\ m = 4 * q
                         \/ n = 3 * q + 1 /\ m = 4 * q + 2
                         \/ n = 3 * q + 2 /\ m = 4 * q + 3
    BY <1>3, Zenon DEF Lengths
  <2> HIDE DEF left
  <2>4. CASE n = 3 * q /\ m = 4 * q
    <3>1. 2 ^ left = 1
      BY <2>2, <2>4
    <3>2. s[m] \in Symbol
      BY <1>2, <1>3, <2>1
    <3>3. s[m] \in Nat
      BY <3>2, AllNatural, Zenon
    <3> QED
      BY <3>1, <3>3
  <2>5. CASE n = 3 * q + 1 /\ m = 4 * q + 2
    <3>1. 2 ^ left = Base /\ m - 1 = 4 * q + 1
      BY <2>2, <2>5
    <3>2. At(b, 3 * q + 1) = 0
      BY <2>5 DEF At
    <3>3. At(b, 3 * q) \in Byte
      BY <1>4
    <3>4. s[m] = S1(At(b, 3 * q), 0)
      BY <1>2, <2>1, <3>1, <3>2, Zenon DEF SymbolsFrom
    <3> QED
      BY <3>1, <3>3, <3>4, ZeroBytes, Zenon
  <2>6. CASE n = 3 * q + 2 /\ m = 4 * q + 3
    <3>1. 2 ^ left = Quarter /\ m - 1 = 4 * q + 2
      BY <2>2, <2>6
    <3>2. At(b, 3 * q + 2) = 0
      BY <2>6 DEF At
    <3>3. At(b, 3 * q + 1) \in Byte
      BY <1>4
    <3>4. s[m] = S2(At(b, 3 * q + 1), 0)
      BY <1>2, <2>1, <3>1, <3>2, Zenon DEF SymbolsFrom
    <3> QED
      BY <3>1, <3>3, <3>4, ZeroBytes, Zenon
  <2> QED
    BY <2>3, <2>4, <2>5, <2>6, Zenon
<1>7. Chars(s) \subseteq Symbol
  BY <1>2 DEF Chars
<1>8. PICK back : back = Repack(s, SymbolBits, ByteBits, n)
  BY Zenon
<1>9. SymbolsDecode(s) = Decoded(back)
  BY <1>2, <1>5, <1>6, <1>7, <1>8, Zenon DEF SymbolsDecode, ByteCount
<1>10. /\ back \in [1 .. n -> Byte] /\ back \in Seq(Byte) /\ Len(back) = n
       /\ BytesFrom(back, s, n)
  <2>1. s \in Seq(Symbol)
    BY <1>2, Zenon
  <2>2. n \in Nat
    BY <1>3, Zenon
  <2> QED
    BY <1>8, <2>1, <2>2, DecodedBytes, Zenon
<1>11. ASSUME NEW k \in Nat, k < n PROVE At(back, k) = At(b, k)
  <2>1. PICK q \in Nat : k = 3 * q \/ k = 3 * q + 1 \/ k = 3 * q + 2
    BY InThrees, Zenon
  <2>2. PICK b0 \in Byte, b1 \in Byte, b2 \in Byte :
          b0 = At(b, 3 * q) /\ b1 = At(b, 3 * q + 1) /\ b2 = At(b, 3 * q + 2)
    BY <1>4
  <2>3. /\ B0(S0(b0), S1(b0, b1)) = b0
        /\ B1(S1(b0, b1), S2(b1, b2)) = b1
        /\ B2(S2(b1, b2), S3(b2)) = b2
    BY SymbolsOfBytes, Zenon
  <2> QED
    BY <1>2, <1>10, <1>11, <2>1, <2>2, <2>3, Zenon DEF SymbolsFrom, BytesFrom
<1>12. ASSUME NEW i \in 1 .. n PROVE back[i] = b[i]
  <2>1. i - 1 \in Nat /\ i - 1 < n /\ i - 1 + 1 = i
    BY <1>3
  <2> QED
    BY <1>10, <1>11, <2>1, Zenon DEF At
<1>13. back = b
  BY <1>10, <1>12, SeqsEqual, Zenon
<1> QED
  BY <1>1, <1>2, <1>9, <1>13, Zenon

(* The bits past the last whole byte of m symbols.                         *)
LeftOver(m) == 2 ^ (SymbolBits * m - ByteBits * ByteCount(m))

(* How many values the bits have that the last symbol has left over.       *)
LEMMA LeftOverIs ==
  ASSUME NEW m \in Nat, m % 4 # 1
  PROVE  /\ m % 4 = 0 => LeftOver(m) = 1
         /\ m % 4 = 2 => LeftOver(m) = Base
         /\ m % 4 = 3 => LeftOver(m) = Quarter
<1>1. Lengths(ByteCount(m), m)
  BY LengthsExist, Zenon
<1>2. LeftOver(m) = CASE m % 4 = 0 -> 1 [] m % 4 = 2 -> Base [] m % 4 = 3 -> Quarter
  BY <1>1, DecodedLength, Zenon DEF LeftOver
<1> QED
  BY <1>2

(* What symbols are decoded.                                               *)
Decodable(s) ==
  /\ Chars(s) \subseteq Symbol
  /\ Len(s) % 4 # 1
  /\ s # <<>> => s[Len(s)] % LeftOver(Len(s)) = 0

(* What the decoder for unpadded text accepts and yields.                  *)
LEMMA DecodableIsOk ==
  ASSUME NEW s
  PROVE  /\ IsOk(SymbolsDecode(s)) <=> Decodable(s)
         /\ Decodable(s) =>
              SymbolsDecode(s) =
                Decoded(Repack(s, SymbolBits, ByteBits, ByteCount(Len(s))))
<1>1. SymbolsDecode(s) =
        IF Decodable(s)
        THEN Decoded(Repack(s, SymbolBits, ByteBits, ByteCount(Len(s))))
        ELSE Malformed
  BY Zenon DEF SymbolsDecode, Decodable, ByteCount, LeftOver
<1>2. /\ IsOk(Decoded(Repack(s, SymbolBits, ByteBits, ByteCount(Len(s)))))
      /\ ~IsOk(Malformed)
  BY ResultsDiffer, Zenon
<1> QED
  BY <1>1, <1>2, Zenon

(* Encoding undoes decoding: no two texts without padding mean the same.   *)
LEMMA TextRoundTrip ==
  ASSUME NEW S, NEW s \in Seq(S), Decodable(s)
  PROVE  /\ s \in Seq(Symbol)
         /\ \E b \in Seq(Byte) : /\ SymbolsDecode(s) = Decoded(b)
                                 /\ Base64Encode(b) = s
                                 /\ Len(b) = ByteCount(Len(s))
<1> DEFINE m == Len(s)
           n == ByteCount(m)
<1>1. m \in Nat /\ m % 4 # 1
  BY DEF Decodable
<1>2. s \in Seq(Symbol)
  <2>1. \A i \in 1 .. Len(s) : s[i] \in Symbol
    BY DEF Decodable, Chars
  <2> QED
    BY <2>1
<1>3. Lengths(n, m)
  BY <1>1, LengthsExist, Zenon
<1>4. n \in Nat /\ m = SymbolCount(n)
  BY <1>1, <1>3, DecodedLength, Zenon
<1>5. PICK b : b = Repack(s, SymbolBits, ByteBits, n)
  BY Zenon
<1> HIDE DEF n
<1>6. /\ b \in [1 .. n -> Byte] /\ b \in Seq(Byte) /\ Len(b) = n
      /\ BytesFrom(b, s, n)
  BY <1>2, <1>4, <1>5, DecodedBytes, Zenon
<1>7. SymbolsDecode(s) = Decoded(b)
  BY <1>5, DecodableIsOk, Zenon DEF n
<1>8. PICK new : new = Base64Encode(b)
  BY Zenon
<1>9. new \in Seq(Symbol) /\ Len(new) = m /\ SymbolsFrom(new, b)
  BY <1>4, <1>6, <1>8, EncodedSymbols, Zenon
<1>10. \A k \in Nat : At(s, k) \in Symbol
  BY <1>2, AtType, ZeroBytes, Zenon
<1>11. ASSUME NEW k \in Nat, k < m PROVE At(new, k) = At(s, k)
  <2>1. PICK q \in Nat : k = 4 * q \/ k = 4 * q + 1 \/ k = 4 * q + 2 \/ k = 4 * q + 3
    BY InFours, Zenon
  <2>2. PICK s0 \in Symbol, s1 \in Symbol, s2 \in Symbol, s3 \in Symbol :
          /\ s0 = At(s, 4 * q) /\ s1 = At(s, 4 * q + 1)
          /\ s2 = At(s, 4 * q + 2) /\ s3 = At(s, 4 * q + 3)
    BY <1>10
  <2>3. /\ S0(B0(s0, s1)) = s0
        /\ S1(B0(s0, s1), B1(s1, s2)) = s1
        /\ S2(B1(s1, s2), B2(s2, s3)) = s2
        /\ S3(B2(s2, s3)) = s3
        /\ s1 % Base = 0 => S1(B0(s0, s1), 0) = s1
        /\ s2 % Quarter = 0 => S2(B1(s1, s2), 0) = s2
    <3>1. SymbolsAgain(s0, s1, s2, s3)
      BY BytesOfSymbols, Zenon
    <3> QED
      BY <3>1, Zenon DEF SymbolsAgain
  <2>4. PICK p \in Nat : \/ n = 3 * p /\ m = 4 * p
                         \/ n = 3 * p + 1 /\ m = 4 * p + 2
                         \/ n = 3 * p + 2 /\ m = 4 * p + 3
    BY <1>3, Zenon DEF Lengths
  <2>5. m # 0 /\ s # <<>> /\ s[m] = At(s, m - 1)
    BY <1>11 DEF At
  <2>6. s[m] % LeftOver(m) = 0
    BY <2>5, Zenon DEF Decodable
  <2>7. CASE k = 4 * q
    <3>1. 3 * q < n
      BY <1>11, <2>4, <2>7
    <3> QED
      BY <1>6, <1>9, <2>2, <2>3, <2>7, <3>1, Zenon DEF BytesFrom, SymbolsFrom
  <2>8. CASE k = 4 * q + 1
    <3>1. 3 * q < n
      BY <1>11, <2>4, <2>8
    <3>2. CASE 3 * q + 1 < n
      BY <1>6, <1>9, <2>2, <2>3, <2>8, <3>1, <3>2, Zenon DEF BytesFrom, SymbolsFrom
    <3>3. CASE ~(3 * q + 1 < n)
      <4>1. m - 1 = 4 * q + 1 /\ m % 4 = 2 /\ At(b, 3 * q + 1) = 0
        BY <1>6, <1>11, <2>4, <2>8, <3>3 DEF At
      <4>2. LeftOver(m) = Base
        BY <1>1, <4>1, LeftOverIs, Zenon
      <4>3. s1 % Base = 0
        BY <2>2, <2>5, <2>6, <4>1, <4>2, Zenon
      <4> QED
        BY <1>6, <1>9, <2>2, <2>3, <2>8, <3>1, <4>1, <4>3, Zenon
        DEF BytesFrom, SymbolsFrom
    <3> QED
      BY <3>2, <3>3, Zenon
  <2>9. CASE k = 4 * q + 2
    <3>1. 3 * q + 1 < n
      BY <1>11, <2>4, <2>9
    <3>2. CASE 3 * q + 2 < n
      BY <1>6, <1>9, <2>2, <2>3, <2>9, <3>1, <3>2, Zenon DEF BytesFrom, SymbolsFrom
    <3>3. CASE ~(3 * q + 2 < n)
      <4>1. m - 1 = 4 * q + 2 /\ m % 4 = 3 /\ At(b, 3 * q + 2) = 0
        BY <1>6, <1>11, <2>4, <2>9, <3>3 DEF At
      <4>2. LeftOver(m) = Quarter
        BY <1>1, <4>1, LeftOverIs, Zenon
      <4>3. s2 % Quarter = 0
        BY <2>2, <2>5, <2>6, <4>1, <4>2, Zenon
      <4> QED
        BY <1>6, <1>9, <2>2, <2>3, <2>9, <3>1, <4>1, <4>3, Zenon
        DEF BytesFrom, SymbolsFrom
    <3> QED
      BY <3>2, <3>3, Zenon
  <2>10. CASE k = 4 * q + 3
    <3>1. 3 * q + 2 < n
      BY <1>11, <2>4, <2>10
    <3> QED
      BY <1>6, <1>9, <2>2, <2>3, <2>10, <3>1, Zenon DEF BytesFrom, SymbolsFrom
  <2> QED
    BY <2>1, <2>7, <2>8, <2>9, <2>10, Zenon
<1>12. ASSUME NEW i \in 1 .. m PROVE new[i] = s[i]
  <2>1. i - 1 \in Nat /\ i - 1 < m /\ i - 1 + 1 = i
    BY <1>1
  <2> QED
    BY <1>9, <1>11, <2>1, Zenon DEF At
<1>13. new = s
  BY <1>2, <1>9, <1>12, SeqsEqual, Zenon
<1> QED
  BY <1>2, <1>6, <1>7, <1>8, <1>13, Zenon DEF n

(* The reference definition: every group of four symbols is the text of    *)
(* some bytes.                                                             *)
LEMMA GroupIsDecodable ==
  ASSUME NEW S, NEW g \in Seq(S), Len(g) <= 4
  PROVE  g \in GroupTexts <=> Decodable(g)
<1>0. Len(g) \in 0 .. 4
  <2>1. Len(g) \in Nat
    OBVIOUS
  <2>2. \A n \in Nat : n <= 4 => n \in 0 .. 4
    OBVIOUS
  <2> QED
    BY <2>1, <2>2, Zenon
<1>1. ASSUME NEW k \in 0 .. 3, NEW b \in [1 .. k -> Byte], g = Base64Encode(b)
      PROVE  Decodable(g)
  <2>1. b \in Seq(Byte)
    BY FunctionIsSeq
  <2> QED
    BY <1>1, <2>1, BytesRoundTrip, DecodableIsOk, ResultsDiffer, Zenon
<1>2. ASSUME Decodable(g) PROVE g \in GroupTexts
  <2>1. PICK b \in Seq(Byte) : Base64Encode(b) = g /\ Len(b) = ByteCount(Len(g))
    BY <1>2, TextRoundTrip, Zenon
  <2>3. ByteCount(Len(g)) \in 0 .. 3
    <3>1. CASE ByteBits = 4
      BY <1>0, <3>1, Widths DEF ByteCount
    <3>2. CASE ByteBits = 8
      BY <1>0, <3>2, Widths DEF ByteCount
    <3> QED
      BY <3>1, <3>2, Widths, Zenon
  <2>4. b \in [1 .. Len(b) -> Byte] /\ Len(b) \in 0 .. 3
    BY <2>1, <2>3
  <2> QED
    BY <2>1, <2>4, Zenon DEF GroupTexts
<1>3. g \in GroupTexts => \E k \in 0 .. 3 : \E b \in [1 .. k -> Byte] : g = Base64Encode(b)
  BY Zenon DEF GroupTexts
<1> QED
  BY <1>1, <1>2, <1>3, Zenon

(* The reference definition of a canonical text and the test of the        *)
(* decoder agree.                                                          *)
LEMMA CanonicalIsDecodable ==
  ASSUME NEW S, NEW s \in Seq(S)
  PROVE  Canonical(s) <=> Decodable(s)
<1>0. PICK m \in Nat, last \in Nat :
        m = Len(s) /\ last = m \div 4 /\ 4 * last <= m /\ m < 4 * last + 4
  <2>1. Len(s) \in Nat
    OBVIOUS
  <2>2. Len(s) \div 4 \in Nat /\ 4 * (Len(s) \div 4) <= Len(s)
        /\ Len(s) < 4 * (Len(s) \div 4) + 4
    BY <2>1
  <2> QED
    BY <2>1, <2>2, Zenon
<1> DEFINE Size(i) == IF i < last THEN 4 ELSE m - 4 * last
<1>1. ASSUME NEW i \in 0 .. last
      PROVE  /\ Group(s, i) \in Seq(S) /\ Len(Group(s, i)) = Size(i) /\ Size(i) \in 0 .. 4
             /\ \A j \in 1 .. Size(i) : Group(s, i)[j] = s[4 * i + j] /\ 4 * i + j \in 1 .. m
  <2>1. PICK e : e = IF 4 * i + 4 < m THEN 4 * i + 4 ELSE m
    BY Zenon
  <2>2. Group(s, i) = SubSeq(s, 4 * i + 1, e)
    BY <1>0, <2>1, Zenon DEF Group
  <2>3. PICK size \in 0 .. 4 : size = Size(i) /\ e = 4 * i + size /\ e <= m
    <3>1. CASE i < last
      BY <1>0, <2>1, <3>1
    <3>2. CASE i = last
      BY <1>0, <2>1, <3>2
    <3> QED
      BY <3>1, <3>2
  <2> HIDE DEF Size
  <2>4. \A j \in 1 .. size : 4 * i + j \in 1 .. m
    BY <2>3
  <2>5. 4 * i + 1 \in 1 .. m + 1 /\ e \in 4 * i .. m
    BY <2>3
  <2>6. /\ SubSeq(s, 4 * i + 1, e) \in Seq(S)
        /\ Len(SubSeq(s, 4 * i + 1, e)) = size
        /\ \A j \in 1 .. size : SubSeq(s, 4 * i + 1, e)[j] = s[4 * i + j]
    BY <1>0, <2>3, <2>5
  <2> QED
    BY <2>2, <2>3, <2>4, <2>6, Zenon
<1> HIDE DEF Size
<1>2. Canonical(s) <=> \A i \in 0 .. last : Decodable(Group(s, i))
  <2>1. ASSUME NEW i \in 0 .. last
        PROVE  Group(s, i) \in GroupTexts <=> Decodable(Group(s, i))
    <3>1. \A n \in 0 .. 4 : n <= 4
      OBVIOUS
    <3>2. Len(Group(s, i)) <= 4
      BY <1>1, <3>1, Zenon
    <3> QED
      BY <1>1, <3>2, GroupIsDecodable, Zenon
  <2> QED
    BY <1>0, <2>1, Zenon DEF Canonical
<1>3. ASSUME NEW i \in 0 .. last
      PROVE  Chars(Group(s, i)) \subseteq Symbol <=>
               \A j \in 1 .. Size(i) : s[4 * i + j] \in Symbol
  <2>1. DOMAIN Group(s, i) = 1 .. Size(i)
    BY <1>1
  <2> QED
    BY <1>1, <2>1, Zenon DEF Chars
<1>4. ASSUME NEW i \in 0 .. last, i < last
      PROVE  Decodable(Group(s, i)) <=> Chars(Group(s, i)) \subseteq Symbol
  <2>1. Len(Group(s, i)) = 4 /\ Group(s, i) # <<>> /\ 4 \in 1 .. Size(i) /\ 4 \in Nat
    BY <1>1, <1>4 DEF Size
  <2>2. LeftOver(4) = 1
    BY LeftOverIs
  <2>3. Chars(Group(s, i)) \subseteq Symbol => Group(s, i)[4] % 1 = 0
    <3>1. Group(s, i)[4] \in Chars(Group(s, i))
      BY <1>1, <2>1 DEF Chars
    <3> QED
      BY <3>1, AllNatural
  <2> QED
    BY <2>1, <2>2, <2>3 DEF Decodable
<1>5. m % 4 = m - 4 * last
  BY <1>0
<1>6. PICK g : g = Group(s, last)
  BY Zenon
<1>7. /\ g \in Seq(S) /\ Len(g) = m % 4
      /\ \A j \in 1 .. m % 4 : g[j] = s[4 * last + j]
  <2>1. last \in 0 .. last /\ Size(last) = m % 4
    BY <1>0, <1>5 DEF Size
  <2> QED
    BY <1>1, <1>6, <2>1, Zenon
<1>8. Decodable(g) <=>
        /\ Chars(g) \subseteq Symbol
        /\ m % 4 # 1
        /\ m % 4 # 0 => s[m] % LeftOver(m) = 0
  <2>1. g = <<>> <=> m % 4 = 0
    BY <1>7
  <2>2. Len(g) % 4 = m % 4 /\ m % 4 \in Nat /\ m % 4 \in 0 .. 3
    BY <1>0, <1>7
  <2>3. m % 4 # 1 => LeftOver(Len(g)) = LeftOver(m)
    <3>1. Len(g) \in Nat
      BY <2>2, <1>7, Zenon
    <3>2. m % 4 # 1 => m % 4 = 0 \/ m % 4 = 2 \/ m % 4 = 3
      BY <2>2
    <3> QED
      BY <1>0, <2>2, <3>1, <3>2, LeftOverIs, Zenon
  <2>4. m % 4 # 0 => g[Len(g)] = s[m]
    <3>1. ASSUME m % 4 # 0
          PROVE  m % 4 \in 1 .. m % 4 /\ 4 * last + (m % 4) = m
      BY <1>0, <1>5, <2>2, <3>1
    <3> QED
      BY <1>7, <3>1, Zenon
  <2> QED
    BY <2>1, <2>2, <2>3, <2>4, Zenon DEF Decodable
<1>9. Chars(s) \subseteq Symbol <=>
        \A i \in 0 .. last : Chars(Group(s, i)) \subseteq Symbol
  <2>1. DOMAIN s = 1 .. m
    BY <1>0
  <2>2. Chars(s) \subseteq Symbol <=> \A k \in 1 .. m : s[k] \in Symbol
    BY <2>1, Zenon DEF Chars
  <2>3. ASSUME NEW k \in 1 .. m
        PROVE  \E i \in 0 .. last : \E j \in 1 .. Size(i) : k = 4 * i + j
    <3>1. PICK i \in Nat, j \in 1 .. 4 : k = 4 * i + j
      <4>1. /\ (k - 1) \div 4 \in Nat /\ ((k - 1) % 4) + 1 \in 1 .. 4
            /\ k = 4 * ((k - 1) \div 4) + ((k - 1) % 4) + 1
        OBVIOUS
      <4> QED
        BY <4>1
    <3>2. i \in 0 .. last /\ j \in 1 .. Size(i)
      <4>1. CASE i < last
        BY <1>0, <3>1, <4>1 DEF Size
      <4>2. CASE i >= last
        BY <1>0, <3>1, <4>2 DEF Size
      <4> QED
        BY <1>0, <3>1, <4>1, <4>2
    <3> QED
      BY <3>1, <3>2, Zenon
  <2>4. ASSUME \A k \in 1 .. m : s[k] \in Symbol, NEW i \in 0 .. last
        PROVE  Chars(Group(s, i)) \subseteq Symbol
    <3>1. \A j \in 1 .. Size(i) : 4 * i + j \in 1 .. m
      BY <1>1, Zenon
    <3> QED
      BY <1>3, <2>4, <3>1, Zenon
  <2>5. ASSUME \A i \in 0 .. last : Chars(Group(s, i)) \subseteq Symbol, NEW k \in 1 .. m
        PROVE  s[k] \in Symbol
    <3>1. \A i \in 0 .. last : \A j \in 1 .. Size(i) : s[4 * i + j] \in Symbol
      BY <1>3, <2>5, Zenon
    <3> QED
      BY <2>3, <3>1, Zenon
  <2> QED
    BY <2>2, <2>4, <2>5, Zenon
<1>10. \A i \in 0 .. last : i < last \/ i = last
  BY <1>0
<1>11. last \in 0 .. last
  BY <1>0
<1>12. m % 4 = 0 /\ Chars(s) \subseteq Symbol /\ s # <<>> => s[m] % LeftOver(m) = 0
  <2>1. SUFFICES ASSUME m % 4 = 0, Chars(s) \subseteq Symbol, s # <<>>
                 PROVE  s[m] % LeftOver(m) = 0
    BY Zenon
  <2>2. s[m] \in Chars(s)
    BY <1>0, <2>1 DEF Chars
  <2>3. LeftOver(m) = 1
    BY <1>0, <2>1, LeftOverIs
  <2> QED
    BY <2>1, <2>2, <2>3, AllNatural
<1>13. s = <<>> => m % 4 = 0
  BY <1>0
<1> QED
  BY <1>0, <1>2, <1>4, <1>6, <1>8, <1>9, <1>10, <1>11, <1>12, <1>13, Zenon DEF Decodable

-----------------------------------------------------------------------------
(* t is the text of b, with or without padding.                            *)
IsTextOf(t, b) ==
  /\ b \in Seq(Byte) /\ Base64Encode(b) \in Seq(Symbol)
  /\ t \in {Base64Encode(b), Padded(Base64Encode(b))}

(* base64url_bytes_bytes::deserialize accepts exactly the texts of the     *)
(* reference definition, and yields the bytes they are a text of.          *)
LEMMA Base64Accepts ==
  ASSUME NEW S, NEW t \in Seq(S)
  PROVE  /\ IsOk(Base64Deserialize(t)) <=>
              \E n \in 0 .. Len(t) : BodyTextOf(t, SubSeq(t, 1, n))
         /\ IsOk(Base64Deserialize(t)) =>
              \E b : Base64Deserialize(t) = Decoded(b) /\ IsTextOf(t, b)
<1> DEFINE good == {n \in 0 .. Len(t) : t = Padded(SubSeq(t, 1, n))
                                        /\ IsOk(SymbolsDecode(SubSeq(t, 1, n)))}
           c == CHOOSE n \in good : TRUE
<1>1. Len(t) \in 0 .. Len(t) /\ SubSeq(t, 1, Len(t)) = t
  OBVIOUS
<1>2. \A n \in 0 .. Len(t) : SubSeq(t, 1, n) \in Seq(S)
  OBVIOUS
<1>3. \A n \in 0 .. Len(t) :
        IsOk(SymbolsDecode(SubSeq(t, 1, n))) <=> Canonical(SubSeq(t, 1, n))
  BY <1>2, DecodableIsOk, CanonicalIsDecodable, Zenon
<1>4. good # {} => c \in good
  BY Zenon
<1>5. PaddedDecode(t) = IF good = {} THEN Malformed ELSE SymbolsDecode(SubSeq(t, 1, c))
  BY Zenon DEF PaddedDecode
<1> HIDE DEF c
<1>6. ASSUME NEW n \in 0 .. Len(t), IsOk(SymbolsDecode(SubSeq(t, 1, n))),
             t \in {SubSeq(t, 1, n), Padded(SubSeq(t, 1, n))}
      PROVE  \E b : SymbolsDecode(SubSeq(t, 1, n)) = Decoded(b) /\ IsTextOf(t, b)
  <2>1. SubSeq(t, 1, n) \in Seq(S) /\ Decodable(SubSeq(t, 1, n))
    BY <1>2, <1>6, DecodableIsOk, Zenon
  <2>2. /\ SubSeq(t, 1, n) \in Seq(Symbol)
        /\ \E b \in Seq(Byte) : /\ SymbolsDecode(SubSeq(t, 1, n)) = Decoded(b)
                                /\ Base64Encode(b) = SubSeq(t, 1, n)
    BY <2>1, TextRoundTrip, Zenon
  <2> QED
    BY <1>6, <2>2, Zenon DEF IsTextOf
<1>7. CASE IsOk(SymbolsDecode(t))
  <2>1. Base64Deserialize(t) = SymbolsDecode(t)
    BY <1>7, Zenon DEF Base64Deserialize
  <2> QED
    BY <1>1, <1>3, <1>6, <1>7, <2>1, Zenon DEF BodyTextOf
<1>8. CASE ~IsOk(SymbolsDecode(t)) /\ good = {}
  <2>1. Base64Deserialize(t) = Malformed
    BY <1>5, <1>8, Zenon DEF Base64Deserialize
  <2>2. ~IsOk(Malformed)
    BY ResultsDiffer, Zenon
  <2> QED
    BY <1>3, <1>8, <2>1, <2>2, Zenon DEF BodyTextOf
<1>9. CASE ~IsOk(SymbolsDecode(t)) /\ good # {}
  <2>1. Base64Deserialize(t) = SymbolsDecode(SubSeq(t, 1, c))
    BY <1>5, <1>9, Zenon DEF Base64Deserialize
  <2>2. /\ c \in 0 .. Len(t) /\ t = Padded(SubSeq(t, 1, c))
        /\ IsOk(SymbolsDecode(SubSeq(t, 1, c)))
    BY <1>4, <1>9, Zenon
  <2> QED
    BY <1>3, <1>6, <2>1, <2>2, Zenon DEF BodyTextOf
<1> QED
  BY <1>7, <1>8, <1>9, Zenon

(* hex_array::deserialize accepts exactly what hex::encode writes of as    *)
(* many bytes as a PeerId has, and gives those bytes.                      *)
LEMMA HexArrayRoundTrip ==
  ASSUME NEW p \in [1 .. IdLen -> Byte]
  PROVE  /\ HexArrayDeserialize(HexEncode(p)) = Decoded(p)
         /\ HexEncode(p) \in Seq(HexChar)
<1>1. IdLen \in Nat
  BY CodecAssumption, Zenon
<1>2. p \in Seq(Byte) /\ Len(p) = IdLen
  BY <1>1, FunctionIsSeq, Zenon
<1>3. PICK text : text = HexEncode(p)
  BY Zenon
<1>4. /\ text \in Seq(HexChar) /\ Len(text) = 2 * IdLen
      /\ \A i \in 1 .. Len(text) : text[i].upper = FALSE
  BY <1>2, <1>3, HexEncodeChars, Zenon
<1>5. \A x \in Chars(text) : x.upper = FALSE
  BY <1>4, SeqIsFunction, Zenon DEF Chars
<1>6. HexArrayDeserialize(text) = HexDecode(text)
  BY <1>4, <1>5, Zenon DEF HexArrayDeserialize
<1> QED
  BY <1>2, <1>3, <1>4, <1>6, HexRoundTrip, Zenon

(* hex_array::deserialize accepts exactly the canonical texts of a PeerId, *)
(* and yields the PeerId they are a text of.                               *)
LEMMA HexAccepts ==
  ASSUME NEW S, NEW text \in Seq(S)
  PROVE  /\ IsOk(HexArrayDeserialize(text)) <=> text \in IdTexts
         /\ IsOk(HexArrayDeserialize(text)) =>
              \E p \in [1 .. IdLen -> Byte] :
                HexArrayDeserialize(text) = Decoded(p) /\ HexEncode(p) = text
<1>1. text \in IdTexts => IsOk(HexArrayDeserialize(text))
  BY HexArrayRoundTrip, ResultsDiffer, Zenon DEF IdTexts
<1>2. ASSUME IsOk(HexArrayDeserialize(text))
      PROVE  \E p \in [1 .. IdLen -> Byte] :
               HexArrayDeserialize(text) = Decoded(p) /\ HexEncode(p) = text
  <2>1. /\ Len(text) = 2 * IdLen
        /\ \A x \in Chars(text) : x \in HexChar => ~x.upper
        /\ HexArrayDeserialize(text) = HexDecode(text)
    BY <1>2, ResultsDiffer, Zenon DEF HexArrayDeserialize
  <2>2. Chars(text) \subseteq HexChar
    BY <1>2, <2>1, ResultsDiffer, Zenon DEF HexDecode
  <2>3. IdLen \in Nat
    BY CodecAssumption, Zenon
  <2>4. DOMAIN text = 1 .. 2 * IdLen
    BY <2>1, SeqIsFunction, Zenon
  <2>5. \A i \in 1 .. 2 * IdLen : text[i] \in HexChar /\ ~text[i].upper
    BY <2>1, <2>2, <2>4, Zenon DEF Chars
  <2>6. text \in Seq(HexChar)
    <3>1. text = [i \in 1 .. 2 * IdLen |-> text[i]]
      BY <2>1, SeqIsFunction, Zenon
    <3>2. text \in [1 .. 2 * IdLen -> HexChar] /\ 2 * IdLen \in Nat
      BY <2>3, <2>5, <3>1
    <3> QED
      BY <3>2, FunctionIsSeq, Zenon
  <2> QED
    BY <2>1, <2>3, <2>5, <2>6, HexRoundTripBack, Zenon
<1> QED
  BY <1>1, <1>2, Zenon DEF IdTexts

-----------------------------------------------------------------------------
(* PeerId::from_hex gives p exactly for p's text in letters of either case.*)
LEMMA DigitField == \A d : [digit |-> d, upper |-> FALSE].digit = d
  BY Zenon

(* A byte is known by its digits, and so are bytes.                        *)
LEMMA SameDigits ==
  ASSUME NEW n \in Nat, NEW b \in [1 .. n -> Byte], NEW p \in [1 .. n -> Byte],
         \A i \in 1 .. n : b[i] \div Base = p[i] \div Base /\ b[i] % Base = p[i] % Base
  PROVE  b = p
<1>1. ASSUME NEW i \in 1 .. n PROVE b[i] = p[i]
  <2>1. b[i] \in Byte /\ p[i] \in Byte
    BY Zenon
  <2>2. /\ b[i] = (b[i] \div Base) * Base + (b[i] % Base)
        /\ p[i] = (p[i] \div Base) * Base + (p[i] % Base)
    BY <2>1, DigitsOfByte, Zenon
  <2>3. PICK d, e : d = b[i] \div Base /\ e = b[i] % Base
    BY Zenon
  <2>4. b[i] = d * Base + e /\ p[i] = d * Base + e
    BY <2>2, <2>3, Zenon
  <2> QED
    BY <2>4, Zenon
<1> QED
  BY <1>1

(* PeerId::from_hex yields a PeerId exactly for that one's text in letters *)
(* of either case.                                                         *)
LEMMA FromHexIffLower ==
  ASSUME NEW S, NEW text \in Seq(S), NEW p \in [1 .. IdLen -> Byte]
  PROVE  FromHex(text) = Decoded(p) <=> Lower(text) = HexEncode(p)
<1>0. IdLen \in Nat /\ 2 * IdLen \in Nat /\ (2 * IdLen) % 2 = 0
  BY CodecAssumption
<1>1. p \in Seq(Byte) /\ Len(p) = IdLen
  BY <1>0, FunctionIsSeq, Zenon
<1>2. PICK h : h = HexEncode(p)
  BY Zenon
<1>3. /\ h \in Seq(HexChar) /\ Len(h) = 2 * IdLen
      /\ \A i \in 1 .. IdLen :
           /\ h[2 * i - 1] = [digit |-> p[i] \div Base, upper |-> FALSE]
           /\ h[2 * i] = [digit |-> p[i] % Base, upper |-> FALSE]
  BY <1>1, <1>2, HexEncodeChars, Zenon
<1>4. DOMAIN h = 1 .. 2 * IdLen /\ h = [i \in 1 .. 2 * IdLen |-> h[i]]
  BY <1>3, SeqIsFunction, Zenon
<1>5. /\ DOMAIN text = 1 .. Len(text) /\ Len(text) \in Nat
      /\ text = [i \in 1 .. Len(text) |-> text[i]]
  BY SeqIsFunction, Zenon
<1>6. ASSUME Len(text) = 2 * IdLen, Chars(text) \subseteq HexChar
      PROVE  /\ text \in Seq(HexChar)
             /\ Lower(text) = [k \in 1 .. 2 * IdLen |-> [digit |-> text[k].digit, upper |-> FALSE]]
  <2>1. \A k \in 1 .. 2 * IdLen : text[k] \in HexChar
    BY <1>5, <1>6, Zenon DEF Chars
  <2>2. text \in [1 .. 2 * IdLen -> HexChar]
    BY <1>5, <1>6, <2>1, Zenon
  <2> QED
    BY <1>0, <1>5, <1>6, <2>1, <2>2, FunctionIsSeq, Zenon DEF Lower
<1>7. ASSUME FromHex(text) = Decoded(p) PROVE Lower(text) = h
  <2>1. HexDecode(text) = Decoded(p) /\ IsOk(HexDecode(text))
    BY <1>7, ResultsDiffer, Zenon DEF FromHex
  <2>2. Len(text) % 2 = 0 /\ Chars(text) \subseteq HexChar
    BY <2>1, ResultsDiffer, Zenon DEF HexDecode
  <2>3. PICK n \in Nat : Len(text) = 2 * n
    <3>1. \A m \in Nat : m % 2 = 0 => m \div 2 \in Nat /\ m = 2 * (m \div 2)
      OBVIOUS
    <3> QED
      BY <1>5, <2>2, <3>1, Zenon
  <2>4. text \in Seq(HexChar)
    <3>1. text \in [1 .. Len(text) -> HexChar]
      BY <1>5, <2>2, Zenon DEF Chars
    <3> QED
      BY <1>5, <3>1, FunctionIsSeq, Zenon
  <2>5. PICK b \in [1 .. n -> Byte] :
          /\ HexDecode(text) = Decoded(b)
          /\ \A i \in 1 .. n : /\ b[i] \div Base = text[2 * i - 1].digit
                               /\ b[i] % Base = text[2 * i].digit
    BY <2>3, <2>4, HexDecodeBytes, Zenon
  <2>6. b = p
    BY <2>1, <2>5, ResultsDiffer, Zenon
  <2>7. n = IdLen
    BY <1>1, <2>5, <2>6, FunctionIsSeq, Zenon
  <2>8. ASSUME NEW k \in 1 .. 2 * IdLen
        PROVE  h[k] = [digit |-> text[k].digit, upper |-> FALSE]
    <3>1. PICK i \in 1 .. IdLen : k = 2 * i - 1 \/ k = 2 * i
      BY <1>0, InPairs, Zenon
    <3> QED
      BY <1>3, <2>5, <2>6, <2>7, <3>1, Zenon
  <2> QED
    BY <1>4, <1>6, <2>2, <2>3, <2>7, <2>8, Zenon
<1>8. ASSUME Lower(text) = h PROVE FromHex(text) = Decoded(p)
  <2>1. DOMAIN text = 1 .. 2 * IdLen
    <3>1. DOMAIN Lower(text) = DOMAIN text
      BY Zenon DEF Lower
    <3> QED
      BY <1>4, <1>8, <3>1, Zenon
  <2>2. Len(text) = 2 * IdLen
    BY <1>0, <1>5, <2>1
  <2>3. Chars(text) \subseteq HexChar
    <3>1. ASSUME NEW k \in 1 .. 2 * IdLen, text[k] \notin HexChar PROVE FALSE
      <4>1. Lower(text)[k] = text[k]
        BY <2>1, <3>1, Zenon DEF Lower
      <4>2. h[k] \in HexChar
        BY <1>3, <3>1, SeqIsFunction, Zenon
      <4> QED
        BY <1>8, <3>1, <4>1, <4>2, Zenon
    <3> QED
      BY <2>1, <3>1, Zenon DEF Chars
  <2>4. PICK b \in [1 .. IdLen -> Byte] :
          /\ HexDecode(text) = Decoded(b)
          /\ \A i \in 1 .. IdLen : /\ b[i] \div Base = text[2 * i - 1].digit
                                   /\ b[i] % Base = text[2 * i].digit
    BY <1>0, <1>6, <2>2, <2>3, HexDecodeBytes, Zenon
  <2>5. \A k \in 1 .. 2 * IdLen : h[k].digit = text[k].digit
    <3>1. \A k \in 1 .. 2 * IdLen : h[k] = [digit |-> text[k].digit, upper |-> FALSE]
      BY <1>6, <1>8, <2>2, <2>3, Zenon
    <3> QED
      BY <3>1, DigitField, Zenon
  <2>6. \A i \in 1 .. IdLen : 2 * i - 1 \in 1 .. 2 * IdLen /\ 2 * i \in 1 .. 2 * IdLen
    BY <1>0
  <2>7. \A i \in 1 .. IdLen : h[2 * i - 1].digit = p[i] \div Base /\ h[2 * i].digit = p[i] % Base
    BY <1>3, DigitField, Zenon
  <2>8. b = p
    <3>1. \A i \in 1 .. IdLen : b[i] \div Base = p[i] \div Base /\ b[i] % Base = p[i] % Base
      BY <2>4, <2>5, <2>6, <2>7, Zenon
    <3> QED
      BY <1>0, <3>1, SameDigits, Zenon
  <2>9. Len(HexDecode(text).ok) = IdLen
    BY <1>1, <2>4, <2>8, ResultsDiffer, Zenon
  <2> QED
    BY <2>4, <2>8, <2>9, ResultsDiffer, Zenon DEF FromHex
<1> QED
  BY <1>2, <1>7, <1>8, Zenon
=============================================================================
