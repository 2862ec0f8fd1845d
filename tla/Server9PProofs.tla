--------------------------- MODULE Server9PProofs ---------------------------
(***************************************************************************)
(* Proofs about Server9P, for any number of fids, inodes and names, any    *)
(* depth of the tree, walks of any length and entries of any size.         *)
(*                                                                         *)
(* FidNamesItsFile and ListingIsConsistent are inductive together, once    *)
(* the listing of a fid is known to have ascending offsets and each name   *)
(* once, of which the client got a first part (Inv).  The rest is what     *)
(* happens to paths: join_path() and do_walk() never leave the root, and a *)
(* rename or a removal touches no path but those at or beneath the two     *)
(* that it is about, which no other fid of a careful client names.         *)
(***************************************************************************)
EXTENDS Server9P, FiniteSetTheorems, WellFoundedInduction, TLAPS

(* Induction over the natural numbers, for sets.                           *)
LEMMA NatSet ==
    ASSUME NEW S, 0 \in S, \A m \in Nat : m \in S => m + 1 \in S
    PROVE  Nat \subseteq S
<1> DEFINE Less == OpToRel(<, Nat)
           T == Nat \ S
<1>1. \A x, y \in Nat : y < x => <<y, x>> \in Less
  BY DEF OpToRel
<1>2. IsWellFoundedOn(Less, Nat)
  BY NatLessThanWellFounded, Zenon
<1> HIDE DEF Less
<1> SUFFICES ASSUME T # {} PROVE FALSE
  OBVIOUS
<1>3. PICK x \in T : \A y \in T : ~(<<y, x>> \in Less)
  BY <1>2, WFMin, Zenon
<1>4. x # 0 /\ x - 1 \in Nat /\ x - 1 < x
  BY <1>3
<1>5. x - 1 \notin T
  BY <1>1, <1>3, <1>4, Zenon
<1> QED
  BY <1>3, <1>4, <1>5

----------------------------------------------------------------------------
(* The walk along the names and the sum of the sizes of the entries, as    *)
(* one recursion: what follows from f[k - 1].                              *)
LoopStep(op, s, x, k) ==
    CASE op = "walk" -> WalkStep(x, s[k])
      [] op = "size" -> x + EntrySize[s[k]]

LoopBody(f, k, op, s, b) == IF k = 0 THEN b ELSE LoopStep(op, s, f[k - 1], k)

Loops(f, m, op, s, b) == f = [k \in 0 .. m |-> LoopBody(f, k, op, s, b)]

(* There is such a function, by induction on the number of rounds.         *)
LEMMA LoopExists ==
    ASSUME NEW op, NEW s, NEW b, NEW l \in Nat
    PROVE  \E f : Loops(f, l, op, s, b)
<1> DEFINE S == {m \in Nat : \E f : Loops(f, m, op, s, b)}
<1>0. \A f, g, k : f[k - 1] = g[k - 1] => LoopBody(f, k, op, s, b) = LoopBody(g, k, op, s, b)
  BY Zenon DEF LoopBody
<1>1. 0 \in S
  <2> DEFINE g == [k \in 0 .. 0 |-> b]
  <2>1. Loops(g, 0, op, s, b)
    BY DEF Loops, LoopBody
  <2> QED
    BY <2>1
<1>2. ASSUME NEW m \in Nat, m \in S PROVE m + 1 \in S
  <2>1. PICK f : Loops(f, m, op, s, b)
    BY <1>2
  <2> DEFINE g == [k \in 0 .. m + 1 |-> LoopBody(f, k, op, s, b)]
  <2>2. \A k \in 0 .. m : g[k] = f[k]
    BY <2>1 DEF Loops
  <2>3. \A k \in 0 .. m + 1 : LoopBody(f, k, op, s, b) = LoopBody(g, k, op, s, b)
    <3> TAKE k \in 0 .. m + 1
    <3>1. CASE k = 0
      BY <3>1 DEF LoopBody
    <3>2. CASE k # 0
      <4>1. k - 1 \in 0 .. m
        BY <3>2
      <4> QED
        BY <4>1, <2>2, <1>0, Zenon
    <3> QED
      BY <3>1, <3>2
  <2>4. Loops(g, m + 1, op, s, b)
    BY <2>3 DEF Loops
  <2> HIDE DEF g
  <2> QED
    BY <2>4
<1>3. l \in S
  <2> HIDE DEF S
  <2> QED
    BY <1>1, <1>2, NatSet
<1> QED
  BY <1>3

(* What the recursion computes, round by round.                            *)
Rounds(f, l, op, s, b) == f[0] = b /\ \A k \in 1 .. l : f[k] = LoopStep(op, s, f[k - 1], k)

(* Such a function is what the recursion computes, from round to round.    *)
LEMMA LoopRounds ==
    ASSUME NEW op, NEW s, NEW b, NEW l \in Nat, NEW f, Loops(f, l, op, s, b)
    PROVE  Rounds(f, l, op, s, b)
<1>1. \A k \in 0 .. l : f[k] = LoopBody(f, k, op, s, b)
  BY DEF Loops
<1> QED
  BY <1>1 DEF LoopBody, Rounds

(* do_walk() as rounds, a name each.                                       *)
LEMMA WalkRounds ==
    ASSUME NEW buf, NEW s, Len(s) \in Nat
    PROVE  \E f : Rounds(f, Len(s), "walk", s, buf) /\ do_walk(buf, s) = f[Len(s)]
<1> DEFINE P(f) == f = [k \in 0 .. Len(s) |-> IF k = 0 THEN buf ELSE WalkStep(f[k - 1], s[k])]
           K == CHOOSE f : P(f)
<1>1. do_walk(buf, s) = K[Len(s)]
  BY DEF do_walk
<1>2. \A f : P(f) <=> Loops(f, Len(s), "walk", s, buf)
  BY DEF Loops, LoopBody, LoopStep
<1>3. P(K)
  <2>1. \E f : P(f)
    BY <1>2, LoopExists, Zenon
  <2> HIDE DEF P
  <2> QED
    BY <2>1
<1>4. Rounds(K, Len(s), "walk", s, buf)
  <2> HIDE DEF P, K
  <2> QED
    BY <1>2, <1>3, LoopRounds
<1> QED
  BY <1>1, <1>4, Zenon

(* The offsets of Dirents() as a sum, entry by entry.                      *)
LEMMA DirentsRounds ==
    ASSUME NEW s, Len(s) \in Nat
    PROVE  \E f : /\ Rounds(f, Len(s), "size", s, 0)
                  /\ Dirents(s) = [i \in DOMAIN s |-> [name |-> s[i], offset |-> f[i]]]
<1> DEFINE P(f) == f = [k \in 0 .. Len(s) |-> IF k = 0 THEN 0 ELSE f[k - 1] + EntrySize[s[k]]]
           K == CHOOSE f : P(f)
<1>1. Dirents(s) = [i \in DOMAIN s |-> [name |-> s[i], offset |-> K[i]]]
  BY DEF Dirents
<1>2. \A f : P(f) <=> Loops(f, Len(s), "size", s, 0)
  BY DEF Loops, LoopBody, LoopStep
<1>3. P(K)
  <2>1. \E f : P(f)
    BY <1>2, LoopExists, Zenon
  <2> HIDE DEF P
  <2> QED
    BY <2>1
<1>4. Rounds(K, Len(s), "size", s, 0)
  <2> HIDE DEF P, K
  <2> QED
    BY <1>2, <1>3, LoopRounds
<1> QED
  BY <1>1, <1>4, Zenon

----------------------------------------------------------------------------
(* Paths: the root, then names.                                            *)
Paths(N) ==
    {p \in Seq(N \cup {"root"}) :
        Len(p) > 0 /\ p[1] = "root" /\ \A k \in 2 .. Len(p) : p[k] \in N}

(* Sequences that agree place by place are the same.                       *)
LEMMA SameSeq ==
    ASSUME NEW S, NEW s \in Seq(S), NEW t \in Seq(S), Len(s) = Len(t),
           \A k \in 1 .. Len(s) : s[k] = t[k]
    PROVE  s = t
OBVIOUS

(* Concatenation, place by place.                                          *)
LEMMA Concat ==
    ASSUME NEW S, NEW s \in Seq(S), NEW t \in Seq(S)
    PROVE  /\ s \o t \in Seq(S) /\ Len(s \o t) = Len(s) + Len(t)
           /\ \A k \in 1 .. Len(s) : (s \o t)[k] = s[k]
           /\ \A k \in 1 .. Len(t) : (s \o t)[Len(s) + k] = t[k]
<1>1. Len(s) \in Nat /\ Len(t) \in Nat
  OBVIOUS
<1> QED
  BY <1>1

(* The root is a path, and nothing is above it.                            *)
LEMMA RootPath ==
    ASSUME NEW N
    PROVE  Root \in Paths(N) /\ Front(Root) = <<>>
BY DEF Root, Paths, Front

(* Every path is at or beneath the root, and at or beneath itself.         *)
LEMMA PathPrefix ==
    ASSUME NEW N, NEW p \in Paths(N)
    PROVE  IsPrefix(Root, p) /\ IsPrefix(p, p) /\ Len(p) \in Nat
<1>1. Root \in Seq(N \cup {"root"}) /\ p \in Seq(N \cup {"root"}) /\ Len(Root) = 1 /\ Root[1] = "root"
  BY DEF Root, Paths
<1>2. \A k \in 1 .. 1 : Root[k] = p[k]
  BY <1>1 DEF Paths
<1> QED
  BY <1>1, <1>2 DEF Paths, IsPrefix

(* A path and a name make a path.                                          *)
LEMMA AppendPath ==
    ASSUME NEW N, NEW p \in Paths(N), NEW n \in N
    PROVE  Append(p, n) \in Paths(N)
<1> DEFINE u == Append(p, n)
<1>1. p \in Seq(N \cup {"root"}) /\ Len(p) > 0
  BY DEF Paths
<1>2. /\ u \in Seq(N \cup {"root"}) /\ Len(u) = Len(p) + 1
      /\ u[Len(p) + 1] = n /\ \A k \in 1 .. Len(p) : u[k] = p[k]
  BY <1>1
<1> HIDE DEF u
<1>3. \A k \in 2 .. Len(u) : u[k] \in N
  BY <1>1, <1>2 DEF Paths
<1>4. u[1] = "root"
  BY <1>1, <1>2 DEF Paths
<1>5. u \in Paths(N)
  BY <1>1, <1>2, <1>3, <1>4 DEF Paths
<1> QED
  BY <1>5 DEF u

(* Every path but the root has a parent.                                   *)
LEMMA FrontPath ==
    ASSUME NEW N, NEW p \in Paths(N), p # Root
    PROVE  Front(p) \in Paths(N)
<1>1. p \in Seq(N \cup {"root"}) /\ Len(p) > 0 /\ p[1] = "root"
  BY DEF Paths
<1>2. Len(p) > 1
  <2>1. Root \in Seq(N \cup {"root"}) /\ Len(Root) = 1 /\ Root[1] = "root"
    BY DEF Root
  <2>2. Len(p) = 1 => p = Root
    BY <1>1, <2>1, SameSeq
  <2> QED
    BY <1>1, <2>2
<1>3. /\ Front(p) \in Seq(N \cup {"root"}) /\ Len(Front(p)) = Len(p) - 1
      /\ \A k \in 1 .. Len(p) - 1 : Front(p)[k] = p[k]
  BY <1>1, <1>2 DEF Front
<1> QED
  BY <1>1, <1>2, <1>3 DEF Paths

(* What is beneath p, moved beneath q.                                     *)
LEMMA MovePath ==
    ASSUME NEW N, NEW p \in Paths(N), NEW q \in Paths(N), NEW r \in Paths(N), Len(p) <= Len(r)
    PROVE  q \o SubSeq(r, Len(p) + 1, Len(r)) \in Paths(N)
<1> DEFINE t == SubSeq(r, Len(p) + 1, Len(r))
           u == q \o t
           S == N \cup {"root"}
<1>1. p \in Seq(S) /\ q \in Seq(S) /\ r \in Seq(S) /\ Len(p) > 0 /\ Len(q) > 0
  BY DEF Paths
<1>2. t \in Seq(S) /\ Len(t) = Len(r) - Len(p) /\ \A k \in 1 .. Len(t) : t[k] = r[Len(p) + k]
  BY <1>1
<1>3. \A k \in 1 .. Len(t) : t[k] \in N
  BY <1>1, <1>2 DEF Paths
<1> HIDE DEF t, S
<1>4. /\ u \in Seq(S) /\ Len(u) = Len(q) + Len(t) /\ \A k \in 1 .. Len(q) : u[k] = q[k]
      /\ \A k \in 1 .. Len(t) : u[Len(q) + k] = t[k]
  <2>1. q \in Seq(S) /\ t \in Seq(S)
    BY <1>1, <1>2, Zenon
  <2>2. /\ q \o t \in Seq(S) /\ Len(q \o t) = Len(q) + Len(t)
        /\ \A k \in 1 .. Len(q) : (q \o t)[k] = q[k]
        /\ \A k \in 1 .. Len(t) : (q \o t)[Len(q) + k] = t[k]
    BY <2>1, Concat
  <2> QED
    BY <2>2
<1> HIDE DEF u
<1>5. ASSUME NEW k \in 2 .. Len(u) PROVE u[k] \in N
  <2>1. CASE k <= Len(q)
    BY <2>1, <1>4, <1>1 DEF Paths
  <2>2. CASE k > Len(q)
    <3>1. k - Len(q) \in 1 .. Len(t) /\ Len(q) + (k - Len(q)) = k
      BY <2>2, <1>1, <1>2, <1>4
    <3> QED
      BY <3>1, <1>3, <1>4, Zenon
  <2> QED
    BY <2>1, <2>2, <1>1, <1>4
<1>6. u[1] = "root"
  BY <1>1, <1>4 DEF Paths
<1>7. u \in Paths(N)
  BY <1>1, <1>2, <1>4, <1>5, <1>6 DEF Paths, S
<1> QED
  BY <1>7 DEF u, t

(* join_path() leads from a path to a path.                                *)
LEMMA JoinPath ==
    ASSUME NEW buf \in Paths(client.names), NEW name \in WName, join_path(buf, name) # None
    PROVE  join_path(buf, name) \in Paths(client.names)
<1>1. name # Bad
  BY Zenon DEF join_path, Empty, Bad, DotDot
<1>2. CASE name = Empty
  BY <1>2, Zenon DEF join_path, Empty, Bad, DotDot
<1>3. CASE name = DotDot
  BY <1>3, FrontPath DEF join_path, Empty, Bad, DotDot
<1>4. CASE name # Empty /\ name # DotDot
  <2>1. name \in client.names /\ join_path(buf, name) = Append(buf, name)
    BY <1>1, <1>4 DEF join_path, WName
  <2> QED
    BY <2>1, AppendPath
<1> QED
  BY <1>2, <1>3, <1>4

(* do_walk(): the path it arrives at, and if it went anywhere, it exists.  *)
LEMMA Walked ==
    ASSUME NEW buf \in Paths(client.names), NEW l \in Nat, NEW s \in [1 .. l -> WName],
           do_walk(buf, s) # None
    PROVE  /\ do_walk(buf, s) \in Paths(client.names)
           /\ s = <<>> => do_walk(buf, s) = buf
           /\ s # <<>> => Exists(do_walk(buf, s))
<1>0. Len(s) = l
  OBVIOUS
<1>1. PICK f : Rounds(f, l, "walk", s, buf) /\ do_walk(buf, s) = f[l]
  BY <1>0, WalkRounds
<1> DEFINE S == {k \in Nat : k <= l /\ f[k] # None => f[k] \in Paths(client.names) /\ (k > 0 => Exists(f[k]))}
<1>2. 0 \in S
  BY <1>1 DEF Rounds
<1>3. ASSUME NEW m \in Nat, m \in S PROVE m + 1 \in S
  <2> SUFFICES ASSUME m + 1 <= l, f[m + 1] # None
               PROVE  f[m + 1] \in Paths(client.names) /\ Exists(f[m + 1])
    OBVIOUS
  <2>1. f[m + 1] = WalkStep(f[m], s[m + 1])
    <3>1. m + 1 \in 1 .. l /\ (m + 1) - 1 = m
      OBVIOUS
    <3>2. f[m + 1] = LoopStep("walk", s, f[m], m + 1)
      BY <3>1, <1>1 DEF Rounds
    <3> QED
      BY <3>2 DEF LoopStep
  <2>2. s[m + 1] \in WName
    OBVIOUS
  <2>3. /\ f[m] # None /\ join_path(f[m], s[m + 1]) # None
        /\ f[m + 1] = join_path(f[m], s[m + 1]) /\ Exists(f[m + 1])
    BY <2>1, Zenon DEF WalkStep
  <2>4. f[m] \in Paths(client.names)
    BY <1>3, <2>3
  <2> QED
    BY <2>2, <2>3, <2>4, JoinPath
<1>4. l \in S
  <2> HIDE DEF S
  <2> QED
    BY <1>2, <1>3, NatSet
<1>5. s = <<>> => l = 0
  BY <1>0
<1>6. s # <<>> => l > 0
  OBVIOUS
<1>7. s = <<>> => do_walk(buf, s) = buf
  BY <1>1, <1>5 DEF Rounds
<1> QED
  BY <1>1, <1>4, <1>6, <1>7

----------------------------------------------------------------------------
(* Finite images of finite sets.                                           *)
LEMMA ImageFinite ==
    ASSUME NEW S, IsFiniteSet(S), NEW f
    PROVE  IsFiniteSet({f[x] : x \in S})
<1> DEFINE T == {f[x] : x \in S}
           g == [x \in S |-> f[x]]
<1>1. g \in [S -> T] /\ \A t \in T : \E x \in S : g[x] = t
  OBVIOUS
<1> HIDE DEF T, g
<1>2. g \in Surjection(S, T)
  BY <1>1 DEF Surjection
<1>3. IsFiniteSet(T)
  BY <1>2, FS_Surjection
<1> QED
  BY <1>3 DEF T

(* The host's tree: finitely many paths, and the place above the root.     *)
Tree(a, N) == IsFiniteSet(DOMAIN a) /\ DOMAIN a \subseteq Paths(N) \cup {<<>>}

(* b differs from a at p alone, which a does not have.                     *)
Extends(b, a, p, ino) ==
    /\ DOMAIN b = DOMAIN a \cup {p} /\ b[p] = ino
    /\ \A x \in DOMAIN a : x # p => b[x] = a[x]

(* A path that is created.                                                 *)
LEMMA CreatedTree ==
    ASSUME NEW N, NEW a, Tree(a, N), NEW p \in Paths(N), NEW ino, NEW b, b = Insert(a, p, ino)
    PROVE  Tree(b, N) /\ Extends(b, a, p, ino)
<1>1. b = [x \in DOMAIN a \cup {p} |-> IF x = p THEN ino ELSE a[x]]
  BY DEF Insert
<1>2. Extends(b, a, p, ino)
  BY <1>1 DEF Extends
<1>3. IsFiniteSet(DOMAIN b)
  BY <1>2, FS_AddElement DEF Tree, Extends
<1> QED
  BY <1>2, <1>3 DEF Tree, Extends

(* A path that is removed.                                                 *)
LEMMA UnlinkedTree ==
    ASSUME NEW N, Tree(at, N), NEW p
    PROVE  /\ Tree(Unlinked(p), N) /\ DOMAIN Unlinked(p) = DOMAIN at \ {p}
           /\ \A x \in DOMAIN at : x # p => Unlinked(p)[x] = at[x]
<1>1. Unlinked(p) = [x \in DOMAIN at \ {p} |-> at[x]]
  BY DEF Unlinked, Restrict
<1>2. IsFiniteSet(DOMAIN at \ {p})
  BY FS_RemoveElement DEF Tree
<1> QED
  BY <1>1, <1>2 DEF Tree

(* A rename moves what is at p to q, and touches nothing outside p and q.  *)
LEMMA RenamedTree ==
    ASSUME NEW N, Tree(at, N), NEW p \in Paths(N), NEW q \in Paths(N), Exists(p)
    PROVE  /\ Tree(Renamed(p, q), N)
           /\ q \in DOMAIN Renamed(p, q) /\ Renamed(p, q)[q] = at[p]
           /\ \A x \in DOMAIN at \cap Paths(N) :
                 ~IsPrefix(p, x) /\ ~IsPrefix(q, x) => /\ x \in DOMAIN Renamed(p, q)
                                                       /\ Renamed(p, q)[x] = at[x]
<1> DEFINE back(r) == IF IsPrefix(q, r) THEN p \o SubSeq(r, Len(q) + 1, Len(r)) ELSE r
           move == [r \in Beneath(p) |-> q \o SubSeq(r, Len(p) + 1, Len(r))]
           new == {move[r] : r \in Beneath(p)}
           D == (DOMAIN at \ Beneath(p)) \cup new
<1>0. /\ p \in Seq(N \cup {"root"}) /\ q \in Seq(N \cup {"root"})
      /\ Len(p) \in Nat /\ Len(q) \in Nat /\ Len(p) > 0
  BY DEF Paths
<1>1. CASE SameFile(p, q)
  BY <1>1 DEF Renamed, SameFile, Exists
<1>2. CASE ~SameFile(p, q)
  <2>1. Renamed(p, q) = [r \in D |-> at[back(r)]]
    BY <1>2, Zenon DEF Renamed
  <2>2. Beneath(p) \subseteq Paths(N) /\ \A r \in Beneath(p) : Len(p) <= Len(r)
    <3>1. \A r \in Beneath(p) : Len(p) <= Len(r) /\ r \in DOMAIN at
      BY DEF Beneath, IsPrefix
    <3>2. Len(<<>>) = 0
      OBVIOUS
    <3> QED
      BY <1>0, <3>1, <3>2 DEF Tree
  <2>3. new \subseteq Paths(N)
    BY <2>2, MovePath, ZenonT(40)
  <2>4. IsFiniteSet(D)
    <3>1. IsFiniteSet(Beneath(p)) /\ IsFiniteSet(DOMAIN at \ Beneath(p))
      BY FS_Subset DEF Tree, Beneath
    <3>2. IsFiniteSet(new)
      <4> HIDE DEF move
      <4> QED
        BY <3>1, ImageFinite
    <3> HIDE DEF new
    <3> QED
      BY <3>1, <3>2, FS_Union, Zenon
  <2>5. q \in D /\ back(q) = p
    <3>1. IsPrefix(p, p) /\ IsPrefix(q, q)
      BY PathPrefix
    <3>2. p \in Beneath(p)
      BY <3>1 DEF Beneath, Exists
    <3>3. SubSeq(p, Len(p) + 1, Len(p)) = <<>> /\ SubSeq(q, Len(q) + 1, Len(q)) = <<>>
      BY <1>0
    <3>4. p \o <<>> = p /\ q \o <<>> = q
      BY <1>0
    <3>5. move[p] = q
      BY <3>2, <3>3, <3>4, Zenon
    <3> QED
      BY <3>1, <3>2, <3>3, <3>4, <3>5, Zenon
  <2>6. ASSUME NEW x \in DOMAIN at, ~IsPrefix(p, x), ~IsPrefix(q, x) PROVE x \in D /\ back(x) = x
    BY <2>6 DEF Beneath
  <2> HIDE DEF D, back, new
  <2>7. D \subseteq Paths(N) \cup {<<>>}
    BY <2>3 DEF D, Tree
  <2> QED
    BY <2>1, <2>4, <2>5, <2>6, <2>7 DEF Tree
<1> QED
  BY <1>1, <1>2

----------------------------------------------------------------------------
(* What is kept of a fid.                                                  *)
Entry(N) == [name : N, offset : Nat]
FidRec(N, i, h) ==
    [path : Paths(N), ino : {i}, dir : BOOLEAN, file : {h}, dirents : Seq(Entry(N)) \cup {None},
     got : Seq(Entry(N)), snap : SUBSET N, over : BOOLEAN, room : Nat]
IsFid(r, N) == r \in FidRec(N, r.ino, r.file)

(* The fid of a careful client (c) stands for one file of the tree a with  *)
(* directories d.                                                          *)
Named(r, a, d, c) ==
    c => /\ r.path \in DOMAIN a /\ a[r.path] = r.ino
         /\ r.dir <=> a[r.path] \in d
         /\ r.file \in {None, r.ino}

(* The entries d of a listing of the names S, with the offsets of their    *)
(* ends.                                                                   *)
Begin(d, i) == IF i = 1 THEN 0 ELSE d[i - 1].offset
Listing(d, S, N) ==
    /\ d \in Seq(Entry(N))
    /\ \A i \in 1 .. Len(d) : d[i].offset = Begin(d, i) + EntrySize[d[i].name]
    /\ \A i, j \in 1 .. Len(d) : i < j => d[i].offset < d[j].offset
    /\ \A i, j \in 1 .. Len(d) : d[i].name = d[j].name => i = j
    /\ S = {d[i].name : i \in 1 .. Len(d)}

(* The client got the first entries, and all if a reply was empty that had *)
(* room for the next.                                                      *)
Short(r) == EntrySize[r.dirents[Len(r.got) + 1].name] > r.room
Listed(r, N) ==
    \/ r.dirents = None /\ r.got = <<>> /\ ~r.over
    \/ /\ Listing(r.dirents, r.snap, N)
       /\ Len(r.got) <= Len(r.dirents) /\ \A k \in 1 .. Len(r.got) : r.got[k] = r.dirents[k]
       /\ r.over => Len(r.got) = Len(r.dirents) \/ Short(r)

GoodFid(r, a, d, v) == IsFid(r, v.names) /\ Named(r, a, d, v.careful) /\ Listed(r, v.names)

Inv ==
    /\ client \in Client
    /\ Tree(at, client.names)
    /\ DOMAIN fids \subseteq Fid
    /\ \A f \in DOMAIN fids : GoodFid(fids[f], at, dirs, client)

(* The message size leaves room for entries.                               *)
SizeInv == msize \in Nat /\ msize - ReadHeader \in Nat

(* The invariant of the next state, from its parts.                        *)
LEMMA NextInv ==
    ASSUME client' = client, client \in Client, Tree(at', client.names), DOMAIN fids' \subseteq Fid,
           \A f \in DOMAIN fids' : GoodFid(fids'[f], at', dirs', client)
    PROVE  Inv'
BY Zenon DEF Inv

(* A fid in the table.                                                     *)
LEMMA InsertGood ==
    ASSUME NEW m, NEW f \in Fid, NEW r, NEW a, NEW d, NEW v, DOMAIN m \subseteq Fid, GoodFid(r, a, d, v),
           \A g \in DOMAIN m : g # f => GoodFid(m[g], a, d, v)
    PROVE  /\ DOMAIN Insert(m, f, r) \subseteq Fid
           /\ \A g \in DOMAIN Insert(m, f, r) : GoodFid(Insert(m, f, r)[g], a, d, v)
<1>1. /\ DOMAIN Insert(m, f, r) = DOMAIN m \cup {f} /\ Insert(m, f, r)[f] = r
      /\ \A g \in DOMAIN m : g # f => Insert(m, f, r)[g] = m[g]
  BY Zenon DEF Insert
<1> QED
  BY <1>1, Zenon

(* A fid that leaves the table.                                            *)
LEMMA RestrictGood ==
    ASSUME NEW m, NEW f, NEW a, NEW d, NEW v, DOMAIN m \subseteq Fid,
           \A g \in DOMAIN m : g # f => GoodFid(m[g], a, d, v)
    PROVE  /\ DOMAIN Restrict(m, DOMAIN m \ {f}) \subseteq Fid
           /\ \A g \in DOMAIN Restrict(m, DOMAIN m \ {f}) : GoodFid(Restrict(m, DOMAIN m \ {f})[g], a, d, v)
<1>1. /\ DOMAIN Restrict(m, DOMAIN m \ {f}) = DOMAIN m \ {f}
      /\ \A g \in DOMAIN m \ {f} : Restrict(m, DOMAIN m \ {f})[g] = m[g]
  BY Zenon DEF Restrict
<1> QED
  BY <1>1, Zenon

(* A new fid has no open file and no listing.                              *)
LEMMA NewFidGood ==
    ASSUME NEW p, NEW i, NEW b \in BOOLEAN, NEW a, NEW d, NEW v, p \in Paths(v.names),
           v.careful => p \in DOMAIN a /\ a[p] = i /\ (b <=> a[p] \in d)
    PROVE  GoodFid(NewFid(p, i, b), a, d, v)
<1> DEFINE r == NewFid(p, i, b)
<1>1. /\ r.path = p /\ r.ino = i /\ r.dir = b /\ r.file = None /\ r.dirents = None
      /\ r.got = <<>> /\ r.over = FALSE /\ r.room = 0
  BY DEF NewFid
<1>2. <<>> \in Seq(Entry(v.names)) /\ {} \in SUBSET v.names
  OBVIOUS
<1>3. IsFid(r, v.names)
  BY <1>1, <1>2 DEF IsFid, FidRec, NewFid
<1> HIDE DEF r
<1>4. Named(r, a, d, v.careful) /\ Listed(r, v.names)
  BY <1>1 DEF Named, Listed
<1>5. GoodFid(r, a, d, v)
  BY <1>3, <1>4 DEF GoodFid
<1> QED
  BY <1>5 DEF r

(* A fid with another path, inode, kind and open file.                     *)
LEMMA FieldsGood ==
    ASSUME NEW r, NEW v, IsFid(r, v.names), Listed(r, v.names),
           NEW p \in Paths(v.names), NEW i, NEW b \in BOOLEAN, NEW h, NEW a, NEW d,
           v.careful => p \in DOMAIN a /\ a[p] = i /\ (b <=> a[p] \in d) /\ h \in {None, i}
    PROVE  GoodFid([r EXCEPT !.path = p, !.ino = i, !.dir = b, !.file = h], a, d, v)
<1> DEFINE n == [r EXCEPT !.path = p, !.ino = i, !.dir = b, !.file = h]
<1>1. /\ n.path = p /\ n.ino = i /\ n.dir = b /\ n.file = h /\ n.dirents = r.dirents
      /\ n.got = r.got /\ n.snap = r.snap /\ n.over = r.over /\ n.room = r.room
  BY DEF IsFid, FidRec
<1>2. n \in FidRec(v.names, i, h)
  BY Zenon DEF IsFid, FidRec
<1> HIDE DEF n
<1>3. IsFid(n, v.names)
  BY <1>1, <1>2, Zenon DEF IsFid
<1>4. Listed(n, v.names)
  BY <1>1, Zenon DEF Listed, Short
<1>5. Named(n, a, d, v.careful)
  BY <1>1 DEF Named
<1>6. GoodFid(n, a, d, v)
  BY <1>3, <1>4, <1>5, Zenon DEF GoodFid
<1> QED
  BY <1>6 DEF n

(* A fid whose path is left alone.                                         *)
LEMMA Stays ==
    ASSUME NEW r, NEW a, NEW d, NEW b, NEW e, NEW v, GoodFid(r, a, d, v),
           v.careful /\ r.path \in DOMAIN a =>
               r.path \in DOMAIN b /\ b[r.path] = a[r.path] /\ (a[r.path] \in e <=> a[r.path] \in d)
    PROVE  GoodFid(r, b, e, v)
<1>1. Named(r, a, d, v.careful) => Named(r, b, e, v.careful)
  BY DEF Named
<1> QED
  BY <1>1 DEF GoodFid

----------------------------------------------------------------------------
(* At first there is no fid, and no path but the root and what it is in.   *)
LEMMA InitInv ==
    ASSUME Init PROVE Inv
<1>1. PICK ino \in Inode : client \in Client /\ fids = <<>>
          /\ at = [p \in {Root, Front(Root)} |-> IF p = Root THEN ino ELSE None]
  BY DEF Init
<1>2. DOMAIN at = {Root} \cup {<<>>}
  BY <1>1, RootPath
<1>3. IsFiniteSet({Root} \cup {<<>>})
  BY FS_Singleton, FS_AddElement, Zenon
<1>4. Tree(at, client.names)
  BY <1>2, <1>3, RootPath, Zenon DEF Tree
<1>5. DOMAIN fids = {}
  BY <1>1
<1> QED
  BY <1>1, <1>4, <1>5 DEF Inv

(* version() drops every fid.                                              *)
LEMMA VersionInv ==
    ASSUME Inv, client' = client, NEW size \in Nat, version(size) PROVE Inv'
<1>1. DOMAIN fids' = {} /\ at' = at
  BY DEF version
<1> QED
  BY <1>1, NextInv DEF Inv

(* attach() makes a fid for the root.                                      *)
LEMMA AttachInv ==
    ASSUME Inv, client' = client, NEW f \in Fid, attach(f) PROVE Inv'
<1> DEFINE r == NewFid(Root, at[Root], IsDir(Root))
<1>1. /\ at' = at /\ dirs' = dirs /\ fids' = Insert(fids, f, r) /\ Root \in DOMAIN at
      /\ IsDir(Root) \in BOOLEAN /\ (IsDir(Root) <=> at[Root] \in dirs)
  BY Zenon DEF attach, Exists, IsDir
<1>2. GoodFid(r, at, dirs, client)
  BY <1>1, RootPath, NewFidGood
<1> HIDE DEF r
<1>3. DOMAIN fids' \subseteq Fid /\ \A g \in DOMAIN fids' : GoodFid(fids'[g], at, dirs, client)
  BY <1>1, <1>2, InsertGood, Zenon DEF Inv
<1> QED
  BY <1>1, <1>3, NextInv, Zenon DEF Inv

(* walk(): the new fid names what was found at the end, or is a copy.      *)
LEMMA WalkInv ==
    ASSUME Inv, client' = client, NEW f \in Fid, NEW newfid \in Fid, NEW k \in Nat,
           NEW wnames \in [1 .. k -> WName], walk(f, newfid, wnames)
    PROVE  Inv'
<1> DEFINE p == do_walk(fids[f].path, wnames)
           r == IF wnames = <<>> THEN NewFid(p, fids[f].ino, fids[f].dir) ELSE NewFid(p, at[p], IsDir(p))
<1>1. /\ at' = at /\ dirs' = dirs /\ fids' = Insert(fids, newfid, r) /\ p # None /\ f \in DOMAIN fids
  BY Zenon DEF walk
<1>2. /\ GoodFid(fids[f], at, dirs, client) /\ fids[f].path \in Paths(client.names)
      /\ fids[f].dir \in BOOLEAN
  BY <1>1 DEF Inv, GoodFid, IsFid, FidRec
<1>3. /\ p \in Paths(client.names) /\ (wnames = <<>> => p = fids[f].path)
      /\ wnames # <<>> => Exists(p)
  BY <1>1, <1>2, Walked
<1> HIDE DEF p
<1>4. GoodFid(r, at, dirs, client)
  <2>1. CASE wnames = <<>>
    <3>1. r = NewFid(fids[f].path, fids[f].ino, fids[f].dir)
      BY <1>3, <2>1
    <3>2. client.careful => /\ fids[f].path \in DOMAIN at /\ at[fids[f].path] = fids[f].ino
                            /\ fids[f].dir <=> at[fids[f].path] \in dirs
      BY <1>2 DEF GoodFid, Named
    <3> QED
      BY <3>1, <3>2, <1>2, NewFidGood
  <2>2. CASE wnames # <<>>
    <3>1. r = NewFid(p, at[p], IsDir(p)) /\ p \in DOMAIN at
      BY <1>3, <2>2 DEF Exists
    <3>2. IsDir(p) \in BOOLEAN /\ (IsDir(p) <=> at[p] \in dirs)
      BY <3>1, Zenon DEF IsDir, Exists
    <3> QED
      BY <3>1, <3>2, <1>3, NewFidGood
  <2> QED
    BY <2>1, <2>2
<1> HIDE DEF r
<1>5. DOMAIN fids' \subseteq Fid /\ \A g \in DOMAIN fids' : GoodFid(fids'[g], at, dirs, client)
  BY <1>1, <1>4, InsertGood, Zenon DEF Inv
<1> QED
  BY <1>1, <1>5, NextInv, Zenon DEF Inv

(* clunk() drops the fid.                                                  *)
LEMMA ClunkInv ==
    ASSUME Inv, client' = client, NEW f \in Fid, clunk(f) PROVE Inv'
<1>1. at' = at /\ dirs' = dirs /\ fids' = Restrict(fids, DOMAIN fids \ {f})
  BY DEF clunk
<1>2. DOMAIN fids' \subseteq Fid /\ \A g \in DOMAIN fids' : GoodFid(fids'[g], at, dirs, client)
  BY <1>1, RestrictGood, Zenon DEF Inv
<1> QED
  BY <1>1, <1>2, NextInv, Zenon DEF Inv

(* A fid that names nothing at or beneath p names what it did when p goes. *)
LEMMA UnlinkStays ==
    ASSUME Inv, NEW p, NEW g \in DOMAIN fids, client.careful => ~IsPrefix(p, fids[g].path)
    PROVE  GoodFid(fids[g], Unlinked(p), dirs, client)
<1>1. Tree(at, client.names) /\ GoodFid(fids[g], at, dirs, client)
  BY DEF Inv
<1>2. IsPrefix(fids[g].path, fids[g].path)
  BY <1>1, PathPrefix DEF GoodFid, IsFid, FidRec
<1>3. client.careful => fids[g].path # p
  BY <1>2
<1>4. /\ DOMAIN Unlinked(p) = DOMAIN at \ {p}
      /\ \A x \in DOMAIN at : x # p => Unlinked(p)[x] = at[x]
  BY <1>1, UnlinkedTree, Zenon
<1> QED
  BY <1>1, <1>3, <1>4, Stays

(* remove() drops the fid and what it names, which no other fid of a       *)
(* careful client names.                                                   *)
LEMMA RemoveInv ==
    ASSUME Inv, client' = client, NEW f \in Fid, remove(f) PROVE Inv'
<1> DEFINE p == fids[f].path
<1>1. /\ at' = at \/ at' = Unlinked(p)
      /\ dirs' = dirs /\ fids' = Restrict(fids, DOMAIN fids \ {f})
  BY DEF remove
<1>2. \A g \in DOMAIN fids : g # f /\ client.careful => ~IsPrefix(p, fids[g].path)
  BY DEF remove, Unshared
<1> HIDE DEF p
<1>3. Tree(at', client.names)
  BY <1>1, UnlinkedTree, ZenonT(40) DEF Inv
<1>4. \A g \in DOMAIN fids : g # f => GoodFid(fids[g], at', dirs, client)
  BY <1>1, <1>2, UnlinkStays, Zenon DEF Inv
<1>5. DOMAIN fids' \subseteq Fid /\ \A g \in DOMAIN fids' : GoodFid(fids'[g], at', dirs, client)
  BY <1>1, <1>4, RestrictGood, Zenon DEF Inv
<1> QED
  BY <1>1, <1>3, <1>5, NextInv, Zenon DEF Inv

(* unlink_at() removes a name that no fid of a careful client names.       *)
LEMMA UnlinkInv ==
    ASSUME Inv, client' = client, NEW f \in Fid, NEW name, NEW rd, unlink_at(f, name, rd) PROVE Inv'
<1> DEFINE p == join_path(fids[f].path, name)
<1>1. at' = Unlinked(p) /\ dirs' = dirs /\ fids' = fids
  BY DEF unlink_at
<1>2. \A g \in DOMAIN fids : client.careful => ~IsPrefix(p, fids[g].path)
  <2>1. \A g \in DOMAIN fids : g # None
    BY FidAssumption DEF Inv
  <2>2. Unshared(p, None)
    BY DEF unlink_at
  <2> HIDE DEF p
  <2> QED
    BY <2>1, <2>2, Zenon DEF Unshared
<1> HIDE DEF p
<1>3. Tree(at', client.names)
  BY <1>1, UnlinkedTree, Zenon DEF Inv
<1>4. \A g \in DOMAIN fids : GoodFid(fids[g], at', dirs, client)
  BY <1>1, <1>2, UnlinkStays, Zenon
<1> QED
  BY <1>1, <1>3, <1>4, NextInv, Zenon DEF Inv

(* A new path p, whose inode alone may become a directory or cease to be.  *)
LEMMA CreateStays ==
    ASSUME Inv, NEW p \in Paths(client.names), ~Exists(p), NEW ino, NEW e,
           \A x \in DOMAIN at : at[x] \in e <=> at[x] \in dirs, NEW g \in DOMAIN fids
    PROVE  GoodFid(fids[g], Insert(at, p, ino), e, client)
<1>1. Tree(at, client.names) /\ GoodFid(fids[g], at, dirs, client)
  BY DEF Inv
<1>2. Extends(Insert(at, p, ino), at, p, ino)
  BY <1>1, CreatedTree
<1>3. \A x \in DOMAIN at : x \in DOMAIN Insert(at, p, ino) /\ Insert(at, p, ino)[x] = at[x]
  BY <1>2 DEF Extends, Exists
<1> QED
  BY <1>1, <1>3, Stays

(* What a free inode is.                                                   *)
LEMMA FreeDirs ==
    ASSUME NEW ino \in FreeInode
    PROVE  /\ \A x \in DOMAIN at : at[x] \in dirs \ {ino} <=> at[x] \in dirs
           /\ \A x \in DOMAIN at : at[x] \in dirs \cup {ino} <=> at[x] \in dirs
<1>1. \A x \in DOMAIN at : at[x] # ino
  BY DEF FreeInode, Range
<1> QED
  BY <1>1

(* What the invariant says of one fid.                                     *)
LEMMA FidPath ==
    ASSUME Inv, NEW f \in DOMAIN fids
    PROVE  /\ fids[f].path \in Paths(client.names) /\ IsFid(fids[f], client.names)
           /\ GoodFid(fids[f], at, dirs, client) /\ Listed(fids[f], client.names)
BY DEF Inv, GoodFid, IsFid, FidRec

(* mkdir() makes a new path and a new inode.                               *)
LEMMA MkdirInv ==
    ASSUME Inv, client' = client, NEW f \in Fid, NEW name \in WName, mkdir(f, name) PROVE Inv'
<1> DEFINE p == join_path(fids[f].path, name)
<1>1. PICK ino \in FreeInode : at' = Insert(at, p, ino) /\ dirs' = dirs \cup {ino}
  BY DEF mkdir
<1>2. fids' = fids /\ p # None /\ ~Exists(p) /\ f \in DOMAIN fids
  BY DEF mkdir, CanCreate
<1>3. p \in Paths(client.names)
  BY <1>2, FidPath, JoinPath
<1> HIDE DEF p
<1>4. Tree(at', client.names)
  BY <1>1, <1>3, CreatedTree DEF Inv
<1>5. \A g \in DOMAIN fids : GoodFid(fids[g], at', dirs', client)
  <2>1. \A x \in DOMAIN at : at[x] \in dirs' <=> at[x] \in dirs
    BY <1>1, FreeDirs
  <2> QED
    BY <2>1, <1>1, <1>2, <1>3, CreateStays, Zenon
<1> QED
  BY <1>2, <1>4, <1>5, NextInv, Zenon DEF Inv

(* link() makes a new path for the inode of a fid.                         *)
LEMMA LinkInv ==
    ASSUME Inv, client' = client, NEW f \in Fid, NEW dfid \in Fid, NEW name \in WName,
           link(f, dfid, name)
    PROVE  Inv'
<1> DEFINE q == join_path(fids[dfid].path, name)
<1>1. /\ at' = Insert(at, q, at[fids[f].path]) /\ dirs' = dirs /\ fids' = fids
      /\ q # None /\ ~Exists(q) /\ dfid \in DOMAIN fids
  BY DEF link, CanCreate
<1>2. q \in Paths(client.names)
  BY <1>1, FidPath, JoinPath
<1> HIDE DEF q
<1>3. Tree(at', client.names)
  BY <1>1, <1>2, CreatedTree DEF Inv
<1>4. \A g \in DOMAIN fids : GoodFid(fids[g], at', dirs, client)
  BY <1>1, <1>2, CreateStays, Zenon
<1> QED
  BY <1>1, <1>3, <1>4, NextInv, Zenon DEF Inv

(* lcreate(): the fid names the new file from now on, and has it open.     *)
LEMMA LcreateInv ==
    ASSUME Inv, client' = client, NEW f \in Fid, NEW name \in WName, lcreate(f, name) PROVE Inv'
<1> DEFINE p == join_path(fids[f].path, name)
           r(ino) == [fids[f] EXCEPT !.path = p, !.ino = ino, !.dir = FALSE, !.file = ino]
<1>1. PICK ino \in FreeInode : at' = Insert(at, p, ino) /\ dirs' = dirs \ {ino}
                               /\ fids' = Insert(fids, f, r(ino))
  BY Zenon DEF lcreate
<1>2. p # None /\ ~Exists(p) /\ f \in DOMAIN fids
  BY DEF lcreate, CanCreate
<1>3. p \in Paths(client.names)
  BY <1>2, FidPath, JoinPath
<1> HIDE DEF p
<1>4. Tree(at', client.names) /\ Extends(at', at, p, ino)
  BY <1>1, <1>3, CreatedTree DEF Inv
<1>5. \A g \in DOMAIN fids : GoodFid(fids[g], at', dirs', client)
  <2>1. \A x \in DOMAIN at : at[x] \in dirs' <=> at[x] \in dirs
    BY <1>1, FreeDirs
  <2> QED
    BY <2>1, <1>1, <1>2, <1>3, CreateStays, Zenon
<1>6. GoodFid(r(ino), at', dirs', client)
  <2>1. p \in DOMAIN at' /\ at'[p] = ino /\ (FALSE <=> at'[p] \in dirs') /\ ino \in {None, ino}
    BY <1>1, <1>4 DEF Extends
  <2> QED
    BY <2>1, <1>2, <1>3, FidPath, FieldsGood, Zenon
<1> HIDE DEF r
<1>7. DOMAIN fids' \subseteq Fid /\ \A g \in DOMAIN fids' : GoodFid(fids'[g], at', dirs', client)
  BY <1>1, <1>5, <1>6, InsertGood, Zenon DEF Inv
<1> QED
  BY <1>4, <1>7, NextInv, Zenon DEF Inv

(* lopen() may create what the fid names, and opens it.                    *)
LEMMA LopenInv ==
    ASSUME Inv, client' = client, NEW f \in Fid, NEW create, NEW excl, NEW write,
           lopen(f, create, excl, write)
    PROVE  Inv'
<1> DEFINE p == fids[f].path
           opened(ino) == [fids[f] EXCEPT !.ino = ino, !.dir = ino \in dirs, !.file = ino]
           r(ino, b) == [fids[f] EXCEPT !.path = p, !.ino = ino, !.dir = b, !.file = ino]
<1>0. /\ f \in DOMAIN fids /\ p \in Paths(client.names) /\ IsFid(fids[f], client.names)
      /\ Listed(fids[f], client.names)
  BY FidPath, Zenon DEF lopen
<1>1. CASE /\ Exists(p) /\ fids' = Insert(fids, f, opened(at[p])) /\ UNCHANGED <<at, dirs>>
  <2>1. opened(at[p]) = r(at[p], at[p] \in dirs)
    BY <1>0, Zenon DEF IsFid, FidRec
  <2>2. p \in DOMAIN at /\ (at[p] \in dirs) \in BOOLEAN
    BY <1>1 DEF Exists
  <2>3. GoodFid(r(at[p], at[p] \in dirs), at, dirs, client)
    BY <1>0, <2>2, FieldsGood, Zenon
  <2> HIDE DEF r, opened, p
  <2>4. DOMAIN fids' \subseteq Fid /\ \A g \in DOMAIN fids' : GoodFid(fids'[g], at, dirs, client)
    BY <1>1, <2>1, <2>3, InsertGood, Zenon DEF Inv
  <2> QED
    BY <1>1, <2>4, NextInv, Zenon DEF Inv
<1>2. CASE /\ CanCreate(p)
           /\ \E ino \in FreeInode : /\ at' = Insert(at, p, ino)
                                     /\ dirs' = dirs \ {ino}
                                     /\ fids' = Insert(fids, f, [opened(ino) EXCEPT !.dir = FALSE])
  <2>1. PICK ino \in FreeInode : /\ at' = Insert(at, p, ino) /\ dirs' = dirs \ {ino}
                                 /\ fids' = Insert(fids, f, [opened(ino) EXCEPT !.dir = FALSE])
    BY <1>2, Zenon
  <2>2. ~Exists(p)
    BY <1>2 DEF CanCreate
  <2>3. [opened(ino) EXCEPT !.dir = FALSE] = r(ino, FALSE)
    BY <1>0, Zenon DEF IsFid, FidRec
  <2>4. Tree(at', client.names) /\ Extends(at', at, p, ino)
    BY <1>0, <2>1, CreatedTree DEF Inv
  <2>5. \A g \in DOMAIN fids : GoodFid(fids[g], at', dirs', client)
    <3>1. \A x \in DOMAIN at : at[x] \in dirs' <=> at[x] \in dirs
      BY <2>1, FreeDirs
    <3> QED
      BY <3>1, <1>0, <2>1, <2>2, CreateStays, Zenon
  <2>6. GoodFid(r(ino, FALSE), at', dirs', client)
    <3>1. p \in DOMAIN at' /\ at'[p] = ino /\ (FALSE <=> at'[p] \in dirs') /\ ino \in {None, ino}
      BY <2>1, <2>4 DEF Extends
    <3> QED
      BY <3>1, <1>0, FieldsGood, Zenon
  <2> HIDE DEF r, opened, p
  <2>7. DOMAIN fids' \subseteq Fid /\ \A g \in DOMAIN fids' : GoodFid(fids'[g], at', dirs', client)
    BY <2>1, <2>3, <2>5, <2>6, InsertGood, Zenon DEF Inv
  <2> QED
    BY <2>4, <2>7, NextInv, Zenon DEF Inv
<1> QED
  BY <1>1, <1>2, Zenon DEF lopen

(* get_attr() refreshes the metadata of the fid.                           *)
LEMMA GetAttrInv ==
    ASSUME Inv, client' = client, NEW f \in Fid, get_attr(f) PROVE Inv'
<1> DEFINE p == fids[f].path
           r == [fids[f] EXCEPT !.path = p, !.ino = at[p], !.dir = IsDir(p), !.file = fids[f].file]
<1>1. /\ at' = at /\ dirs' = dirs /\ p \in DOMAIN at /\ f \in DOMAIN fids
      /\ fids' = [fids EXCEPT ![f].ino = at[p], ![f].dir = IsDir(p)]
  BY DEF get_attr, Exists
<1>2. /\ p \in Paths(client.names) /\ IsFid(fids[f], client.names)
      /\ GoodFid(fids[f], at, dirs, client) /\ Listed(fids[f], client.names)
  BY <1>1, FidPath
<1>3. IsDir(p) \in BOOLEAN /\ (IsDir(p) <=> at[p] \in dirs)
  BY <1>1, Zenon DEF IsDir, Exists
<1>4. client.careful => fids[f].file \in {None, at[p]}
  BY <1>2 DEF GoodFid, Named
<1>5. GoodFid(r, at, dirs, client)
  BY <1>1, <1>2, <1>3, <1>4, FieldsGood, Zenon
<1>6. DOMAIN fids' = DOMAIN fids /\ \A g \in DOMAIN fids : g # f => fids'[g] = fids[g]
  BY <1>1
<1>7. fids'[f] = r
  BY <1>1, <1>2, Zenon DEF IsFid, FidRec
<1> HIDE DEF r
<1>8. \A g \in DOMAIN fids' : GoodFid(fids'[g], at, dirs, client)
  BY <1>5, <1>6, <1>7, Zenon DEF Inv
<1> QED
  BY <1>1, <1>6, <1>8, NextInv, Zenon DEF Inv

(* A fid that names nothing at or beneath p or q, when p is renamed to q.  *)
LEMMA RenameStays ==
    ASSUME Inv, NEW p \in Paths(client.names), NEW q \in Paths(client.names), Exists(p),
           NEW g \in DOMAIN fids,
           client.careful => ~IsPrefix(p, fids[g].path) /\ ~IsPrefix(q, fids[g].path)
    PROVE  GoodFid(fids[g], Renamed(p, q), dirs, client)
<1>1. Tree(at, client.names) /\ GoodFid(fids[g], at, dirs, client)
  BY DEF Inv
<1>2. fids[g].path \in Paths(client.names)
  BY FidPath
<1>3. client.careful /\ fids[g].path \in DOMAIN at =>
          /\ fids[g].path \in DOMAIN Renamed(p, q)
          /\ Renamed(p, q)[fids[g].path] = at[fids[g].path]
  BY <1>1, <1>2, RenamedTree
<1> QED
  BY <1>1, <1>3, Stays

(* rename_at() moves what no fid of a careful client names.                *)
LEMMA RenameAtInv ==
    ASSUME Inv, client' = client, NEW f \in Fid, NEW g \in Fid, NEW name \in WName, NEW to \in WName,
           rename_at(f, name, g, to)
    PROVE  Inv'
<1> DEFINE p == join_path(fids[f].path, name)
           q == join_path(fids[g].path, to)
<1>1. /\ at' = Renamed(p, q) /\ dirs' = dirs /\ fids' = fids /\ p # None /\ q # None
      /\ CanRename(p, q) /\ Unshared(p, None) /\ Unshared(q, None)
      /\ f \in DOMAIN fids /\ g \in DOMAIN fids
  BY DEF rename_at
<1>2. p \in Paths(client.names) /\ q \in Paths(client.names)
  BY <1>1, FidPath, JoinPath
<1> HIDE DEF p, q
<1>3. Exists(p)
  BY <1>1 DEF CanRename, SameFile
<1>4. \A h \in DOMAIN fids :
          client.careful => ~IsPrefix(p, fids[h].path) /\ ~IsPrefix(q, fids[h].path)
  <2>1. \A h \in DOMAIN fids : h # None
    BY FidAssumption DEF Inv
  <2> QED
    BY <1>1, <2>1, Zenon DEF Unshared
<1>5. Tree(at', client.names)
  BY <1>1, <1>2, <1>3, RenamedTree DEF Inv
<1>6. \A h \in DOMAIN fids : GoodFid(fids[h], at', dirs, client)
  BY <1>1, <1>2, <1>3, <1>4, RenameStays, Zenon
<1> QED
  BY <1>1, <1>5, <1>6, NextInv, Zenon DEF Inv

(* rename() moves what the fid names, and the fid with it.                 *)
LEMMA RenameInv ==
    ASSUME Inv, client' = client, NEW f \in Fid, NEW g \in Fid, NEW name \in WName,
           rename(f, g, name)
    PROVE  Inv'
<1> DEFINE p == fids[f].path
           q == join_path(fids[g].path, name)
           r == [fids[f] EXCEPT !.path = q, !.ino = fids[f].ino, !.dir = fids[f].dir, !.file = fids[f].file]
<1>1. /\ at' = Renamed(p, q) /\ dirs' = dirs /\ fids' = [fids EXCEPT ![f].path = q]
      /\ q # None /\ CanRename(p, q) /\ Unshared(p, f) /\ Unshared(q, f)
      /\ f \in DOMAIN fids /\ g \in DOMAIN fids
  BY DEF rename
<1>2. /\ p \in Paths(client.names) /\ q \in Paths(client.names) /\ IsFid(fids[f], client.names)
      /\ Listed(fids[f], client.names) /\ GoodFid(fids[f], at, dirs, client)
  BY <1>1, FidPath, JoinPath
<1> HIDE DEF q
<1>3. Exists(p)
  BY <1>1, Zenon DEF CanRename, SameFile
<1>4. Tree(at', client.names) /\ q \in DOMAIN at' /\ at'[q] = at[p]
  BY <1>1, <1>2, <1>3, RenamedTree DEF Inv
<1>5. GoodFid(r, at', dirs, client)
  <2>1. fids[f].dir \in BOOLEAN
    BY <1>2 DEF IsFid, FidRec
  <2>2. client.careful => /\ q \in DOMAIN at' /\ at'[q] = fids[f].ino
                          /\ fids[f].dir <=> at'[q] \in dirs
                          /\ fids[f].file \in {None, fids[f].ino}
    BY <1>2, <1>4 DEF GoodFid, Named
  <2> QED
    BY <1>2, <2>1, <2>2, FieldsGood, Zenon
<1>6. DOMAIN fids' = DOMAIN fids /\ \A h \in DOMAIN fids : h # f => fids'[h] = fids[h]
  BY <1>1
<1>7. fids'[f] = r
  BY <1>1, <1>2, Zenon DEF IsFid, FidRec
<1> HIDE DEF r, p
<1>8. \A h \in DOMAIN fids : h # f => GoodFid(fids[h], at', dirs, client)
  <2>1. \A h \in DOMAIN fids : h # f =>
            (client.careful => ~IsPrefix(p, fids[h].path) /\ ~IsPrefix(q, fids[h].path))
    BY <1>1, Zenon DEF Unshared
  <2> QED
    BY <1>1, <1>2, <1>3, <2>1, RenameStays, Zenon
<1>9. \A h \in DOMAIN fids' : GoodFid(fids'[h], at', dirs, client)
  BY <1>5, <1>6, <1>7, <1>8, Zenon
<1> QED
  BY <1>1, <1>4, <1>6, <1>9, NextInv, Zenon DEF Inv

----------------------------------------------------------------------------
(* A set of numbers up to l that is not empty has a greatest.              *)
LEMMA MaxIn ==
    ASSUME NEW l \in Nat, NEW T \in SUBSET (1 .. l), T # {}
    PROVE  Max(T) \in T /\ \A y \in T : y <= Max(T)
<1> DEFINE Has(U) == \E x \in U : \A y \in U : x >= y
           S == {n \in Nat : \A U \in SUBSET (1 .. n) : U # {} => Has(U)}
<1>1. 0 \in S
  <2>1. 1 .. 0 = {}
    OBVIOUS
  <2> QED
    BY <2>1, Zenon
<1>2. ASSUME NEW m \in Nat, m \in S PROVE m + 1 \in S
  <2> SUFFICES ASSUME NEW U \in SUBSET (1 .. m + 1), U # {} PROVE Has(U)
    OBVIOUS
  <2>1. CASE m + 1 \in U
    BY <2>1
  <2>2. CASE m + 1 \notin U
    BY <1>2, <2>2
  <2> QED
    BY <2>1, <2>2
<1>3. Has(T)
  <2>1. l \in S
    <3> HIDE DEF S
    <3> QED
      BY <1>1, <1>2, NatSet
  <2> QED
    BY <2>1
<1> QED
  BY <1>3, Zenon DEF Max

(* Sizes add up, from 0 and ever more.                                     *)
LEMMA SumGrows ==
    ASSUME NEW l \in Nat, NEW s, NEW f, Rounds(f, l, "size", s, 0),
           \A k \in 1 .. l : EntrySize[s[k]] \in Nat \ {0}
    PROVE  /\ \A k \in 0 .. l : f[k] \in Nat
           /\ \A i, j \in 0 .. l : i < j => f[i] < f[j]
<1>1. \A k \in 1 .. l : f[k] = f[k - 1] + EntrySize[s[k]]
  BY DEF Rounds, LoopStep
<1> DEFINE S == {n \in Nat : n <= l => \A i \in 0 .. n : f[i] \in Nat /\ (i < n => f[i] < f[n])}
<1>2. 0 \in S
  BY DEF Rounds
<1>3. ASSUME NEW m \in Nat, m \in S PROVE m + 1 \in S
  <2> SUFFICES ASSUME m + 1 <= l, NEW i \in 0 .. m + 1
               PROVE  f[i] \in Nat /\ (i < m + 1 => f[i] < f[m + 1])
    OBVIOUS
  <2>1. m + 1 \in 1 .. l /\ (m + 1) - 1 = m
    OBVIOUS
  <2>2. f[m + 1] = f[m] + EntrySize[s[m + 1]] /\ EntrySize[s[m + 1]] \in Nat \ {0}
    BY <1>1, <2>1
  <2>3. \A j \in 0 .. m : f[j] \in Nat /\ (j < m => f[j] < f[m])
    BY <1>3
  <2>4. f[m] \in Nat /\ f[m + 1] \in Nat /\ f[m] < f[m + 1]
    BY <2>2, <2>3
  <2>5. i = m + 1 \/ i = m \/ (i \in 0 .. m /\ i < m)
    OBVIOUS
  <2>6. CASE i \in 0 .. m /\ i < m
    <3>1. f[i] \in Nat /\ f[i] < f[m]
      BY <2>3, <2>6
    <3> QED
      BY <3>1, <2>4
  <2> QED
    BY <2>4, <2>5, <2>6
<1>4. Nat \subseteq S
  <2> HIDE DEF S
  <2> QED
    BY <1>2, <1>3, NatSet
<1>5. \A j \in 0 .. l : j \in S
  BY <1>4
<1> QED
  BY <1>5

(* The listing readdir() makes of the names S of a directory.              *)
LEMMA DirentsListing ==
    ASSUME NEW N, NEW S \in SUBSET N, IsFiniteSet(S), NEW s \in Orders(S),
           \A n \in N : EntrySize[n] \in Nat \ {0}
    PROVE  Listing(Dirents(s), S, N)
<1> DEFINE l == Cardinality(S)
           d == Dirents(s)
<1>1. /\ l \in Nat /\ s \in [1 .. l -> S] /\ \A i, j \in 1 .. l : s[i] = s[j] => i = j
      /\ \A n \in S : \E i \in 1 .. l : s[i] = n
  BY FS_CardinalityType DEF Orders, Bijection, Injection, Surjection, IsInjective
<1> HIDE DEF l
<1>2. Len(s) = l /\ DOMAIN s = 1 .. l
  BY <1>1
<1>3. PICK f : Rounds(f, l, "size", s, 0) /\ d = [i \in 1 .. l |-> [name |-> s[i], offset |-> f[i]]]
  BY <1>1, <1>2, DirentsRounds
<1>4. \A k \in 1 .. l : s[k] \in N /\ EntrySize[s[k]] \in Nat \ {0}
  BY <1>1
<1>5. /\ \A k \in 0 .. l : f[k] \in Nat
      /\ \A i, j \in 0 .. l : i < j => f[i] < f[j]
  BY <1>1, <1>3, <1>4, SumGrows
<1> HIDE DEF d
<1>6. d \in [1 .. l -> Entry(N)] /\ \A i \in 1 .. l : d[i].name = s[i] /\ d[i].offset = f[i]
  BY <1>3, <1>4, <1>5 DEF Entry
<1>7. d \in Seq(Entry(N)) /\ Len(d) = l
  BY <1>1, <1>6
<1>8. ASSUME NEW i \in 1 .. l PROVE d[i].offset = Begin(d, i) + EntrySize[d[i].name]
  <2>1. f[i] = f[i - 1] + EntrySize[s[i]]
    BY <1>3 DEF Rounds, LoopStep
  <2>2. f[0] = 0
    BY <1>3 DEF Rounds
  <2>3. CASE i = 1
    BY <2>1, <2>2, <2>3, <1>6 DEF Begin
  <2>4. CASE i # 1
    <3>1. i - 1 \in 1 .. l
      BY <2>4, <1>1
    <3>2. d[i - 1].offset = f[i - 1] /\ d[i].offset = f[i] /\ d[i].name = s[i]
      BY <3>1, <1>6
    <3> QED
      BY <3>2, <2>1, <2>4 DEF Begin
  <2> QED
    BY <2>3, <2>4
<1>9. \A i, j \in 1 .. l : i < j => d[i].offset < d[j].offset
  BY <1>5, <1>6
<1>10. \A i, j \in 1 .. l : d[i].name = d[j].name => i = j
  BY <1>1, <1>6
<1>11. S = {d[i].name : i \in 1 .. l}
  BY <1>1, <1>6
<1>12. Listing(d, S, N)
  BY <1>4, <1>6, <1>7, <1>8, <1>9, <1>10, <1>11 DEF Listing
<1> QED
  BY <1>12 DEF d

(* The minimum of two numbers is one of them.                              *)
LEMMA Lesser ==
    ASSUME NEW x \in Nat, NEW y \in Nat PROVE Min({x, y}) \in {x, y}
<1>1. CASE x <= y
  <2>1. x \in {x, y} /\ \A z \in {x, y} : x =< z
    BY <1>1
  <2> QED
    BY <2>1, Zenon DEF Min
<1>2. CASE y <= x
  <2>1. y \in {x, y} /\ \A z \in {x, y} : y =< z
    BY <1>2
  <2> QED
    BY <2>1, Zenon DEF Min
<1> QED
  BY <1>1, <1>2

(* An index after z is in the interval that starts at z, and is not z.     *)
LEMMA BeyondIn ==
    ASSUME NEW x, NEW y \in Nat, NEW z \in Nat, x \in 1 .. y, x > z
    PROVE  x \in z .. y /\ x # z
OBVIOUS

(* The entries that go into a reply: the next ones, and none only if there *)
(* are none or the next one is too large.                                  *)
LEMMA FittingNext ==
    ASSUME NEW N, NEW S, NEW d, Listing(d, S, N), NEW m \in 0 .. Len(d), NEW count \in Nat,
           \A n \in N : EntrySize[n] \in Nat \ {0}
    PROVE  \E k \in m .. Len(d) : /\ Fitting(d, Begin(d, m + 1), count) = SubSeq(d, m + 1, k)
                                  /\ k = m => m = Len(d) \/ EntrySize[d[m + 1].name] > count
<1> DEFINE offset == Begin(d, m + 1)
           rest == {i \in DOMAIN d : d[i].offset > offset}
           first == Min(rest)
           start == d[first].offset - EntrySize[d[first].name]
           fits == {i \in rest : d[i].offset - start <= count}
<1>1. /\ d \in Seq(Entry(N)) /\ DOMAIN d = 1 .. Len(d) /\ Len(d) \in Nat
      /\ \A i \in 1 .. Len(d) : d[i].offset \in Nat /\ d[i].name \in N
  <2>1. d \in Seq(Entry(N))
    BY DEF Listing
  <2>2. \A i \in 1 .. Len(d) : d[i] \in Entry(N)
    BY <2>1
  <2>3. \A e \in Entry(N) : e.offset \in Nat /\ e.name \in N
    BY DEF Entry
  <2> QED
    BY <2>1, <2>2, <2>3
<1>2. \A i \in 1 .. Len(d) : /\ EntrySize[d[i].name] \in Nat \ {0}
                             /\ d[i].offset = Begin(d, i) + EntrySize[d[i].name]
  BY <1>1 DEF Listing
<1>3. \A i \in 1 .. Len(d) : Begin(d, i) \in Nat /\ (i > 1 => Begin(d, i) = d[i - 1].offset)
  BY <1>1 DEF Begin
<1>4. \A i, j \in 1 .. Len(d) : i < j => d[i].offset < d[j].offset
  BY DEF Listing
<1>5. \A i \in 1 .. Len(d) : d[i].offset > offset <=> i > m
  <2> TAKE i \in 1 .. Len(d)
  <2>1. CASE m = 0
    <3>1. offset = 0
      BY <2>1 DEF Begin
    <3>2. d[i].offset > 0
      <4>1. /\ Begin(d, i) \in Nat /\ EntrySize[d[i].name] \in Nat \ {0}
            /\ d[i].offset = Begin(d, i) + EntrySize[d[i].name]
        BY <1>2, <1>3, Zenon
      <4> QED
        BY <4>1
    <3> QED
      BY <2>1, <3>1, <3>2
  <2>2. CASE m > 0
    <3>1. offset = d[m].offset /\ m \in 1 .. Len(d)
      BY <2>2, <1>1 DEF Begin
    <3>2. i < m \/ i = m \/ i > m
      BY <1>1
    <3> QED
      BY <3>1, <3>2, <1>1, <1>4
  <2> QED
    BY <2>1, <2>2
<1>6. rest = (m + 1) .. Len(d)
  BY <1>1, <1>5
<1>7. CASE m = Len(d)
  <2>1. fits = {}
    BY <1>6, <1>7
  <2>2. Fitting(d, offset, count) = <<>>
    BY <2>1 DEF Fitting
  <2>3. SubSeq(d, m + 1, m) = <<>>
    BY <1>1, <1>7
  <2>4. m \in m .. Len(d)
    BY <1>1
  <2> QED
    BY <2>2, <2>3, <2>4, <1>7, Zenon
<1>8. CASE m < Len(d)
  <2>1. m + 1 \in rest /\ \A y \in rest : m + 1 <= y
    BY <1>6, <1>8, <1>1
  <2>2. first = m + 1
    <3>1. \A x \in rest : (\A y \in rest : x =< y) => x = m + 1
      BY <2>1, <1>6, <1>1
    <3> HIDE DEF rest
    <3> QED
      BY <2>1, <3>1 DEF Min
  <2> HIDE DEF first, rest
  <2>3. start = offset
    <3>1. m + 1 \in 1 .. Len(d)
      BY <1>1, <1>8
    <3> QED
      BY <3>1, <2>2, <1>1, <1>2, <1>3
  <2>4. /\ offset \in Nat /\ EntrySize[d[m + 1].name] \in Nat \ {0}
        /\ d[m + 1].offset = offset + EntrySize[d[m + 1].name]
    <3>1. m + 1 \in 1 .. Len(d)
      BY <1>1, <1>8
    <3> QED
      BY <3>1, <1>2, <1>3, Zenon
  <2>5. CASE EntrySize[d[m + 1].name] > count
    <3>1. ASSUME NEW i \in rest PROVE ~(d[i].offset - start <= count)
      <4>1. i \in 1 .. Len(d) /\ d[i].offset \in Nat /\ (i = m + 1 \/ m + 1 < i) /\ m + 1 \in 1 .. Len(d)
        BY <1>1, <1>6, <1>8
      <4>2. d[i].offset >= d[m + 1].offset
        BY <4>1, <1>1, <1>4
      <4> HIDE DEF offset, start
      <4> QED
        BY <4>1, <4>2, <2>3, <2>4, <2>5
    <3>2. fits = {}
      BY <3>1, Zenon
    <3>3. Fitting(d, offset, count) = <<>>
      BY <3>2, Zenon DEF Fitting, fits, first, rest
    <3>4. SubSeq(d, m + 1, m) = <<>> /\ m \in m .. Len(d)
      <4> HIDE DEF offset, start, fits
      <4> QED
        BY <1>1
    <3> QED
      BY <3>3, <3>4, <2>5, Zenon
  <2>6. CASE ~(EntrySize[d[m + 1].name] > count)
    <3>1. m + 1 \in fits
      <4>1. d[m + 1].offset - offset <= count
        <5> HIDE DEF offset
        <5> QED
          BY <2>4, <2>6
      <4> HIDE DEF offset, start
      <4> QED
        BY <2>1, <2>3, <4>1
    <3>2. fits \in SUBSET (1 .. Len(d)) /\ \A i \in fits : i > m
      <4>1. fits \subseteq (m + 1) .. Len(d)
        BY <1>6, Zenon
      <4> HIDE DEF fits, offset, start
      <4>2. Len(d) \in Nat
        BY <1>1, Zenon
      <4>3. (m + 1) .. Len(d) \subseteq 1 .. Len(d) /\ \A i \in (m + 1) .. Len(d) : i > m
        BY <4>2
      <4> QED
        BY <4>1, <4>3, Zenon
    <3> HIDE DEF fits
    <3>3. Max(fits) \in fits
      BY <3>1, <3>2, <1>1, MaxIn, Zenon
    <3>4. Max(fits) \in m .. Len(d) /\ Max(fits) # m
      <4>1. Max(fits) \in 1 .. Len(d) /\ Max(fits) > m
        BY <3>2, <3>3, Zenon
      <4>2. Len(d) \in Nat /\ m \in Nat
        BY <1>1
      <4> QED
        BY <4>1, <4>2, BeyondIn, Zenon
    <3>5. Fitting(d, offset, count) = SubSeq(d, m + 1, Max(fits))
      BY <2>2, <3>1, Zenon DEF Fitting, fits, first, rest
    <3> QED
      BY <3>4, <3>5, Zenon
  <2> QED
    BY <2>5, <2>6, Zenon
<1>9. m = Len(d) \/ m < Len(d)
  <2> HIDE DEF offset, rest, first, start, fits
  <2>1. Len(d) \in Nat
    BY <1>1, Zenon
  <2> QED
    BY <2>1
<1> QED
  BY <1>7, <1>8, <1>9, Zenon

(* A piece of a sequence, place by place.                                  *)
LEMMA Piece ==
    ASSUME NEW S, NEW s \in Seq(S), NEW m \in Nat, NEW k \in m .. Len(s)
    PROVE  /\ SubSeq(s, m + 1, k) \in Seq(S) /\ Len(SubSeq(s, m + 1, k)) = k - m
           /\ \A j \in 1 .. k - m : SubSeq(s, m + 1, k)[j] = s[m + j]
<1>1. Len(s) \in Nat
  OBVIOUS
<1> QED
  BY <1>1

(* The entries new are the next ones after the first m of d.               *)
AreNext(new, d, m, N, count) ==
    \E k \in m .. Len(d) :
        /\ new \in Seq(Entry(N)) /\ Len(new) = k - m
        /\ \A j \in 1 .. k - m : new[j] = d[m + j]
        /\ k = m => m = Len(d) \/ EntrySize[d[m + 1].name] > count

(* The same for the listing of a fid, place by place.                      *)
LEMMA NextEntries ==
    ASSUME NEW r, NEW N, Listing(r.dirents, r.snap, N), NEW m, m \in 0 .. Len(r.dirents),
           NEW count \in Nat, \A n \in N : EntrySize[n] \in Nat \ {0},
           NEW new, new = Fitting(r.dirents, Begin(r.dirents, m + 1), count)
    PROVE  AreNext(new, r.dirents, m, N, count)
<1> DEFINE s == r.dirents
<1>1. s \in Seq(Entry(N)) /\ m \in Nat
  BY DEF Listing
<1> HIDE DEF s
<1>2. PICK k \in m .. Len(s) : /\ new = SubSeq(s, m + 1, k)
                               /\ k = m => m = Len(s) \/ EntrySize[s[m + 1].name] > count
  BY FittingNext, ZenonT(40) DEF s
<1>3. /\ SubSeq(s, m + 1, k) \in Seq(Entry(N)) /\ Len(SubSeq(s, m + 1, k)) = k - m
      /\ \A j \in 1 .. k - m : SubSeq(s, m + 1, k)[j] = s[m + j]
  BY <1>1, Piece
<1>4. /\ new \in Seq(Entry(N)) /\ Len(new) = k - m
      /\ \A j \in 1 .. k - m : new[j] = s[m + j]
      /\ k = m => m = Len(s) \/ EntrySize[s[m + 1].name] > count
  BY <1>2, <1>3, Zenon
<1>5. AreNext(new, s, m, N, count)
  BY <1>4, Zenon DEF AreNext
<1> QED
  BY <1>5, Zenon DEF s

(* The client gets the next entries of the listing.                        *)
LEMMA RepliedGood ==
    ASSUME NEW r, NEW a, NEW d, NEW v, IsFid(r, v.names), Named(r, a, d, v.careful),
           Listing(r.dirents, r.snap, v.names), Len(r.got) <= Len(r.dirents),
           \A k \in 1 .. Len(r.got) : r.got[k] = r.dirents[k],
           NEW count \in Nat, \A n \in v.names : EntrySize[n] \in Nat \ {0},
           NEW offset, offset = Begin(r.dirents, Len(r.got) + 1)
    PROVE  GoodFid(Replied(r, offset, count), a, d, v)
<1> DEFINE N == v.names
           m == Len(r.got)
           new == Fitting(r.dirents, offset, count)
           n == [r EXCEPT !.got = @ \o new, !.over = new = <<>>, !.room = count]
<1>1. r.got \in Seq(Entry(N)) /\ r.dirents \in Seq(Entry(N)) /\ m \in Nat /\ Len(r.dirents) \in Nat
  BY DEF IsFid, FidRec, Listing
<1>2. m \in 0 .. Len(r.dirents)
  BY <1>1
<1>3. AreNext(new, r.dirents, m, N, count)
  <2>1. new = Fitting(r.dirents, Begin(r.dirents, m + 1), count)
    OBVIOUS
  <2>2. Listing(r.dirents, r.snap, N) /\ \A x \in N : EntrySize[x] \in Nat \ {0}
    OBVIOUS
  <2> HIDE DEF m, n, new, N
  <2> QED
    BY <1>2, <2>1, <2>2, NextEntries, Zenon
<1> HIDE DEF new
<1>4. PICK k \in m .. Len(r.dirents) :
          /\ new \in Seq(Entry(N)) /\ Len(new) = k - m
          /\ \A j \in 1 .. k - m : new[j] = r.dirents[m + j]
          /\ k = m => m = Len(r.dirents) \/ EntrySize[r.dirents[m + 1].name] > count
  BY <1>3, Zenon DEF AreNext
<1>5. /\ n.path = r.path /\ n.ino = r.ino /\ n.dir = r.dir /\ n.file = r.file
      /\ n.dirents = r.dirents /\ n.snap = r.snap /\ n.got = r.got \o new /\ n.over = (new = <<>>)
      /\ n.room = count
  BY DEF IsFid, FidRec
<1>6. /\ r.got \o new \in Seq(Entry(N)) /\ Len(r.got \o new) = m + (k - m)
      /\ \A j \in 1 .. m : (r.got \o new)[j] = r.got[j]
      /\ \A j \in 1 .. k - m : (r.got \o new)[m + j] = new[j]
  BY <1>1, <1>4, Concat
<1>7. IsFid(n, N)
  <2>1. (new = <<>>) \in BOOLEAN
    OBVIOUS
  <2>2. n \in FidRec(N, r.ino, r.file)
    BY <1>6, <2>1, Zenon DEF IsFid, FidRec
  <2> QED
    BY <1>5, <2>2, Zenon DEF IsFid
<1> HIDE DEF n, N
<1>8. Len(n.got) = k /\ k <= Len(n.dirents)
  <2>1. Len(n.got) = m + (k - m) /\ Len(n.dirents) = Len(r.dirents)
    BY <1>5, <1>6, Zenon
  <2> HIDE DEF m
  <2> QED
    BY <2>1, <1>1, <1>4
<1>9. ASSUME NEW j \in 1 .. k PROVE n.got[j] = n.dirents[j]
  <2>1. CASE j <= m
    <3>1. j \in 1 .. m
      BY <1>1, <2>1
    <3> QED
      BY <3>1, <1>5, <1>6
  <2>2. CASE j > m
    <3>1. j - m \in 1 .. k - m /\ m + (j - m) = j
      BY <1>1, <2>2
    <3> QED
      BY <3>1, <1>4, <1>5, <1>6
  <2> QED
    BY <1>1, <2>1, <2>2
<1>10. n.over => k = Len(n.dirents) \/ Short(n)
  <2>1. new = <<>> => k = m
    BY <1>1, <1>4
  <2> QED
    BY <2>1, <1>4, <1>5, <1>8, Zenon DEF Short
<1>11. Listed(n, N)
  <2>1. Listing(n.dirents, n.snap, N)
    BY <1>5, Zenon DEF N
  <2> QED
    BY <2>1, <1>8, <1>9, <1>10 DEF Listed
<1>12. Named(n, a, d, v.careful)
  BY <1>5, Zenon DEF Named
<1>13. GoodFid(n, a, d, v)
  BY <1>7, <1>11, <1>12, Zenon DEF GoodFid, N
<1>14. Replied(r, offset, count) = n
  BY Zenon DEF Replied, n, new
<1> QED
  BY <1>13, <1>14, Zenon

(* The names in a directory.                                               *)
LEMMA NamesFinite ==
    ASSUME NEW N, Tree(at, N), NEW p \in Paths(N)
    PROVE  IsFiniteSet(NamesIn(p)) /\ NamesIn(p) \in SUBSET N
<1> DEFINE last == [q \in Children(p) |-> Last(q)]
<1>1. IsFiniteSet(Children(p))
  BY FS_Subset DEF Tree, Children
<1>2. NamesIn(p) = {last[q] : q \in Children(p)}
  BY DEF NamesIn
<1>3. \A q \in Children(p) : Last(q) \in N
  <2> TAKE q \in Children(p)
  <2>1. q \in DOMAIN at /\ Len(q) = Len(p) + 1 /\ Len(p) \in Nat /\ Len(p) > 0
    BY DEF Children, Paths
  <2>2. Len(<<>>) = 0
    OBVIOUS
  <2>3. q \in Paths(N)
    BY <2>1, <2>2 DEF Tree
  <2>4. Len(q) \in 2 .. Len(q)
    BY <2>1
  <2> QED
    BY <2>3, <2>4 DEF Paths, Last
<1>4. NamesIn(p) \in SUBSET N
  BY <1>3 DEF NamesIn
<1> HIDE DEF last
<1> QED
  BY <1>1, <1>2, <1>4, ImageFinite

(* What a reply has room for.                                              *)
LEMMA RoomNat ==
    ASSUME SizeInv, NEW count \in Count PROVE Room(count) \in Nat
<1>1. count \in Nat
  BY FidAssumption
<1>2. Room(count) \in {msize - ReadHeader, count}
  BY <1>1, Lesser DEF Room, SizeInv
<1> QED
  BY <1>1, <1>2 DEF SizeInv

(* readdir() at offset 0 makes the listing and returns its first entries.  *)
LEMMA ReaddirStartInv ==
    ASSUME Inv, SizeInv, client' = client, NEW f \in Fid, NEW count \in Count, readdir_start(f, count)
    PROVE  Inv'
<1> DEFINE S == NamesIn(fids[f].path)
           fid(s) == [fids[f] EXCEPT !.dirents = Dirents(s), !.got = <<>>, !.snap = S]
<1>1. PICK s \in Orders(S) : fids' = Insert(fids, f, Replied(fid(s), 0, Room(count)))
  BY Zenon DEF readdir_start
<1>2. f \in DOMAIN fids /\ at' = at /\ dirs' = dirs
  BY DEF readdir_start
<1>3. /\ fids[f].path \in Paths(client.names) /\ IsFid(fids[f], client.names)
      /\ Named(fids[f], at, dirs, client.careful)
  BY <1>2, FidPath DEF GoodFid
<1>4. IsFiniteSet(S) /\ S \in SUBSET client.names
  BY <1>3, NamesFinite DEF Inv
<1> HIDE DEF S
<1>5. Room(count) \in Nat
  BY RoomNat
<1>6. \A n \in client.names : EntrySize[n] \in Nat \ {0}
  BY ClientAssumption DEF Inv
<1>7. Listing(Dirents(s), S, client.names)
  BY <1>1, <1>4, <1>6, DirentsListing, Zenon
<1> DEFINE r == fid(s)
<1>8. /\ r.path = fids[f].path /\ r.ino = fids[f].ino /\ r.dir = fids[f].dir /\ r.file = fids[f].file
      /\ r.dirents = Dirents(s) /\ r.got = <<>> /\ r.snap = S
  BY <1>3 DEF IsFid, FidRec
<1>9. IsFid(r, client.names)
  <2>1. Dirents(s) \in Seq(Entry(client.names)) /\ <<>> \in Seq(Entry(client.names))
    BY <1>7 DEF Listing
  <2>2. r \in FidRec(client.names, fids[f].ino, fids[f].file)
    BY <1>3, <1>4, <2>1, Zenon DEF IsFid, FidRec
  <2> QED
    BY <1>8, <2>2, Zenon DEF IsFid
<1> HIDE DEF r
<1>10. GoodFid(Replied(r, 0, Room(count)), at, dirs, client)
  <2>1. Named(r, at, dirs, client.careful)
    BY <1>3, <1>8, Zenon DEF Named
  <2>2. Listing(r.dirents, r.snap, client.names)
    BY <1>7, <1>8, Zenon
  <2>3. Len(r.got) = 0 /\ Len(r.dirents) \in Nat
    BY <1>8, <2>2 DEF Listing
  <2>4. Len(r.got) <= Len(r.dirents) /\ \A k \in 1 .. Len(r.got) : r.got[k] = r.dirents[k]
    BY <2>3
  <2>5. 0 = Begin(r.dirents, Len(r.got) + 1)
    BY <2>3 DEF Begin
  <2> QED
    BY <1>5, <1>6, <1>9, <2>1, <2>2, <2>4, <2>5, RepliedGood, Zenon
<1>11. DOMAIN fids' \subseteq Fid /\ \A g \in DOMAIN fids' : GoodFid(fids'[g], at, dirs, client)
  BY <1>1, <1>10, InsertGood, Zenon DEF Inv, r
<1> QED
  BY <1>2, <1>11, NextInv, Zenon DEF Inv

(* readdir() at a later offset returns the next entries of the same        *)
(* listing.                                                                *)
LEMMA ReaddirNextInv ==
    ASSUME Inv, SizeInv, client' = client, NEW f \in Fid, NEW count \in Count, readdir_next(f, count)
    PROVE  Inv'
<1> DEFINE r == fids[f]
<1>1. /\ f \in DOMAIN fids /\ at' = at /\ dirs' = dirs /\ r.dirents # None /\ r.got # <<>>
      /\ fids' = Insert(fids, f, Replied(r, Last(r.got).offset, Room(count)))
  BY DEF readdir_next
<1>2. IsFid(r, client.names) /\ Named(r, at, dirs, client.careful) /\ Listed(r, client.names)
  BY <1>1, FidPath, Zenon DEF GoodFid
<1>3. Room(count) \in Nat /\ \A n \in client.names : EntrySize[n] \in Nat \ {0}
  BY RoomNat, ClientAssumption DEF Inv
<1> HIDE DEF r
<1>4. /\ Listing(r.dirents, r.snap, client.names) /\ Len(r.got) <= Len(r.dirents)
      /\ \A k \in 1 .. Len(r.got) : r.got[k] = r.dirents[k]
  BY <1>1, <1>2, Zenon DEF Listed
<1>5. Len(r.got) \in Nat /\ Len(r.got) > 0
  BY <1>1, <1>2 DEF IsFid, FidRec
<1>6. Last(r.got).offset = Begin(r.dirents, Len(r.got) + 1)
  <2>1. Last(r.got) = r.dirents[Len(r.got)]
    BY <1>4, <1>5 DEF Last
  <2> QED
    BY <2>1, <1>5 DEF Begin
<1>7. GoodFid(Replied(r, Last(r.got).offset, Room(count)), at, dirs, client)
  BY <1>2, <1>3, <1>4, <1>6, RepliedGood, Zenon
<1>8. DOMAIN fids' \subseteq Fid /\ \A g \in DOMAIN fids' : GoodFid(fids'[g], at, dirs, client)
  BY <1>1, <1>7, InsertGood, Zenon DEF Inv
<1> QED
  BY <1>1, <1>8, NextInv, Zenon DEF Inv

----------------------------------------------------------------------------
(* Every request preserves the invariant.                                  *)
LEMMA NextPreservesInv ==
    ASSUME Inv, SizeInv, [Next]_vars PROVE Inv'
<1>1. CASE UNCHANGED vars
  BY <1>1, Zenon DEF vars, Inv, Tree, GoodFid
<1>2. CASE Next
  <2>0. client' = client
    BY <1>2 DEF Next
  <2>1. ASSUME NEW size \in client.offers, version(size) PROVE Inv'
    <3>1. size \in Nat
      BY ClientAssumption DEF Inv
    <3> QED
      BY <2>0, <2>1, <3>1, VersionInv
  <2>2. ASSUME NEW f \in Fid, attach(f) PROVE Inv'
    BY <2>0, <2>2, AttachInv
  <2>3. ASSUME NEW f \in Fid, clunk(f) PROVE Inv'
    BY <2>0, <2>3, ClunkInv
  <2>4. ASSUME NEW f \in Fid, remove(f) PROVE Inv'
    BY <2>0, <2>4, RemoveInv
  <2>5. ASSUME NEW f \in Fid, NEW c \in BOOLEAN, NEW x \in BOOLEAN, NEW w \in BOOLEAN, lopen(f, c, x, w) PROVE Inv'
    BY <2>0, <2>5, LopenInv
  <2>6. ASSUME NEW f \in Fid, get_attr(f) PROVE Inv'
    BY <2>0, <2>6, GetAttrInv
  <2>7. ASSUME NEW f \in Fid, NEW c \in Count, readdir_start(f, c) PROVE Inv'
    BY <2>0, <2>7, ReaddirStartInv
  <2>8. ASSUME NEW f \in Fid, NEW c \in Count, readdir_next(f, c) PROVE Inv'
    BY <2>0, <2>8, ReaddirNextInv
  <2>9. ASSUME NEW f \in Fid, NEW name \in WName, lcreate(f, name) PROVE Inv'
    BY <2>0, <2>9, LcreateInv
  <2>10. ASSUME NEW f \in Fid, NEW name \in WName, mkdir(f, name) PROVE Inv'
    BY <2>0, <2>10, MkdirInv
  <2>11. ASSUME NEW f \in Fid, NEW name \in WName, NEW d \in BOOLEAN, unlink_at(f, name, d) PROVE Inv'
    BY <2>0, <2>11, UnlinkInv
  <2>12. ASSUME NEW f \in Fid, NEW name \in WName, NEW g \in Fid, rename(f, g, name) PROVE Inv'
    BY <2>0, <2>12, RenameInv
  <2>13. ASSUME NEW f \in Fid, NEW name \in WName, NEW g \in Fid, link(f, g, name) PROVE Inv'
    BY <2>0, <2>13, LinkInv
  <2>14. ASSUME NEW f \in Fid, NEW name \in WName, NEW g \in Fid, NEW to \in WName, rename_at(f, name, g, to) PROVE Inv'
    BY <2>0, <2>14, RenameAtInv
  <2>15. ASSUME NEW f \in Fid, NEW g \in Fid, NEW k \in 0 .. client.walk, NEW wnames \in [1 .. k -> WName],
                walk(f, g, wnames)
         PROVE  Inv'
    BY <2>0, <2>15, WalkInv
  <2> QED
    BY <1>2, <2>1, <2>2, <2>3, <2>4, <2>5, <2>6, <2>7, <2>8, <2>9, <2>10, <2>11, <2>12, <2>13,
       <2>14, <2>15, Zenon DEF Next, Request
<1> QED
  BY <1>1, <1>2

(* Both properties follow from it.                                         *)
LEMMA InvImplies ==
    ASSUME Inv PROVE FidNamesItsFile /\ ListingIsConsistent
<1>1. ASSUME NEW f \in DOMAIN fids
      PROVE  /\ IsPrefix(Root, fids[f].path)
             /\ client.careful => /\ Exists(fids[f].path) /\ at[fids[f].path] = fids[f].ino
                                  /\ fids[f].dir = IsDir(fids[f].path)
                                  /\ fids[f].file \in {None, fids[f].ino}
  <2>1. /\ fids[f].path \in Paths(client.names) /\ Named(fids[f], at, dirs, client.careful)
        /\ fids[f].dir \in BOOLEAN
    BY FidPath DEF GoodFid, IsFid, FidRec
  <2>2. IsPrefix(Root, fids[f].path)
    BY <2>1, PathPrefix
  <2> QED
    BY <2>1, <2>2 DEF Named, Exists, IsDir
<1>2. FidNamesItsFile
  BY <1>1, Zenon DEF FidNamesItsFile
<1>3. ASSUME NEW f \in DOMAIN fids, NEW got, got = [i \in DOMAIN fids[f].got |-> fids[f].got[i].name]
      PROVE  /\ IsInjective(got) /\ Range(got) \subseteq fids[f].snap
             /\ fids[f].over /\ Range(got) # fids[f].snap => Short(fids[f])
  <2> DEFINE r == fids[f]
  <2>1. Listed(r, client.names) /\ r.got \in Seq(Entry(client.names))
    BY FidPath DEF IsFid, FidRec
  <2> HIDE DEF r
  <2>2. /\ DOMAIN got = 1 .. Len(r.got) /\ Len(r.got) \in Nat
        /\ \A i \in 1 .. Len(r.got) : got[i] = r.got[i].name
    BY <2>1, <1>3 DEF r
  <2>3. CASE r.got = <<>> /\ ~r.over
    <3>1. DOMAIN got = {}
      BY <2>2, <2>3
    <3> QED
      BY <3>1, <2>3 DEF IsInjective, Range, r
  <2>4. CASE /\ Listing(r.dirents, r.snap, client.names)
             /\ Len(r.got) <= Len(r.dirents) /\ \A k \in 1 .. Len(r.got) : r.got[k] = r.dirents[k]
             /\ r.over => Len(r.got) = Len(r.dirents) \/ Short(r)
    <3>1. Len(r.dirents) \in Nat
      BY <2>4 DEF Listing
    <3>2. \A i \in 1 .. Len(r.got) : i \in 1 .. Len(r.dirents) /\ got[i] = r.dirents[i].name
      BY <2>2, <2>4, <3>1
    <3>3. IsInjective(got)
      BY <2>2, <2>4, <3>2 DEF Listing, IsInjective
    <3>4. Range(got) \subseteq r.snap
      BY <2>2, <2>4, <3>2 DEF Listing, Range
    <3>5. Len(r.got) = Len(r.dirents) => Range(got) = r.snap
      BY <2>2, <2>4, <3>2 DEF Listing, Range
    <3> QED
      BY <2>4, <3>3, <3>4, <3>5, Zenon DEF r
  <2> QED
    BY <2>1, <2>3, <2>4 DEF Listed
<1>4. ListingIsConsistent
  BY <1>3, Zenon DEF ListingIsConsistent, Short
<1> QED
  BY <1>2, <1>4

(* Messages never get so small that there is no room for entries.          *)
LEMMA SpecSizeInv == Spec => []SizeInv
<1>1. Init => SizeInv
  BY SizeAssumption DEF Init, SizeInv
<1>2. ASSUME client \in Client, SizeInv, Next PROVE SizeInv'
  <2>1. ASSUME NEW size \in client.offers, version(size) PROVE SizeInv'
    <3>1. size \in Nat /\ size >= MinSize /\ msize' = Min({MaxSize, size})
      BY <1>2, <2>1, ClientAssumption DEF version, agree
    <3>2. msize' \in {MaxSize, size}
      BY <3>1, Lesser, SizeAssumption
    <3> QED
      BY <3>1, <3>2, SizeAssumption DEF SizeInv
  <2>2. CASE msize' = msize
    BY <1>2, <2>2 DEF SizeInv
  <2> QED
    BY <1>2, <2>1, <2>2 DEF Next
<1>3. Init => client \in Client
  BY DEF Init
<1>4. client \in Client /\ SizeInv /\ [Next]_vars => (client \in Client)' /\ SizeInv'
  <2> SUFFICES ASSUME client \in Client, SizeInv, [Next]_vars PROVE client' \in Client /\ SizeInv'
    OBVIOUS
  <2>1. CASE UNCHANGED vars
    BY <2>1 DEF vars, SizeInv
  <2>2. CASE Next
    BY <1>2, <2>2 DEF Next
  <2> QED
    BY <2>1, <2>2
<1> QED
  BY <1>1, <1>3, <1>4, PTL DEF Spec

(* The fids of the server stay in the exported tree, and the fid of a      *)
(* careful client stands for one file: for any number of fids, files and   *)
(* names, any depth, and walks of any length.                              *)
THEOREM SpecFidNamesItsFile == Spec => []FidNamesItsFile
<1>1. Init => Inv
  BY InitInv
<1>2. Inv /\ SizeInv /\ [Next]_vars => Inv'
  BY NextPreservesInv
<1>3. Inv => FidNamesItsFile
  BY InvImplies
<1> QED
  BY <1>1, <1>2, <1>3, SpecSizeInv, PTL DEF Spec

(* readdir() lists each name of a directory once, in however many replies  *)
(* and however the directory changes meanwhile, unless it comes to a name  *)
(* whose entry is too large for the reply: for any sizes of the entries,   *)
(* the messages and the replies.                                           *)
THEOREM SpecListingIsConsistent == Spec => []ListingIsConsistent
<1>1. Init => Inv
  BY InitInv
<1>2. Inv /\ SizeInv /\ [Next]_vars => Inv'
  BY NextPreservesInv
<1>3. Inv => ListingIsConsistent
  BY InvImplies
<1> QED
  BY <1>1, <1>2, <1>3, SpecSizeInv, PTL DEF Spec
=============================================================================
