--------------------------- MODULE FrontEndsProofs --------------------------
(***************************************************************************)
(* Proofs about the front ends, for every set of users, servers, requests, *)
(* connections, texts of config.json and paths.                            *)
(***************************************************************************)
EXTENDS FrontEnds, FiniteSetTheorems, SequenceTheorems, WellFoundedInduction, TLAPS

-----------------------------------------------------------------------------
(* Natural numbers and sequences.                                          *)

\* A set of natural numbers that has no first element is empty: induction,
\* the set being that of the counterexamples.
LEMMA NoFirst ==
    ASSUME NEW T, T \subseteq Nat, 0 \notin T, \A n \in Nat : n + 1 \in T => n \in T
    PROVE  T = {}
<1> SUFFICES ASSUME T # {} PROVE FALSE
    OBVIOUS
<1> DEFINE R == OpToRel(<, Nat)
<1>1. \A n, m \in Nat : n < m => <<n, m>> \in R
    BY DEF OpToRel
<1>2. IsWellFoundedOn(R, Nat)
    BY NatLessThanWellFounded
<1> HIDE DEF R
<1>3. PICK n \in T : \A m \in T : ~ (<<m, n>> \in R)
    BY <1>2, WFMin
<1>4. \A m \in T : m \in Nat /\ n \in Nat /\ ~ (m < n)
    BY <1>1, <1>3, Zenon
<1>5. n - 1 \in Nat /\ n = (n - 1) + 1 /\ n - 1 < n
    BY <1>3, SMT
<1>6. n - 1 \in T
    BY <1>3, <1>5, Zenon
<1> QED BY <1>4, <1>5, <1>6

\* What Append makes of the sequences of a request's host files.
LEMMA AppendOne == \A x : Append(<<>>, x) = <<x>>
OBVIOUS

LEMMA AppendTwo == \A x, y : Append(<<x>>, y) = <<x, y>>
<1> TAKE x, y
<1>1. <<x>> \in Seq({x, y}) /\ <<x, y>> \in Seq({x, y})
    OBVIOUS
<1>2. /\ Append(<<x>>, y) \in Seq({x, y}) /\ Len(Append(<<x>>, y)) = 2
      /\ Append(<<x>>, y)[1] = x /\ Append(<<x>>, y)[2] = y
    BY <1>1
<1>3. \A i \in 1 .. 2 : Append(<<x>>, y)[i] = <<x, y>>[i]
    BY <1>2
<1> QED BY <1>1, <1>2, <1>3, SeqEqual

LEMMA TupleFacts ==
    /\ \A x : <<x>>[1] = x /\ DOMAIN <<x>> = {1} /\ <<x>> # <<>>
    /\ \A x, y : <<x, y>>[1] = x /\ <<x, y>>[2] = y /\ DOMAIN <<x, y>> = {1, 2} /\ <<x, y>> # <<>>
OBVIOUS

\* The entries of a finite directory can be put in a sequence.
LEMMA SetToSeqTyped ==
    ASSUME NEW S, IsFiniteSet(S)
    PROVE  SetToSeq(S) \in Seq(S)
<1>1. Cardinality(S) \in Nat /\ ExistsBijection(1 .. Cardinality(S), S)
    BY FS_CardinalityType
<1>2. PICK f \in Bijection(1 .. Cardinality(S), S) : TRUE
    BY <1>1 DEF ExistsBijection
<1>3. f \in [1 .. Cardinality(S) -> S] /\ IsInjective(f)
    BY <1>2 DEF Bijection, Injection, Surjection, IsInjective
<1>4. SetToSeq(S) \in [1 .. Cardinality(S) -> S]
    BY <1>3 DEF SetToSeq
<1> QED BY <1>1, <1>4

-----------------------------------------------------------------------------
(* Permissions.                                                            *)

\* matchRecursive decides what permissions mean, whatever the two of them are.
LEMMA MatchGrants ==
    ASSUME NEW S, NEW p \in Seq(S), NEW required \in Seq(S)
    PROVE  matchRecursive(p, required) <=> Grants(p, required)
<1> DEFINE leaves == {i \in 1 .. Len(p) : p[i] = "*" \/ i > Len(required) \/ p[i] # required[i]}
           First1(i) == i \in leaves /\ \A j \in leaves : i <= j
           Below(k) == /\ k \in 1 .. Len(p) /\ p[k] = "*" /\ k <= Len(required) + 1
                       /\ \A j \in 1 .. (k - 1) : p[j] = required[j]
<1>1. Len(p) \in Nat /\ Len(required) \in Nat
    OBVIOUS
<1>2. Grants(p, required) <=> p = required \/ \E k : Below(k)
    <2>1. ASSUME NEW k \in 1 .. Len(p), k <= Len(required) + 1
          PROVE  SubSeq(p, 1, k - 1) = SubSeq(required, 1, k - 1)
                 <=> \A j \in 1 .. (k - 1) : p[j] = required[j]
        <3>1. /\ SubSeq(p, 1, k - 1) \in Seq(S) /\ SubSeq(required, 1, k - 1) \in Seq(S)
              /\ Len(SubSeq(p, 1, k - 1)) = k - 1 /\ Len(SubSeq(required, 1, k - 1)) = k - 1
              /\ \A j \in 1 .. (k - 1) : /\ SubSeq(p, 1, k - 1)[j] = p[j]
                                         /\ SubSeq(required, 1, k - 1)[j] = required[j]
            BY <2>1
        <3>2. ASSUME \A j \in 1 .. (k - 1) : p[j] = required[j]
              PROVE  SubSeq(p, 1, k - 1) = SubSeq(required, 1, k - 1)
            BY <3>1, <3>2, SeqEqual
        <3> QED BY <3>1, <3>2
    <2> QED BY <2>1 DEF Grants
<1>3. leaves # {} => \E i : First1(i)
    <2> SUFFICES ASSUME NEW l \in leaves, \A i : ~ First1(i) PROVE FALSE
        OBVIOUS
    <2> DEFINE T == {n \in Nat : \E i \in leaves : i <= n}
    <2>1. 0 \notin T
        OBVIOUS
    <2>2. ASSUME NEW n \in Nat, n + 1 \in T PROVE n \in T
        <3>1. PICK i \in leaves : i <= n + 1
            BY <2>2
        <3>2. PICK j \in leaves : ~ (i <= j)
            BY <3>1
        <3> QED BY <3>1, <3>2
    <2>3. l \in T
        OBVIOUS
    <2> HIDE DEF T
    <2> QED BY <2>1, <2>2, <2>3, NoFirst DEF T
<1>4. ASSUME p = required \/ \E k : Below(k) PROVE matchRecursive(p, required)
    <2>1. CASE p = required
        BY <2>1 DEF matchRecursive
    <2>2. ASSUME NEW k, Below(k) PROVE matchRecursive(p, required)
        <3>1. k \in leaves
            BY <2>2
        <3>2. PICK i : First1(i)
            BY <1>3, <3>1
        <3>3. p[i] = "*"
            BY <1>1, <2>2, <3>1, <3>2
        <3> QED BY <3>1, <3>2, <3>3 DEF matchRecursive
    <2> QED BY <1>4, <2>1, <2>2
<1>5. ASSUME matchRecursive(p, required) PROVE p = required \/ \E k : Below(k)
    <2>1. CASE p = <<"*">>
        <3>1. Below(1)
            BY <1>1, <2>1
        <3> QED BY <3>1
    <2>2. CASE leaves = {} /\ Len(p) = Len(required)
        <3>1. \A i \in 1 .. Len(p) : p[i] = required[i]
            BY <2>2
        <3> QED BY <2>2, <3>1, SeqEqual
    <2>3. ASSUME NEW i \in leaves, p[i] = "*", \A j \in leaves : i <= j
          PROVE  Below(i)
        <3>1. \A j \in 1 .. (i - 1) : j \notin leaves
            BY <1>1, <2>3
        <3>2. \A j \in 1 .. (i - 1) : j <= Len(required) /\ p[j] = required[j]
            BY <1>1, <3>1
        <3>3. i <= Len(required) + 1
            <4>1. CASE i = 1
                BY <1>1, <4>1
            <4>2. CASE i # 1
                <5>1. i - 1 \in 1 .. (i - 1)
                    BY <4>2
                <5> QED BY <1>1, <3>2, <5>1
            <4> QED BY <4>1, <4>2
        <3> QED BY <2>3, <3>2, <3>3
    <2> QED BY <1>5, <2>1, <2>2, <2>3 DEF matchRecursive
<1> QED BY <1>2, <1>4, <1>5

\* Whoever may execute everything may execute each action.
LEMMA ExecuteCovers ==
    ASSUME NEW p \in Seq(STRING), NEW word, matchRecursive(p, PermContainerExecute)
    PROVE  matchRecursive(p, Execute(word))
<1> DEFINE S == STRING \cup {"container", "execute", "*", word}
<1>0. p \in Seq(S)
    BY SeqMonotonic
<1>1. PermContainerExecute \in Seq(S) /\ Execute(word) \in Seq(S)
    BY DEF PermContainerExecute, Execute, S
<1>2. /\ Len(PermContainerExecute) = 3 /\ PermContainerExecute[1] = "container"
      /\ PermContainerExecute[2] = "execute" /\ PermContainerExecute[3] = "*"
    BY DEF PermContainerExecute
<1>3. Len(Execute(word)) = 3 /\ Execute(word)[1] = "container" /\ Execute(word)[2] = "execute"
    BY DEF Execute
<1> HIDE DEF S
<1> SUFFICES ASSUME NEW every \in Seq(S), NEW one \in Seq(S), Len(every) = 3, Len(one) = 3,
                    every[1] = one[1], every[2] = one[2], every[3] = "*", Grants(p, every)
             PROVE  Grants(p, one)
    BY <1>0, <1>1, <1>2, <1>3, MatchGrants
<1>4. ASSUME NEW k \in 1 .. Len(p), k <= 3, p[k] = "*", \A j \in 1 .. (k - 1) : p[j] = every[j]
      PROVE  Grants(p, one)
    <2>1. \A j \in 1 .. (k - 1) : p[j] = one[j]
        BY <1>4
    <2>2. SubSeq(p, 1, k - 1) = SubSeq(one, 1, k - 1)
        <3>1. /\ SubSeq(p, 1, k - 1) \in Seq(S) /\ SubSeq(one, 1, k - 1) \in Seq(S)
              /\ Len(SubSeq(p, 1, k - 1)) = k - 1 /\ Len(SubSeq(one, 1, k - 1)) = k - 1
              /\ \A j \in 1 .. (k - 1) : /\ SubSeq(p, 1, k - 1)[j] = p[j]
                                         /\ SubSeq(one, 1, k - 1)[j] = one[j]
            BY <1>0, <1>4
        <3>2. \A j \in 1 .. Len(SubSeq(p, 1, k - 1)) : SubSeq(p, 1, k - 1)[j] = SubSeq(one, 1, k - 1)[j]
            BY <2>1, <3>1
        <3> QED BY <3>1, <3>2, SeqEqual
    <2> QED BY <1>4, <2>2 DEF Grants
<1>5. ASSUME p = every PROVE Grants(p, one)
    BY <1>4, <1>5
<1>6. ASSUME NEW k \in 1 .. Len(p), p[k] = "*", k <= Len(every) + 1,
             SubSeq(p, 1, k - 1) = SubSeq(every, 1, k - 1)
      PROVE  Grants(p, one)
    <2>1. \A j \in 1 .. (k - 1) : p[j] = every[j]
        <3>1. \A j \in 1 .. (k - 1) : /\ SubSeq(p, 1, k - 1)[j] = p[j]
                                      /\ SubSeq(every, 1, k - 1)[j] = every[j]
            BY <1>0, <1>6
        <3> QED BY <1>6, <3>1
    <2>2. CASE k <= 3
        BY <1>4, <1>6, <2>1, <2>2
    <2>3. CASE k = 4
        <3>1. 3 \in 1 .. Len(p) /\ p[3] = "*" /\ \A j \in 1 .. 2 : p[j] = every[j]
            BY <1>6, <2>1, <2>3
        <3> QED BY <1>4, <3>1
    <2> QED BY <1>6, <2>2, <2>3
<1> QED BY <1>5, <1>6 DEF Grants

-----------------------------------------------------------------------------
(* Paths.                                                                  *)

\* One turn of Clean.
Push(done, x, rooted) ==
    LET up == done # <<>> /\ done[Len(done)] # ".."
    IN  CASE x \in {"", "."}              -> done
          [] x = ".." /\ up               -> Front(done)
          [] x = ".." /\ ~ up /\ rooted   -> done
          [] OTHER                        -> Append(done, x)

CleanFcn(g, path, rooted, n) ==
    g = [i \in 0 .. n |-> IF i = 0 THEN <<>> ELSE Push(g[i - 1], path[i], rooted)]

\* The recursive definition of Clean has a solution.
LEMMA CleanExists ==
    ASSUME NEW path, NEW rooted, NEW len \in Nat
    PROVE  \E g : CleanFcn(g, path, rooted, len)
<1> DEFINE T == {n \in Nat : ~ \E g : CleanFcn(g, path, rooted, n)}
<1>1. 0 \notin T
    <2>1. CleanFcn([i \in 0 .. 0 |-> <<>>], path, rooted, 0)
        BY DEF CleanFcn
    <2> QED BY <2>1
<1>2. ASSUME NEW n \in Nat, n \notin T PROVE n + 1 \notin T
    <2>1. PICK g : CleanFcn(g, path, rooted, n)
        BY <1>2
    <2> DEFINE next == Push(g[n], path[n + 1], rooted)
               h == [i \in 0 .. n + 1 |-> IF i = n + 1 THEN next ELSE g[i]]
    <2>2. ASSUME NEW i \in 0 .. n + 1
          PROVE  h[i] = IF i = 0 THEN <<>> ELSE Push(h[i - 1], path[i], rooted)
        <3>1. CASE i = 0
            BY <2>1, <3>1 DEF CleanFcn
        <3>2. CASE i = n + 1
            <4>1. i - 1 = n /\ n \in 0 .. n + 1 /\ n # n + 1 /\ i # 0
                BY <3>2
            <4>2. h[i] = next /\ h[n] = g[n]
                BY <3>2, <4>1
            <4> HIDE DEF h
            <4> QED BY <3>2, <4>1, <4>2, Zenon DEF next
        <3>3. CASE i \in 1 .. n
            <4>1. i \in 0 .. n /\ i - 1 \in 0 .. n /\ i # 0 /\ i # n + 1 /\ i - 1 # n + 1
                  /\ i - 1 \in 0 .. n + 1
                BY <3>3
            <4>2. h[i] = g[i] /\ h[i - 1] = g[i - 1]
                BY <4>1
            <4>3. g[i] = Push(g[i - 1], path[i], rooted)
                BY <2>1, <4>1 DEF CleanFcn
            <4> HIDE DEF h
            <4> QED BY <4>1, <4>2, <4>3, Zenon
        <3> QED BY <3>1, <3>2, <3>3
    <2>3. h = [i \in 0 .. n + 1 |-> h[i]]
        OBVIOUS
    <2> HIDE DEF h
    <2>4. CleanFcn(h, path, rooted, n + 1)
        BY <2>2, <2>3, Zenon DEF CleanFcn
    <2> QED BY <2>4
<1>3. T = {}
    <2> HIDE DEF T
    <2>1. T \subseteq Nat
        BY DEF T
    <2> QED BY <1>1, <1>2, <2>1, NoFirst
<1> QED BY <1>3

LEMMA CleanIs ==
    ASSUME NEW W, NEW path \in Seq(W), NEW rooted
    PROVE  \E g : CleanFcn(g, path, rooted, Len(path)) /\ Clean(path, rooted) = g[Len(path)]
<1> DEFINE G == CHOOSE g : CleanFcn(g, path, rooted, Len(path))
<1>1. CleanFcn(G, path, rooted, Len(path))
    BY CleanExists
<1>2. Clean(path, rooted) = G[Len(path)]
    BY DEF Clean, CleanFcn, Push
<1> HIDE DEF G
<1> QED BY <1>1, <1>2

\* The turns of Clean keep what one turn keeps: P is the set of the paths that
\* satisfy it.
LEMMA CleanKeeps ==
    ASSUME NEW W, NEW path \in Seq(W), NEW rooted, NEW P, NEW from \in Nat, NEW g,
           CleanFcn(g, path, rooted, Len(path)), from <= Len(path), g[from] \in P,
           \A done \in P, i \in (from + 1) .. Len(path) : Push(done, path[i], rooted) \in P
    PROVE  g[Len(path)] \in P
<1> DEFINE T == {n \in Nat : from + n <= Len(path) /\ g[from + n] \notin P}
<1>1. 0 \notin T
    OBVIOUS
<1>2. ASSUME NEW n \in Nat, n + 1 \in T PROVE n \in T
    <2> DEFINE i == from + (n + 1)
    <2>1. /\ i \in (from + 1) .. Len(path) /\ i \in 0 .. Len(path) /\ i # 0 /\ i - 1 = from + n
          /\ from + n <= Len(path) /\ g[i] \notin P
        BY <1>2
    <2> HIDE DEF i
    <2>2. g[i] = Push(g[i - 1], path[i], rooted)
        BY <2>1 DEF CleanFcn
    <2>3. g[from + n] \notin P
        BY <2>1, <2>2, Zenon
    <2> QED BY <2>1, <2>3
<1>3. T = {}
    <2> HIDE DEF T
    <2>1. T \subseteq Nat
        BY DEF T
    <2> QED BY <1>1, <1>2, <2>1, NoFirst
<1>4. Len(path) - from \in Nat /\ from + (Len(path) - from) = Len(path)
    OBVIOUS
<1>5. Len(path) - from \notin T
    BY <1>3
<1> QED BY <1>4, <1>5

\* A clean path has no empty segment and no ".", and ".." only in front.
NoDots(c) ==
    \A i \in 1 .. Len(c) : c[i] \notin {"", "."} /\ (c[i] = ".." => \A j \in 1 .. i : c[j] = "..")

LEMMA CleanNoDots ==
    ASSUME NEW W, NEW path \in Seq(W), NEW rooted
    PROVE  Clean(path, rooted) \in Seq(W) /\ NoDots(Clean(path, rooted))
<1> DEFINE P == {c \in Seq(W) : NoDots(c)}
<1>1. PICK g : CleanFcn(g, path, rooted, Len(path)) /\ Clean(path, rooted) = g[Len(path)]
    BY CleanIs
<1>2. ASSUME NEW c \in P, NEW i \in (0 + 1) .. Len(path) PROVE Push(c, path[i], rooted) \in P
    <2> DEFINE x == path[i]
    <2>1. c \in Seq(W) /\ NoDots(c) /\ x \in W /\ Len(c) \in Nat
        BY <1>2
    <2> HIDE DEF x
    <2>2. c \in P
        BY <1>2
    <2>3. ASSUME x = "..", c # <<>> PROVE Front(c) \in P
        <3> DEFINE f == SubSeq(c, 1, Len(c) - 1)
        <3>1. /\ f \in Seq(W) /\ Len(f) = Len(c) - 1
              /\ \A j \in 1 .. Len(c) - 1 : f[j] = c[j]
            <4>1. Len(c) \in Nat \ {0}
                BY <2>1, <2>3, EmptySeq
            <4>2. \A n \in 0 .. Len(c) : /\ SubSeq(c, 1, n) \in Seq(W) /\ Len(SubSeq(c, 1, n)) = n
                                         /\ \A j \in 1 .. n : SubSeq(c, 1, n)[j] = c[j]
                BY <2>1
            <4>3. Len(c) - 1 \in 0 .. Len(c)
                BY <4>1
            <4> QED BY <4>2, <4>3, Zenon
        <3> HIDE DEF f
        <3>2. ASSUME NEW k \in 1 .. Len(f)
              PROVE  f[k] \notin {"", "."} /\ (f[k] = ".." => \A j \in 1 .. k : f[j] = "..")
            <4>1. k \in 1 .. Len(c) - 1 /\ k \in 1 .. Len(c) /\ \A j \in 1 .. k : j \in 1 .. Len(c) - 1
                BY <2>1, <3>1
            <4> QED BY <2>1, <3>1, <4>1 DEF NoDots
        <3> QED BY <3>1, <3>2 DEF f, Front, NoDots
    <2>4. ASSUME x \notin {"", "."}, x = ".." => c = <<>> \/ c[Len(c)] = ".."
          PROVE  Append(c, x) \in P
        <3> DEFINE a == Append(c, x)
        <3>1. /\ a \in Seq(W) /\ Len(a) = Len(c) + 1 /\ a[Len(c) + 1] = x
              /\ \A j \in 1 .. Len(c) : a[j] = c[j]
            BY <2>1
        <3> HIDE DEF a
        <3>2. x = ".." => \A j \in 1 .. Len(c) : c[j] = ".."
            <4>1. CASE c = <<>>
                BY <4>1
            <4>2. CASE c # <<>> /\ c[Len(c)] = ".."
                <5>1. Len(c) \in 1 .. Len(c)
                    BY <2>1, <4>2
                <5> QED BY <2>1, <4>2, <5>1 DEF NoDots
            <4> QED BY <2>4, <4>1, <4>2
        <3>3. ASSUME NEW k \in 1 .. Len(a)
              PROVE  a[k] \notin {"", "."} /\ (a[k] = ".." => \A j \in 1 .. k : a[j] = "..")
            <4>1. CASE k = Len(c) + 1
                <5>1. ASSUME x = "..", NEW j \in 1 .. k PROVE a[j] = ".."
                    <6>1. j \in 1 .. Len(c) \/ j = Len(c) + 1
                        BY <2>1, <4>1
                    <6> QED BY <3>1, <3>2, <5>1, <6>1
                <5> QED BY <2>4, <3>1, <4>1, <5>1
            <4>2. CASE k # Len(c) + 1
                <5>1. k \in 1 .. Len(c) /\ \A j \in 1 .. k : j \in 1 .. Len(c)
                    BY <2>1, <3>1, <4>2
                <5> QED BY <2>1, <3>1, <5>1 DEF NoDots
            <4> QED BY <4>1, <4>2
        <3>4. a \in P
            BY <3>1, <3>3 DEF NoDots
        <3> QED BY <3>4 DEF a
    <2> HIDE DEF P
    <2>5. CASE x \in {"", "."}
        BY <2>2, <2>5 DEF Push, x
    <2>6. CASE x = ".." /\ c # <<>> /\ c[Len(c)] # ".."
        <3>1. Push(c, x, rooted) = Front(c)
            BY <2>6 DEF Push
        <3>2. Front(c) \in P
            BY <2>3, <2>6
        <3> QED BY <3>1, <3>2 DEF x
    <2>7. CASE x = ".." /\ (c = <<>> \/ c[Len(c)] = "..")
        <3>1. Push(c, x, rooted) = c \/ Push(c, x, rooted) = Append(c, x)
            BY <2>7 DEF Push
        <3>2. Append(c, x) \in P
            BY <2>4, <2>7
        <3> QED BY <2>2, <3>1, <3>2 DEF x
    <2>8. CASE x \notin {"", ".", ".."}
        <3>1. Push(c, x, rooted) = Append(c, x)
            BY <2>8 DEF Push
        <3>2. Append(c, x) \in P
            BY <2>4, <2>8
        <3> QED BY <3>1, <3>2 DEF x
    <2> QED BY <2>5, <2>6, <2>7, <2>8
<1>3. g[0] \in P
    <2>1. g[0] = <<>>
        BY <1>1 DEF CleanFcn
    <2>2. <<>> \in Seq(W) /\ NoDots(<<>>)
        BY DEF NoDots
    <2> QED BY <2>1, <2>2
<1>4. g[Len(path)] \in P
    <2> HIDE DEF P
    <2>1. 0 \in Nat /\ 0 <= Len(path)
        OBVIOUS
    <2> QED BY <1>1, <1>2, <1>3, <2>1, CleanKeeps
<1> QED BY <1>1, <1>4

\* A path without dots and empty segments keeps its first segment.
Plain(path) == path # <<>> /\ \A i \in 1 .. Len(path) : path[i] \notin {"", ".", ".."}

LEMMA PlainName ==
    ASSUME NEW W, NEW path \in Seq(W), Plain(path)
    PROVE  NameIn(path) = path[1]
<1> DEFINE I == {i \in 1 .. Len(path) : path[i] # ""}
<1>1. path # <<>>
    BY Zenon DEF Plain
<1>2. Len(path) \in Nat /\ 1 \in 1 .. Len(path)
    BY <1>1, EmptySeq
<1>3. 1 \in I
    BY <1>2, Zenon DEF Plain
<1>4. I \subseteq 1 .. Len(path)
    BY Zenon
<1>5. NameIn(path) = IF (IF I # {} THEN Min(I) ELSE 0) = 0 THEN ""
                     ELSE path[IF I # {} THEN Min(I) ELSE 0]
    BY DEF NameIn, SelectInSeq
<1> HIDE DEF I
<1>6. Min(I) = 1
    <2>1. \A i \in I : i \in Nat /\ 1 <= i
        BY <1>2, <1>4
    <2>2. \A i \in I : (\A j \in I : i <= j) => i = 1
        BY <1>3, <2>1
    <2>3. Min(I) \in I /\ \A j \in I : Min(I) <= j
        BY <1>3, <2>1, Zenon DEF Min
    <2> QED BY <2>2, <2>3, Zenon
<1>7. I # {} /\ 1 # 0
    BY <1>3
<1> QED BY <1>5, <1>6, <1>7, Zenon

LEMMA CleanFirst ==
    ASSUME NEW W, NEW path \in Seq(W), NEW rooted, Plain(path)
    PROVE  Clean(path, rooted) # <<>> /\ Clean(path, rooted)[1] = path[1]
<1> DEFINE x == path[1]
           P == {c \in Seq(W) : Len(c) >= 1 /\ c[1] = x}
<1>1. PICK g : CleanFcn(g, path, rooted, Len(path)) /\ Clean(path, rooted) = g[Len(path)]
    BY CleanIs
<1>2. x = path[1]
    OBVIOUS
<1>3. Len(path) >= 1 /\ Len(path) \in Nat
    <2>1. path # <<>>
        BY Zenon DEF Plain
    <2> QED BY <2>1, EmptySeq
<1>4. x \in W /\ x \notin {"", ".", ".."}
    <2>1. 1 \in 1 .. Len(path)
        BY <1>3
    <2>2. path[1] \in W
        BY <2>1
    <2>3. path[1] \notin {"", ".", ".."}
        BY <2>1, Zenon DEF Plain
    <2> QED BY <1>2, <2>2, <2>3, Zenon
<1> HIDE DEF x
<1>5. ASSUME NEW c \in P, NEW i \in (1 + 1) .. Len(path) PROVE Push(c, path[i], rooted) \in P
    <2> DEFINE y == path[i]
    <2>1. y \notin {"", ".", ".."} /\ y \in W
        <3>1. i \in 1 .. Len(path)
            BY <1>3, <1>5
        <3>2. y \notin {"", ".", ".."}
            BY <3>1, Zenon DEF Plain
        <3>3. path[i] \in W
            BY <3>1
        <3> QED BY <3>2, <3>3, Zenon
    <2> HIDE DEF y
    <2>2. Append(c, y) \in P
        <3>1. y \in W
            BY <2>1
        <3>2. c \in Seq(W) /\ Len(c) >= 1 /\ c[1] = x
            BY <1>5
        <3>3. /\ Append(c, y) \in Seq(W) /\ Len(Append(c, y)) = Len(c) + 1
              /\ \A j \in 1 .. Len(c) : Append(c, y)[j] = c[j]
            BY <3>1, <3>2
        <3>4. Len(c) \in Nat /\ Len(c) + 1 >= 1 /\ 1 \in 1 .. Len(c)
            BY <3>2
        <3>5. Append(c, y)[1] = x
            BY <3>2, <3>3, <3>4, Zenon
        <3> QED BY <3>3, <3>4, <3>5
    <2> HIDE DEF P
    <2>3. Push(c, y, rooted) = Append(c, y)
        BY <2>1 DEF Push
    <2> QED BY <2>2, <2>3 DEF y
<1>6. g[1] \in P
    <2>1. 1 \in 0 .. Len(path) /\ 0 \in 0 .. Len(path) /\ 1 - 1 = 0
        BY <1>3
    <2>2. g[0] = <<>> /\ g[1] = Push(g[1 - 1], path[1], rooted)
        BY <1>1, <2>1 DEF CleanFcn
    <2>3. g[1] = Push(<<>>, x, rooted)
        BY <1>2, <2>1, <2>2, Zenon
    <2>4. Push(<<>>, x, rooted) = Append(<<>>, x)
        BY <1>4 DEF Push
    <2>5. Append(<<>>, x) \in Seq(W) /\ Len(Append(<<>>, x)) = 1 /\ Append(<<>>, x)[1] = x
        <3>1. x \in W
            BY <1>4
        <3> QED BY <3>1
    <2> QED BY <2>3, <2>4, <2>5
<1>7. g[Len(path)] \in P
    <2> HIDE DEF P
    <2>1. 1 \in Nat /\ 1 <= Len(path)
        BY <1>3
    <2> QED BY <1>1, <1>5, <1>6, <2>1, CleanKeeps
<1>8. Clean(path, rooted) \in Seq(W) /\ Len(Clean(path, rooted)) >= 1 /\ Clean(path, rooted)[1] = x
    BY <1>1, <1>7
<1>9. Clean(path, rooted) # <<>>
    BY <1>8
<1> QED BY <1>8, <1>9 DEF x

\* What MapPath returns is on a server of the configuration that the user may
\* read, the one the path begins with.
LEMMA MapPathNames ==
    ASSUME NEW v, NEW user, NEW parts, NEW res \in MapPath(v, user, parts),
           res.err \in {"none", "container"}
    PROVE  /\ parts # <<>> /\ May(v, user, parts[1], PermContainerRead)
           /\ parts[1] \in text[v].servers
           /\ res.err = "none" => /\ res.name = parts[1] /\ res.mount \in Mounts[parts[1]]
                                  /\ res.rel = SubSeq(parts, 3, Len(parts))
<1>1. Is("root").err = "root" /\ Is("denied").err = "denied" /\ Is("missing").err = "missing"
      /\ Is("container").err = "container"
    BY DEF Is
<1>2. parts # <<>> /\ May(v, user, parts[1], PermContainerRead) /\ parts[1] \in text[v].servers
    BY <1>1 DEF MapPath
<1>3. ASSUME res.err = "none"
      PROVE  /\ res.name = parts[1] /\ res.mount \in Mounts[parts[1]]
             /\ res.rel = SubSeq(parts, 3, Len(parts))
    <2>1. PICK m \in MountAt(parts[1], parts[2]) :
             res = [err |-> "none", name |-> parts[1], mount |-> m, rel |-> SubSeq(parts, 3, Len(parts))]
        BY <1>1, <1>2, <1>3 DEF MapPath
    <2> QED BY <2>1 DEF MountAt
<1> QED BY <1>2, <1>3

LEMMA RootIsEmpty ==
    ASSUME NEW v, NEW user, NEW parts, NEW res \in MapPath(v, user, parts), res.err = "root"
    PROVE  parts = <<>>
<1>1. Is("denied").err = "denied" /\ Is("missing").err = "missing" /\ Is("container").err = "container"
    BY DEF Is
<1> QED BY <1>1 DEF MapPath

\* For the paths of SFTP that is the first name, as it was sent.
LEMMA PathNames ==
    ASSUME NEW v, NEW user, NEW path \in Paths, NEW rooted, text[v].servers \subseteq Names,
           NEW res \in MapPath(v, user, PartsOf(path, rooted)), res.err \in {"none", "container"}
    PROVE  /\ path # <<>> /\ NameIn(path) = path[1] /\ NameIn(path) \in Names
           /\ May(v, user, NameIn(path), PermContainerRead)
           /\ res.err = "none" => res.name = NameIn(path)
<1> DEFINE parts == PartsOf(path, rooted)
<1>1. path \in Seq(STRING)
    BY FileAssumption, Zenon
<1>2. /\ parts # <<>> /\ May(v, user, parts[1], PermContainerRead) /\ parts[1] \in Names
      /\ res.err = "none" => res.name = parts[1]
    BY MapPathNames
<1>3. path # <<>>
    <2> SUFFICES ASSUME path = <<>> PROVE FALSE
        OBVIOUS
    <2>1. PICK g : CleanFcn(g, path, rooted, Len(path)) /\ Clean(path, rooted) = g[Len(path)]
        BY <1>1, CleanIs
    <2>2. Clean(path, rooted) = <<>>
        BY <2>1 DEF CleanFcn
    <2>3. parts = <<".">>
        BY <1>2, <2>2, Zenon DEF PartsOf
    <2>4. parts[1] = "."
        BY <2>3
    <2> QED BY <1>2, <2>4, FileAssumption
<1>4. Plain(path)
    <2>1. DOMAIN path = 1 .. Len(path)
        BY <1>1
    <2> QED BY <1>3, <2>1, FileAssumption, Zenon DEF Plain
<1>5. NameIn(path) = path[1]
    BY <1>1, <1>4, PlainName
<1>6. parts[1] = NameIn(path)
    <2>1. Clean(path, rooted) # <<>> /\ Clean(path, rooted)[1] = path[1]
        BY <1>1, <1>4, CleanFirst
    <2> QED BY <1>5, <2>1, Zenon DEF PartsOf
<1> HIDE DEF parts
<1> QED BY <1>2, <1>3, <1>5, <1>6, Zenon

LEMMA MappedName ==
    ASSUME NEW v, NEW user, NEW path \in Paths, NEW rooted, text[v].servers \subseteq Names,
           NEW res \in MapPath(v, user, PartsOf(path, rooted)), res.err = "none"
    PROVE  res.name = NameIn(path)
<1>1. res.err \in {"none", "container"}
    OBVIOUS
<1> QED BY <1>1, PathNames

\* A user who may execute everything on a server may execute each action.
LEMMA MayExecute ==
    ASSUME NEW v, NEW user, NEW name, NEW word, text[v] \in AllTexts, user \in Users,
           name \in Names, May(v, user, name, PermContainerExecute)
    PROVE  May(v, user, name, Execute(word))
<1> DEFINE perms == text[v].perms[user]
<1>1. /\ perms \in [Names \cup {"*"} -> SUBSET Seq(STRING)]
      /\ user \in text[v].known /\ HasPermission(perms, name, PermContainerExecute)
    BY DEF AllTexts, May
<1> HIDE DEF perms
<1>2. ASSUME NEW n \in {name, "*"}, checkPermission(perms[n], PermContainerExecute)
      PROVE  checkPermission(perms[n], Execute(word))
    <2>1. PICK p \in perms[n] : matchRecursive(p, PermContainerExecute)
        BY <1>2 DEF checkPermission
    <2>2. p \in Seq(STRING)
        BY <1>1, <2>1
    <2> QED BY <2>1, <2>2, ExecuteCovers DEF checkPermission
<1>3. HasPermission(perms, name, Execute(word))
    BY <1>1, <1>2 DEF HasPermission
<1> QED BY <1>1, <1>3 DEF May, perms

-----------------------------------------------------------------------------
(* The inductive invariant.                                                *)

AllOps == {"none", "login", "list"} \cup AuthOnly \cup Checked \cup SftpOps \cup DavOps

\* What a listing can contain.
Entries == {<<n>> : n \in Names} \cup (UNION {Mounts[n] : n \in Names})
           \cup {<<i>> : i \in 1 .. MaxEntries} \cup {<<>>}

\* The configuration and the two tables.
WorldOK ==
    /\ file \in 1 .. MaxFile /\ cfg \in 1 .. file /\ loaded = cfg
    /\ text \in [1 .. MaxFile -> Texts]
    /\ sessions \in [Tokens -> Users \cup {NoUser}]
    /\ conns \in [Conns -> Users \cup {NoUser}]

\* May, in the texts T.
Can(T, v, user, name, perm) ==
    user \in T[v].known /\ HasPermission(T[v].perms[user], name, perm)

\* A request q when f is the last version: one that was sent with an operation
\* has the version of its arrival.
ShapeOK(q, f) ==
    /\ DOMAIN q = DOMAIN NoRequest
    /\ q.pc = "idle" => q = NoRequest
    /\ q.op \in AllOps
    /\ q.user \in Users <=> q.pc # "idle"
    /\ q.snap \in 0 .. f /\ q.floor \in 0 .. f
    /\ q.pc \notin {"idle", "token", "dav"} => q.floor \in 1 .. f
    /\ q.out \in Seq(Entries) /\ q.sent \in Seq(Entries)
    /\ Len(q.sent) <= Len(q.out)
    /\ q.pc = "page" => q.sent = SubSeq(q.out, 1, Len(q.sent))
    /\ q.pc = "paged" => q.sent = q.out

\* What the checks of the web interface have established.
WebOK(q, f, T) ==
    /\ q.pc = "inspect" => q.snap \in q.floor .. f
    /\ q.pc \in {"handler", "run"} =>
          \E v \in q.floor .. f, name \in {NameOf[q.path[1]], q.path[1]} :
             Can(T, v, q.user, name, PermContainerRead)
    /\ q.pc = "run" /\ q.op \in Checked =>
          \E v \in q.floor .. f : Can(T, v, q.user, q.path[1], RequiredPerm(q.op))
    /\ q.pc = "listed" =>
          /\ q.snap \in 1 .. f
          /\ \A it \in q.items : \A a \in it.actions :
                /\ \E name \in {NameOf[it.id], it.id} : Can(T, q.snap, q.user, name, PermContainerRead)
                /\ a \in Checked => Can(T, q.snap, q.user, it.id, RequiredPerm(a))

\* What the checks of a file operation have established: the write permission
\* is for the first name in the path, which over SFTP is the server it is mapped to.
FileOK(q, f, T) ==
    /\ q.pc \in {"write", "write2", "map"} /\ q.op \in SftpOps => q.path \in Paths
    /\ q.pc = "mounts" => q.path[1] \in Names
    /\ q.pc = "readdir" => \/ PartsOf(q.path, Rooted(q.path)) = <<>>
                           \/ PartsOf(q.path, Rooted(q.path))[1] \in Names
    /\ q.pc \in {"idle", "token", "dav", "auth", "inspect", "handler", "run", "list", "listed",
                 "write", "write2", "map"} => q.host = <<>>
    /\ q.pc = "map2" => q.op \in Renames /\ q.host = <<q.host[1]>>
    /\ q.host # <<>> => q.host = <<q.host[1]>> \/ q.host = <<q.host[1], q.host[2]>>
    /\ q.pc \in {"map2", "os", "handle"} /\ q.host # <<>> =>
          /\ \A i \in DOMAIN q.host : \E v \in q.floor .. f :
                Can(T, v, q.user, q.host[i].name, PermContainerRead)
          /\ q.op \in SftpOps => q.host[1].name = NameIn(q.path)
    /\ q.pc \in {"os", "handle"} => q.host # <<>>
    /\ q.pc \in {"write2", "map", "map2", "os", "handle"} /\ q.op \in Changes =>
          \E v \in q.floor .. f : Can(T, v, q.user, NameIn(q.path), PermFileWrite)
    /\ q.pc \in {"map", "map2", "os", "handle"} /\ q.op = "davrename" =>
          \E v \in q.floor .. f : Can(T, v, q.user, NameIn(q.target), PermFileWrite)

RequestOK(q, f, T) == ShapeOK(q, f) /\ WebOK(q, f, T) /\ FileOK(q, f, T)

IInv ==
    /\ WorldOK
    /\ DOMAIN req = Requests
    /\ \A r \in Requests : RequestOK(req[r], file, text)

-----------------------------------------------------------------------------
(* How steps move a request.                                               *)

\* Only request r changes; the configuration is as it was, or taken again.
Changed(r) == DOMAIN req' = Requests /\ \A s \in Requests : s # r => req'[s] = req[s]

ConfigKept ==
    /\ file' = file /\ text' = text
    /\ (cfg' = cfg /\ loaded' = loaded) \/ (cfg' = file /\ loaded' = file)

TablesKept ==
    /\ sessions' \in [Tokens -> Users \cup {NoUser}]
    /\ conns' \in [Conns -> Users \cup {NoUser}]

\* What a step under way leaves alone.
Keep(r) ==
    /\ DOMAIN req'[r] = DOMAIN NoRequest
    /\ req'[r].op = req[r].op /\ req'[r].user = req[r].user /\ req'[r].path = req[r].path
    /\ req'[r].target = req[r].target /\ req'[r].floor = req[r].floor

Lists(r) == req'[r].out = req[r].out /\ req'[r].sent = req[r].sent
Rest(r)  == req'[r].snap = req[r].snap /\ req'[r].host = req[r].host /\ req'[r].items = req[r].items

LEMMA NoRequestOK == ASSUME WorldOK PROVE RequestOK(NoRequest, file, text)
<1>1. file \in Nat /\ file >= 1
    BY AccessAssumption DEF WorldOK
<1>2. /\ NoRequest.pc = "idle" /\ NoRequest.op = "none" /\ NoRequest.user = NoUser
      /\ NoRequest.snap = 0 /\ NoRequest.floor = 0 /\ NoRequest.out = <<>> /\ NoRequest.sent = <<>>
      /\ NoRequest.host = <<>>
    BY DEF NoRequest
<1>3. ShapeOK(NoRequest, file)
    <2>1. <<>> \in Seq(Entries) /\ Len(<<>>) <= Len(<<>>)
        OBVIOUS
    <2> QED BY <1>1, <1>2, <2>1, AccessAssumption DEF ShapeOK, AllOps
<1>4. WebOK(NoRequest, file, text)
    BY <1>2 DEF WebOK
<1>5. FileOK(NoRequest, file, text)
    BY <1>2 DEF FileOK
<1> QED BY <1>3, <1>4, <1>5 DEF RequestOK

\* It is enough to show the invariant of the request that moves.
LEMMA StepKept ==
    ASSUME IInv, ConfigKept, TablesKept, NEW r \in Requests, Changed(r),
           RequestOK(req'[r], file, text)
    PROVE  IInv'
<1>1. WorldOK'
    BY DEF IInv, WorldOK, ConfigKept, TablesKept
<1>2. ASSUME NEW s \in Requests PROVE RequestOK(req'[s], file', text')
    <2>1. file' = file /\ text' = text
        BY DEF ConfigKept
    <2>2. CASE s = r
        BY <2>1, <2>2
    <2>3. CASE s # r
        <3>1. req'[s] = req[s]
            BY <2>3 DEF Changed
        <3> QED BY <2>1, <3>1 DEF IInv
    <2> QED BY <2>2, <2>3
<1> QED BY <1>1, <1>2 DEF IInv, Changed

LEMMA ConfigSame ==
    /\ Get => ConfigKept
    /\ UNCHANGED config => ConfigKept
    /\ IInv /\ UNCHANGED <<sessions, conns>> => TablesKept
BY DEF Get, ConfigKept, config, source, IInv, WorldOK, TablesKept

LEMMA Moves ==
    ASSUME IInv, NEW r \in Requests
    PROVE  /\ Finish(r) => Changed(r) /\ RequestOK(req'[r], file, text)
           /\ \A p : GoTo(r, p) => Changed(r) /\ Keep(r) /\ Lists(r) /\ Rest(r) /\ req'[r].pc = p
<1>1. DOMAIN req = Requests /\ DOMAIN req[r] = DOMAIN NoRequest
    BY DEF IInv, RequestOK, ShapeOK
<1>2. ASSUME Finish(r) PROVE Changed(r) /\ RequestOK(req'[r], file, text)
    <2>1. Changed(r) /\ req'[r] = NoRequest
        BY <1>1, <1>2 DEF Finish, Changed
    <2> QED BY <2>1, NoRequestOK DEF IInv
<1>3. ASSUME NEW p, GoTo(r, p)
      PROVE  Changed(r) /\ Keep(r) /\ Lists(r) /\ Rest(r) /\ req'[r].pc = p
    BY <1>1, <1>3 DEF GoTo, Changed, Keep, Lists, Rest, NoRequest
<1> QED BY <1>2, <1>3

\* The shape of a request that moves on, but not to a page.
LEMMA ShapeMoves ==
    ASSUME IInv, NEW r \in Requests, Keep(r), Lists(r), req[r].pc \notin {"idle", "token", "dav"},
           req'[r].pc \notin {"idle", "page", "paged"}, req'[r].snap \in 0 .. file
    PROVE  ShapeOK(req'[r], file)
<1>1. ShapeOK(req[r], file)
    BY DEF IInv, RequestOK
<1> QED BY <1>1 DEF ShapeOK, Keep, Lists

-----------------------------------------------------------------------------
(* Requests arrive.                                                        *)

Fresh(r) ==
    /\ DOMAIN req'[r] = DOMAIN NoRequest
    /\ req'[r].op \in AllOps /\ req'[r].user \in Users /\ req'[r].snap = 0
    /\ req'[r].out = <<>> /\ req'[r].sent = <<>> /\ req'[r].host = <<>>

LEMMA FreshOK ==
    ASSUME IInv, NEW r \in Requests, Fresh(r),
           \/ req'[r].pc \in {"token", "dav"} /\ req'[r].floor = 0
           \/ req'[r].pc \in {"auth", "list"} /\ req'[r].floor = file
           \/ /\ req'[r].pc \in {"write", "map"} /\ req'[r].floor = file
              /\ req'[r].op \in SftpOps => req'[r].path \in Paths
              /\ req'[r].op \in Changes => req'[r].pc = "write"
    PROVE  RequestOK(req'[r], file, text)
<1>1. file \in Nat /\ file >= 1
    BY AccessAssumption DEF IInv, WorldOK
<1>2. ShapeOK(req'[r], file)
    <2>1. <<>> \in Seq(Entries) /\ Len(<<>>) <= Len(<<>>)
        OBVIOUS
    <2>2. req'[r].floor \in 0 .. file
        BY <1>1
    <2>3. req'[r].pc \notin {"idle", "token", "dav"} => req'[r].floor \in 1 .. file
        BY <1>1
    <2>4. req'[r].pc \notin {"idle", "page", "paged"}
        OBVIOUS
    <2>5. req'[r].snap \in 0 .. file
        BY <1>1 DEF Fresh
    <2> QED BY <2>1, <2>2, <2>3, <2>4, <2>5 DEF ShapeOK, Fresh
<1>3. WebOK(req'[r], file, text)
    BY DEF WebOK
<1>4. FileOK(req'[r], file, text)
    <2>1. "davrename" \in Changes
        BY DEF Changes, DavOps, SftpOps
    <2> QED BY <2>1 DEF FileOK, Fresh
<1> QED BY <1>2, <1>3, <1>4 DEF RequestOK

LEMMA IdleIsNoRequest ==
    ASSUME IInv, NEW r \in Requests, req[r].pc = "idle"
    PROVE  req[r] = NoRequest
BY DEF IInv, RequestOK, ShapeOK

LEMMA LoginKept ==
    ASSUME IInv, NEW r \in Requests, Login(r), UNCHANGED conns
    PROVE  IInv'
<1>1. ConfigKept /\ TablesKept
    BY ConfigSame DEF Login
<1>2. req[r] = NoRequest /\ DOMAIN req = Requests
    BY IdleIsNoRequest DEF Login, IInv
<1>3. Changed(r) /\ RequestOK(req'[r], file, text)
    <2>1. CASE req' = req
        BY <1>2, <2>1 DEF IInv, Changed
    <2>2. ASSUME NEW u \in Users,
                 req' = [req EXCEPT ![r].pc = "token", ![r].op = "login", ![r].user = u]
          PROVE  Changed(r) /\ RequestOK(req'[r], file, text)
        <3>1. /\ Changed(r) /\ Fresh(r)
              /\ req'[r].pc = "token" /\ req'[r].floor = 0
            BY <1>2, <2>2 DEF Changed, Fresh, NoRequest, AllOps
        <3> QED BY <3>1, FreshOK
    <2> QED BY <2>1, <2>2 DEF Login
<1> QED BY <1>1, <1>3, StepKept

LEMMA DavHandlerKept ==
    ASSUME IInv, NEW r \in Requests, DavHandler(r), UNCHANGED sessions
    PROVE  IInv'
<1>1. ConfigKept /\ TablesKept
    BY ConfigSame DEF DavHandler
<1>2. req[r] = NoRequest /\ DOMAIN req = Requests
    BY IdleIsNoRequest DEF DavHandler, IInv
<1>3. Changed(r) /\ RequestOK(req'[r], file, text)
    <2>1. CASE req' = req
        BY <1>2, <2>1 DEF IInv, Changed
    <2>2. ASSUME NEW u \in Users, req' = [req EXCEPT ![r].pc = "dav", ![r].user = u]
          PROVE  Changed(r) /\ RequestOK(req'[r], file, text)
        <3>1. /\ Changed(r) /\ Fresh(r)
              /\ req'[r].pc = "dav" /\ req'[r].floor = 0
            BY <1>2, <2>2 DEF Changed, Fresh, NoRequest, AllOps
        <3> QED BY <3>1, FreshOK
    <2> QED BY <2>1, <2>2 DEF DavHandler
<1> QED BY <1>1, <1>3, StepKept

LEMMA ArriveKept ==
    ASSUME IInv, NEW r \in Requests, Arrive(r), UNCHANGED conns
    PROVE  IInv'
<1>1. ConfigKept /\ TablesKept
    BY ConfigSame DEF Arrive
<1>2. DOMAIN req = Requests
    BY DEF IInv
<1>3. PICK t \in Tokens : /\ sessions[t] # NoUser
         /\ \/ \E op \in AuthOnly \cup Checked, id \in Names \cup Containers :
                  req' = [req EXCEPT ![r] = [NoRequest EXCEPT !.pc = "auth", !.op = op,
                            !.user = sessions[t], !.path = <<id>>, !.floor = file]]
            \/ req' = [req EXCEPT ![r] = [NoRequest EXCEPT !.pc = "list", !.op = "list",
                         !.user = sessions[t], !.floor = file]]
    BY DEF Arrive
<1>4. sessions[t] \in Users
    BY <1>3 DEF IInv, WorldOK
<1>5. Changed(r) /\ RequestOK(req'[r], file, text)
    <2>1. ASSUME NEW op \in AuthOnly \cup Checked, NEW id,
                 req' = [req EXCEPT ![r] = [NoRequest EXCEPT !.pc = "auth", !.op = op,
                            !.user = sessions[t], !.path = <<id>>, !.floor = file]]
          PROVE  Changed(r) /\ Fresh(r) /\ req'[r].pc = "auth" /\ req'[r].floor = file
        <3>1. op \in AllOps
            BY DEF AllOps
        <3> QED BY <1>2, <1>4, <2>1, <3>1 DEF Changed, Fresh, NoRequest
    <2>2. CASE req' = [req EXCEPT ![r] = [NoRequest EXCEPT !.pc = "list", !.op = "list",
                         !.user = sessions[t], !.floor = file]]
        <3>1. "list" \in AllOps
            BY DEF AllOps
        <3>2. Changed(r) /\ Fresh(r) /\ req'[r].pc = "list" /\ req'[r].floor = file
            BY <1>2, <1>4, <2>2, <3>1 DEF Changed, Fresh, NoRequest
        <3> QED BY <3>2, FreshOK
    <2> QED BY <1>3, <2>1, <2>2, FreshOK
<1> QED BY <1>1, <1>5, StepKept

LEMMA AskKept ==
    ASSUME IInv, NEW r \in Requests, NEW ops, ops \subseteq SftpOps \cup DavOps, NEW user \in Users,
           NEW paths, ops \subseteq DavOps \/ paths \subseteq Paths,
           Ask(r, ops, user, paths), UNCHANGED sessions
    PROVE  IInv'
<1>1. ConfigKept /\ TablesKept
    BY ConfigSame DEF Ask
<1>2. DOMAIN req = Requests
    BY DEF IInv
<1>3. PICK op \in ops, path \in paths : \E t :
         req' = [req EXCEPT ![r] =
                    [NoRequest EXCEPT !.pc = IF op \in Changes THEN "write" ELSE "map", !.op = op,
                       !.user = user, !.path = path, !.target = t, !.floor = file]]
    BY DEF Ask
<1>4. op \in AllOps
    BY DEF AllOps
<1>5. op \in SftpOps => path \in Paths
    <2>1. DavOps \cap SftpOps = {}
        BY DEF DavOps, SftpOps
    <2> QED BY <2>1
<1>6. Changed(r) /\ RequestOK(req'[r], file, text)
    <2>0. PICK t :
         req' = [req EXCEPT ![r] =
                    [NoRequest EXCEPT !.pc = IF op \in Changes THEN "write" ELSE "map", !.op = op,
                       !.user = user, !.path = path, !.target = t, !.floor = file]]
        BY <1>3
    <2> DEFINE p == IF op \in Changes THEN "write" ELSE "map"
    <2>1. p \in {"write", "map"} /\ (op \in Changes => p = "write")
        OBVIOUS
    <2>2. req' = [req EXCEPT ![r] = [NoRequest EXCEPT !.pc = p, !.op = op,
                       !.user = user, !.path = path, !.target = t, !.floor = file]]
        BY <2>0
    <2> HIDE DEF p
    <2>3. /\ Changed(r) /\ Fresh(r) /\ req'[r].pc = p /\ req'[r].floor = file
          /\ req'[r].path = path /\ req'[r].op = op
        BY <1>2, <1>4, <2>2 DEF Changed, Fresh, NoRequest
    <2> QED BY <1>5, <2>1, <2>3, FreshOK
<1> QED BY <1>1, <1>6, StepKept

LEMMA RequestsKept ==
    ASSUME IInv, NEW r \in Requests, UNCHANGED sessions,
           SftpRequest(r) \/ Mkdir(r) \/ OpenFile(r) \/ RemoveAll(r) \/ Rename(r) \/ Stat(r)
    PROVE  IInv'
<1>1. ASSUME NEW ops, ops \subseteq SftpOps, SftpAsk(r, ops) PROVE IInv'
    <2>1. PICK c \in Conns : conns[c] # NoUser /\ Ask(r, ops, conns[c], Paths)
        BY <1>1 DEF SftpAsk
    <2>2. conns[c] \in Users
        BY <2>1 DEF IInv, WorldOK
    <2> QED BY <1>1, <2>1, <2>2, AskKept
<1>2. ASSUME NEW ops, ops \subseteq DavOps, DavAsk(r, ops) PROVE IInv'
    <2>1. req[r].pc = "dav" /\ Ask(r, ops, req[r].user, RawPaths)
        BY <1>2 DEF DavAsk
    <2>2. req[r].user \in Users
        BY <2>1 DEF IInv, RequestOK, ShapeOK
    <2> QED BY <1>2, <2>1, <2>2, AskKept
<1>3. CASE SftpRequest(r)
    <2>1. PICK ops : ops \subseteq SftpOps /\ SftpAsk(r, ops)
        BY <1>3 DEF SftpRequest, Filelist, Fileread, Filewrite, Filecmd, SftpOps
    <2> QED BY <1>1, <2>1
<1>4. CASE Mkdir(r) \/ OpenFile(r) \/ RemoveAll(r) \/ Rename(r) \/ Stat(r)
    <2>1. PICK ops : ops \subseteq DavOps /\ DavAsk(r, ops)
        BY <1>4 DEF Mkdir, OpenFile, RemoveAll, Rename, Stat, DavOps
    <2> QED BY <1>2, <2>1
<1> QED BY <1>3, <1>4

-----------------------------------------------------------------------------
(* The web interface.                                                      *)

LEMMA MayIsCan == \A v, user, name, perm : May(v, user, name, perm) <=> Can(text, v, user, name, perm)
BY Zenon DEF May, Can

\* A request that reaches its handler or runs has passed its checks.
LEMMA HandlerOK ==
    ASSUME IInv, NEW r \in Requests, Keep(r), Lists(r), Rest(r),
           req[r].pc \in {"inspect", "handler"}, req'[r].pc \in {"handler", "run"},
           \E v \in req[r].floor .. file, name \in {NameOf[req[r].path[1]], req[r].path[1]} :
              Can(text, v, req[r].user, name, PermContainerRead),
           req'[r].pc = "run" /\ req[r].op \in Checked =>
              \E v \in req[r].floor .. file : Can(text, v, req[r].user, req[r].path[1], RequiredPerm(req[r].op))
    PROVE  RequestOK(req'[r], file, text)
<1>1. ShapeOK(req[r], file) /\ FileOK(req[r], file, text)
    BY DEF IInv, RequestOK
<1>2. req'[r].snap \in 0 .. file
    BY <1>1 DEF ShapeOK, Rest
<1>3. ShapeOK(req'[r], file)
    BY <1>2, ShapeMoves
<1>4. WebOK(req'[r], file, text)
    BY DEF WebOK, Keep
<1>5. FileOK(req'[r], file, text)
    BY <1>1 DEF FileOK, Rest
<1> QED BY <1>3, <1>4, <1>5 DEF RequestOK

LEMMA AuthKept ==
    ASSUME IInv, NEW r \in Requests, AuthGet(r) \/ AuthInspect(r), UNCHANGED conns
    PROVE  IInv'
<1>1. file \in Nat /\ file >= 1 /\ DOMAIN req = Requests /\ DOMAIN req[r] = DOMAIN NoRequest
    BY AccessAssumption DEF IInv, WorldOK, RequestOK, ShapeOK
<1>2. ShapeOK(req[r], file) /\ WebOK(req[r], file, text) /\ FileOK(req[r], file, text)
    BY DEF IInv, RequestOK
<1>3. CASE AuthGet(r)
    <2>1. req[r].pc = "auth" /\ req' = [req EXCEPT ![r].pc = "inspect", ![r].snap = file]
        BY <1>3 DEF AuthGet
    <2>2. /\ Changed(r) /\ Keep(r) /\ Lists(r) /\ req'[r].pc = "inspect" /\ req'[r].snap = file
          /\ req'[r].host = req[r].host
        BY <1>1, <2>1 DEF Changed, Keep, Lists, NoRequest
    <2>3. ShapeOK(req'[r], file)
        BY <1>1, <2>1, <2>2, ShapeMoves
    <2>4. WebOK(req'[r], file, text)
        <3>1. req[r].floor \in 1 .. file
            BY <1>2, <2>1 DEF ShapeOK
        <3> QED BY <1>1, <2>2, <3>1 DEF WebOK, Keep
    <2>5. FileOK(req'[r], file, text)
        BY <1>2, <2>1, <2>2 DEF FileOK
    <2>6. ConfigKept /\ TablesKept
        BY <1>3, ConfigSame DEF AuthGet
    <2> QED BY <2>2, <2>3, <2>4, <2>5, <2>6, StepKept DEF RequestOK
<1>4. CASE AuthInspect(r)
    <2>1. ConfigKept /\ TablesKept
        BY <1>4, ConfigSame DEF AuthInspect
    <2>2. PICK name \in {NameOf[req[r].path[1]], req[r].path[1]} :
             IF May(req[r].snap, req[r].user, name, PermContainerRead)
             THEN GoTo(r, "handler") ELSE Finish(r)
        BY <1>4 DEF AuthInspect
    <2>3. CASE Finish(r)
        BY <2>1, <2>3, Moves, StepKept
    <2>4. CASE May(req[r].snap, req[r].user, name, PermContainerRead) /\ GoTo(r, "handler")
        <3>1. Changed(r) /\ Keep(r) /\ Lists(r) /\ Rest(r) /\ req'[r].pc = "handler"
            BY <2>4, Moves
        <3>2. req[r].pc = "inspect" /\ req[r].snap \in req[r].floor .. file
            BY <1>2, <1>4 DEF AuthInspect, WebOK
        <3>3. Can(text, req[r].snap, req[r].user, name, PermContainerRead)
            BY <2>4, MayIsCan
        <3>4. RequestOK(req'[r], file, text)
            BY <3>1, <3>2, <3>3, HandlerOK
        <3> QED BY <2>1, <3>1, <3>4, StepKept
    <2> QED BY <2>2, <2>3, <2>4
<1> QED BY <1>3, <1>4

LEMMA RunKept ==
    ASSUME IInv, NEW r \in Requests, req[r].pc = "handler", GoTo(r, "run"), ConfigKept, TablesKept,
           req[r].op \in Checked => May(file, req[r].user, req[r].path[1], RequiredPerm(req[r].op))
    PROVE  IInv'
<1>1. Changed(r) /\ Keep(r) /\ Lists(r) /\ Rest(r) /\ req'[r].pc = "run"
    BY Moves
<1>2. ShapeOK(req[r], file) /\ WebOK(req[r], file, text)
    BY DEF IInv, RequestOK
<1>3. file \in req[r].floor .. file
    BY <1>2, AccessAssumption DEF ShapeOK, IInv, WorldOK
<1>4. req[r].op \in Checked =>
         \E v \in req[r].floor .. file : Can(text, v, req[r].user, req[r].path[1], RequiredPerm(req[r].op))
    BY <1>3, MayIsCan
<1>5. RequestOK(req'[r], file, text)
    BY <1>1, <1>2, <1>4, HandlerOK DEF WebOK
<1> QED BY <1>1, <1>5, StepKept

LEMMA PermitKept ==
    ASSUME IInv, NEW r \in Requests, NEW perm, UNCHANGED conns, req[r].pc = "handler",
           Permit(r, perm), req[r].op \in Checked => perm = RequiredPerm(req[r].op)
    PROVE  IInv'
<1>1. ConfigKept /\ TablesKept
    BY ConfigSame DEF Permit
<1>2. CASE Finish(r)
    BY <1>1, <1>2, Moves, StepKept
<1>3. CASE May(file, req[r].user, req[r].path[1], perm) /\ GoTo(r, "run")
    BY <1>1, <1>3, RunKept
<1> QED BY <1>2, <1>3 DEF Permit

LEMMA HandlersKept ==
    ASSUME IInv, NEW r \in Requests, UNCHANGED conns,
           \/ Action(r) \/ RestoreAction(r) \/ CmdContainer(r) \/ TerminalHandler(r) \/ StatsHandler(r)
           \/ InspectContainer(r) \/ ListBackups(r) \/ GetContainerLogs(r) \/ Run(r) \/ WaitEnds(r) \/ Listed(r)
    PROVE  IInv'
<1> DEFINE op == req[r].op
<1>1. CASE Action(r)
    <2>1. op \in Actions /\ req[r].pc = "handler" /\ Permit(r, containerToPerm(op))
        BY <1>1 DEF Action, At
    <2>2. containerToPerm(op) = RequiredPerm(op)
        BY <2>1 DEF containerToPerm, RequiredPerm, Actions
    <2> QED BY <2>1, <2>2, PermitKept
<1>2. CASE RestoreAction(r)
    <2>1. op = "restore" /\ req[r].pc = "handler" /\ Permit(r, PermContainerRestore)
        BY <1>2 DEF RestoreAction, At
    <2>2. PermContainerRestore = RequiredPerm(op)
        BY <2>1 DEF RequiredPerm, PermContainerRestore, Execute
    <2> QED BY <2>1, <2>2, PermitKept
<1>3. CASE CmdContainer(r)
    <2>1. op = "cmd" /\ req[r].pc = "handler" /\ Permit(r, PermContainerWrite)
        BY <1>3 DEF CmdContainer, At
    <2>2. PermContainerWrite = RequiredPerm(op)
        BY <2>1 DEF RequiredPerm
    <2> QED BY <2>1, <2>2, PermitKept
<1>4. CASE TerminalHandler(r)
    <2>1. /\ op \in {"exec", "wslogs"} /\ req[r].pc = "handler"
          /\ Permit(r, IF op = "exec" THEN PermContainerWrite ELSE PermContainerRead)
        BY <1>4 DEF TerminalHandler, At
    <2>2. (IF op = "exec" THEN PermContainerWrite ELSE PermContainerRead) = RequiredPerm(op)
        BY <2>1 DEF RequiredPerm
    <2> QED BY <2>1, <2>2, PermitKept
<1>5. CASE StatsHandler(r)
    <2>1. op = "stats" /\ req[r].pc = "handler" /\ Permit(r, PermContainerRead)
        BY <1>5 DEF StatsHandler, At
    <2>2. PermContainerRead = RequiredPerm(op)
        BY <2>1 DEF RequiredPerm
    <2> QED BY <2>1, <2>2, PermitKept
<1>6. CASE InspectContainer(r) \/ ListBackups(r) \/ GetContainerLogs(r)
    <2>1. op \in AuthOnly /\ req[r].pc = "handler" /\ Proceed(r)
        BY <1>6 DEF InspectContainer, ListBackups, GetContainerLogs, At, AuthOnly
    <2>2. op \notin Checked
        BY <2>1 DEF AuthOnly, Checked, Actions
    <2>3. ConfigKept /\ TablesKept /\ GoTo(r, "run")
        BY <2>1, ConfigSame DEF Proceed
    <2> QED BY <2>1, <2>2, <2>3, RunKept
<1>7. CASE Run(r) \/ WaitEnds(r) \/ Listed(r)
    <2>1. ConfigKept /\ TablesKept /\ Finish(r)
        BY <1>7, ConfigSame DEF Run, WaitEnds, Answer, Listed
    <2> QED BY <2>1, Moves, StepKept
<1> QED BY <1>1, <1>2, <1>3, <1>4, <1>5, <1>6, <1>7

\* The items of a listing offer only what the two checks would accept.
LEMMA ItemsOK ==
    ASSUME IInv, NEW user \in Users, NEW existing, NEW it \in ListItems(file, user, existing),
           NEW a \in it.actions
    PROVE  /\ \E name \in {NameOf[it.id], it.id} : Can(text, file, user, name, PermContainerRead)
           /\ a \in Checked => Can(text, file, user, it.id, RequiredPerm(a))
<1>1. text[file] \in AllTexts /\ text[file].servers \subseteq Names
    <2>1. text[file] \in Texts
        BY DEF IInv, WorldOK
    <2> QED BY <2>1, AccessAssumption DEF AllTexts
<1>2. PICK n \in text[file].servers :
         /\ May(file, user, n, PermContainerRead)
         /\ it = Item(file, user, n, n, calculateActions(file, user, n))
    <2>1. ASSUME NEW c, it = Item(file, user, c, NameOf[c], {}) PROVE FALSE
        BY <2>1 DEF Item
    <2> QED BY <2>1, Zenon DEF ListItems
<1>3. it.id = n /\ it.actions = calculateActions(file, user, n)
    BY <1>2 DEF Item
<1>4. May(file, user, n, PermContainerExecute) /\ a \in DefinedActions(file, n)
    BY <1>3 DEF calculateActions
<1>5. a \in {"start", "stop", "kill", "backup", "restore", "remove"}
    BY <1>4 DEF DefinedActions
<1>6. RequiredPerm(a) = Execute(a)
    BY <1>5 DEF RequiredPerm
<1>7. May(file, user, n, Execute(a))
    BY <1>1, <1>2, <1>4, MayExecute
<1> QED BY <1>2, <1>3, <1>6, <1>7, MayIsCan

LEMMA ListContainersKept ==
    ASSUME IInv, NEW r \in Requests, ListContainers(r), UNCHANGED conns
    PROVE  IInv'
<1>1. file \in Nat /\ file >= 1 /\ DOMAIN req = Requests /\ DOMAIN req[r] = DOMAIN NoRequest
    BY AccessAssumption DEF IInv, WorldOK, RequestOK, ShapeOK
<1>2. ShapeOK(req[r], file) /\ FileOK(req[r], file, text) /\ req[r].pc = "list"
    BY DEF IInv, RequestOK, ListContainers
<1>3. ConfigKept /\ TablesKept
    BY ConfigSame DEF ListContainers
<1>4. CASE Finish(r)
    BY <1>3, <1>4, Moves, StepKept
<1>5. ASSUME NEW existing, NEW items, items = ListItems(file, req[r].user, existing),
             req' = [req EXCEPT ![r].pc = "listed", ![r].snap = file, ![r].items = items]
      PROVE  IInv'
    <2>1. /\ Changed(r) /\ Keep(r) /\ Lists(r) /\ req'[r].pc = "listed" /\ req'[r].snap = file
          /\ req'[r].host = req[r].host /\ req'[r].items = items
        BY <1>1, <1>5 DEF Changed, Keep, Lists, NoRequest
    <2>2. ShapeOK(req'[r], file)
        BY <1>1, <1>2, <2>1, ShapeMoves
    <2>3. req[r].user \in Users
        BY <1>2 DEF ShapeOK
    <2>4. WebOK(req'[r], file, text)
        BY <1>1, <1>5, <2>1, <2>3, ItemsOK DEF WebOK, Keep
    <2>5. FileOK(req'[r], file, text)
        BY <1>2, <2>1 DEF FileOK
    <2> QED BY <1>3, <2>1, <2>2, <2>4, <2>5, StepKept DEF RequestOK
<1> QED BY <1>4, <1>5 DEF ListContainers

-----------------------------------------------------------------------------
(* Files.                                                                  *)

LEMMA LoginStoreKept ==
    ASSUME IInv, NEW r \in Requests, LoginStore(r), UNCHANGED conns
    PROVE  IInv'
<1>1. req[r].user \in Users
    BY DEF IInv, RequestOK, ShapeOK, LoginStore
<1>2. ConfigKept /\ Finish(r)
    BY ConfigSame DEF LoginStore
<1>3. TablesKept
    BY <1>1 DEF LoginStore, TablesKept, IInv, WorldOK
<1> QED BY <1>2, <1>3, Moves, StepKept

LEMMA CheckWriteKept ==
    ASSUME IInv, NEW r \in Requests, CheckWrite(r), UNCHANGED sessions
    PROVE  IInv'
<1>1. ShapeOK(req[r], file) /\ FileOK(req[r], file, text) /\ req[r].pc \in {"write", "write2"}
    BY DEF IInv, RequestOK, CheckWrite
<1>2. ConfigKept /\ TablesKept
    BY ConfigSame DEF CheckWrite
<1>3. CASE Finish(r)
    BY <1>2, <1>3, Moves, StepKept
<1>4. ASSUME NEW p \in {"write2", "map"}, GoTo(r, p),
             req[r].op = "davrename" /\ req[r].pc = "write" => p = "write2",
             NEW name, name = NameIn(IF req[r].pc = "write" THEN req[r].path ELSE req[r].target),
             May(file, req[r].user, name, PermFileWrite)
      PROVE  IInv'
    <2>1. Changed(r) /\ Keep(r) /\ Lists(r) /\ Rest(r) /\ req'[r].pc = p
        BY <1>4, Moves
    <2>2. req[r].floor \in 1 .. file /\ req[r].snap \in 0 .. file
        BY <1>1 DEF ShapeOK
    <2>3. ShapeOK(req'[r], file)
        BY <1>1, <2>1, <2>2, ShapeMoves DEF Rest
    <2>4. WebOK(req'[r], file, text)
        BY <1>4, <2>1 DEF WebOK
    <2>5. \E v \in req[r].floor .. file : Can(text, v, req[r].user, name, PermFileWrite)
        <3>1. file \in req[r].floor .. file
            BY <2>2, AccessAssumption DEF IInv, WorldOK
        <3> QED BY <1>4, <3>1, MayIsCan
    <2>6. req[r].op \in Changes =>
             \E v \in req[r].floor .. file : Can(text, v, req[r].user, NameIn(req[r].path), PermFileWrite)
        <3>1. CASE req[r].pc = "write"
            BY <1>4, <2>5, <3>1
        <3>2. CASE req[r].pc = "write2"
            BY <1>1, <3>2 DEF FileOK
        <3> QED BY <1>1, <3>1, <3>2
    <2>7. p = "map" /\ req[r].op = "davrename" =>
             \E v \in req[r].floor .. file : Can(text, v, req[r].user, NameIn(req[r].target), PermFileWrite)
        <3>1. CASE req[r].pc = "write"
            BY <1>4, <3>1
        <3>2. CASE req[r].pc = "write2"
            BY <1>4, <2>5, <3>2
        <3> QED BY <1>1, <3>1, <3>2
    <2>8. (req[r].op \in SftpOps => req[r].path \in Paths) /\ req[r].host = <<>>
        BY <1>1 DEF FileOK
    <2>9. FileOK(req'[r], file, text)
        BY <1>4, <2>1, <2>6, <2>7, <2>8 DEF FileOK, Keep, Rest
    <2> QED BY <1>2, <2>1, <2>3, <2>4, <2>9, StepKept DEF RequestOK
<1>5. \/ Finish(r)
      \/ /\ May(file, req[r].user, NameIn(IF req[r].pc = "write" THEN req[r].path ELSE req[r].target),
                 PermFileWrite)
         /\ GoTo(r, IF req[r].op = "davrename" /\ req[r].pc = "write" THEN "write2" ELSE "map")
    BY Zenon DEF CheckWrite
<1> QED BY <1>3, <1>4, <1>5

\* A request whose path or target has been resolved.
LEMMA ResolvedOK ==
    ASSUME IInv, NEW r \in Requests, Keep(r), Lists(r), req[r].pc \in {"map", "map2"},
           req'[r].snap = file, NEW p, req[r].pc = "map" => p = req[r].path,
           NEW rooted, rooted = (req[r].op \in SftpOps \/ Rooted(p)),
           NEW res \in MapPath(file, req[r].user, PartsOf(p, rooted)),
           req'[r].pc = Resolved(req[r], res), Resolved(req[r], res) # "answered",
           res.err = "none" => req'[r].host = Append(req[r].host, res),
           res.err # "none" => req'[r].host = req[r].host
    PROVE  RequestOK(req'[r], file, text)
<1>1. ShapeOK(req[r], file) /\ FileOK(req[r], file, text)
    BY DEF IInv, RequestOK
<1>2. file \in Nat /\ file >= 1 /\ req[r].floor \in 1 .. file /\ file \in req[r].floor .. file
    BY <1>1, AccessAssumption DEF ShapeOK, IInv, WorldOK
<1>3. text[file].servers \subseteq Names
    <2>1. text[file] \in Texts
        BY DEF IInv, WorldOK
    <2> QED BY <2>1, AccessAssumption DEF AllTexts
<1>4. \/ /\ req'[r].pc \in {"map2", "os"} /\ res.err = "none"
         /\ req'[r].pc = "map2" => req[r].pc = "map" /\ req[r].op \in Renames
      \/ req'[r].pc = "rootlist" /\ res.err # "none"
      \/ req'[r].pc = "mounts" /\ res.err = "container" /\ req[r].op = "list"
      \/ req'[r].pc = "readdir" /\ res.err \in {"root", "container"} /\ req[r].op = "open"
    <2>1. CASE res.err = "none" /\ req[r].op \in Renames /\ req[r].pc = "map"
        <3>1. Resolved(req[r], res) = "map2"
            BY <2>1 DEF Resolved
        <3> QED BY <2>1, <3>1
    <2>2. CASE res.err = "none" /\ ~ (req[r].op \in Renames /\ req[r].pc = "map")
        <3>1. Resolved(req[r], res) \in {"os", "answered"}
            BY <2>2 DEF Resolved
        <3> QED BY <2>2, <3>1
    <2>3. CASE res.err # "none"
        <3>1. \/ Resolved(req[r], res) \in {"rootlist", "answered"}
              \/ Resolved(req[r], res) = "mounts" /\ res.err = "container" /\ req[r].op = "list"
              \/ /\ Resolved(req[r], res) = "readdir" /\ res.err \in {"root", "container"}
                 /\ req[r].op = "open"
            BY <2>3 DEF Resolved
        <3> QED BY <2>3, <3>1
    <2> QED BY <2>1, <2>2, <2>3
<1>5. ShapeOK(req'[r], file)
    BY <1>1, <1>2, <1>4, ShapeMoves
<1>6. WebOK(req'[r], file, text)
    BY <1>4 DEF WebOK
<1>7. FileOK(req'[r], file, text)
    <2>1. CASE res.err # "none" /\ req'[r].pc = "rootlist"
        BY <1>1, <2>1 DEF FileOK
    <2>2. CASE res.err = "container" /\ req'[r].pc = "mounts" /\ req[r].op = "list"
        <3>0. "list" \in SftpOps /\ "list" \notin Renames
            BY DEF SftpOps, Renames
        <3>1. req[r].pc = "map" /\ req[r].path \in Paths /\ req[r].host = <<>>
            BY <1>1, <2>2, <3>0 DEF FileOK
        <3>2. p = req[r].path
            BY <3>1
        <3>3. req[r].path[1] \in Names
            <4>1. res.err \in {"none", "container"}
                BY <2>2
            <4>2. p \in Paths
                BY <3>1, <3>2
            <4>3. NameIn(p) = p[1] /\ NameIn(p) \in Names
                BY <1>3, <4>1, <4>2, PathNames
            <4> QED BY <3>2, <4>3
        <3>4. req'[r].host = <<>>
            BY <2>2, <3>1
        <3> QED BY <2>2, <3>3, <3>4 DEF FileOK, Keep
    <2>3. CASE res.err \in {"root", "container"} /\ req'[r].pc = "readdir" /\ req[r].op = "open"
        <3>0. "open" \notin SftpOps /\ "open" \notin Renames
            BY DEF SftpOps, Renames
        <3>1. req[r].pc = "map" /\ req[r].host = <<>>
            BY <1>1, <2>3, <3>0 DEF FileOK
        <3>2. p = req[r].path /\ rooted = Rooted(req[r].path)
            BY <2>3, <3>0, <3>1 DEF Rooted
        <3>3. \/ PartsOf(req[r].path, Rooted(req[r].path)) = <<>>
              \/ PartsOf(req[r].path, Rooted(req[r].path))[1] \in Names
            <4>1. CASE res.err = "container"
                <5>1. res.err \in {"none", "container"}
                    BY <4>1
                <5>2. PartsOf(p, rooted)[1] \in text[file].servers
                    BY <5>1, MapPathNames
                <5> QED BY <1>3, <3>2, <5>2
            <4>2. CASE res.err = "root"
                <5>1. PartsOf(p, rooted) = <<>>
                    BY <4>2, RootIsEmpty
                <5> QED BY <3>2, <5>1
            <4> QED BY <2>3, <4>1, <4>2
        <3>4. req'[r].host = <<>>
            BY <2>3, <3>1
        <3> QED BY <2>3, <3>3, <3>4 DEF FileOK, Keep
    <2>4. CASE /\ req'[r].pc \in {"map2", "os"} /\ res.err = "none"
               /\ req'[r].pc = "map2" => req[r].pc = "map" /\ req[r].op \in Renames
        <3>1. Can(text, file, req[r].user, res.name, PermContainerRead)
            BY <2>4, MapPathNames, MayIsCan
        <3>2. req'[r].host = Append(req[r].host, res)
            BY <2>4
        <3>3. req[r].op \in Changes =>
                 \E v \in req[r].floor .. file : Can(text, v, req[r].user, NameIn(req[r].path), PermFileWrite)
            BY <1>1 DEF FileOK
        <3>4. req[r].op = "davrename" =>
                 \E v \in req[r].floor .. file : Can(text, v, req[r].user, NameIn(req[r].target), PermFileWrite)
            BY <1>1 DEF FileOK
        <3>5. CASE req[r].pc = "map"
            <4>1. (req[r].op \in SftpOps => req[r].path \in Paths) /\ req[r].host = <<>>
                BY <1>1, <3>5 DEF FileOK
            <4>2. req'[r].host = <<res>>
                BY <3>2, <4>1, AppendOne
            <4>3. ASSUME req[r].op \in SftpOps PROVE res.name = NameIn(req[r].path)
                <5>1. p = req[r].path
                    BY <3>5
                <5>2. p \in Paths /\ res.err = "none"
                    BY <2>4, <4>1, <4>3, <5>1
                <5>3. res.name = NameIn(p)
                    BY <1>3, <5>2, MappedName
                <5> QED BY <5>1, <5>3
            <4>4. /\ req'[r].host[1] = res /\ DOMAIN req'[r].host = {1} /\ req'[r].host # <<>>
                  /\ req'[r].host = <<req'[r].host[1]>>
                BY <4>2, TupleFacts
            <4>5. \A i \in DOMAIN req'[r].host : \E v \in req[r].floor .. file :
                     Can(text, v, req[r].user, req'[r].host[i].name, PermContainerRead)
                BY <1>2, <3>1, <4>4
            <4>6. req[r].op \in SftpOps => req'[r].host[1].name = NameIn(req[r].path)
                BY <4>3, <4>4
            <4> QED BY <2>4, <3>3, <3>4, <4>4, <4>5, <4>6 DEF FileOK, Keep
        <3>6. CASE req[r].pc = "map2"
            <4>0. req'[r].pc = "os"
                BY <2>4, <3>6
            <4>1. req[r].host = <<req[r].host[1]>> /\ req[r].host # <<>>
                <5>1. req[r].host = <<req[r].host[1]>>
                    BY <1>1, <3>6 DEF FileOK
                <5>2. \A x : <<x>> # <<>>
                    OBVIOUS
                <5> QED BY <5>1, <5>2, Zenon
            <4> DEFINE x == req[r].host[1]
            <4>2. req'[r].host = <<x, res>>
                BY <3>2, <4>1, AppendTwo
            <4>3. req[r].op \in SftpOps => x.name = NameIn(req[r].path)
                BY <1>1, <3>6, <4>1 DEF FileOK
            <4>4. \E v \in req[r].floor .. file : Can(text, v, req[r].user, x.name, PermContainerRead)
                <5>1. 1 \in DOMAIN req[r].host
                    BY <4>1
                <5> QED BY <1>1, <3>6, <4>1, <5>1 DEF FileOK
            <4> HIDE DEF x
            <4>5. /\ req'[r].host[1] = x /\ req'[r].host[2] = res /\ DOMAIN req'[r].host = {1, 2}
                  /\ req'[r].host # <<>> /\ req'[r].host = <<req'[r].host[1], req'[r].host[2]>>
                <5>1. /\ <<x, res>>[1] = x /\ <<x, res>>[2] = res /\ DOMAIN <<x, res>> = {1, 2}
                      /\ <<x, res>> # <<>>
                    BY TupleFacts
                <5>2. /\ req'[r].host[1] = x /\ req'[r].host[2] = res
                      /\ DOMAIN req'[r].host = {1, 2} /\ req'[r].host # <<>>
                    BY <4>2, <5>1, Zenon
                <5> QED BY <4>2, <5>2, Zenon
            <4>6. \A i \in DOMAIN req'[r].host : \E v \in req[r].floor .. file :
                     Can(text, v, req[r].user, req'[r].host[i].name, PermContainerRead)
                BY <1>2, <3>1, <4>4, <4>5
            <4>7. req[r].op \in SftpOps => req'[r].host[1].name = NameIn(req[r].path)
                BY <4>3, <4>5
            <4> QED BY <3>3, <3>4, <4>0, <4>5, <4>6, <4>7 DEF FileOK, Keep
        <3> QED BY <3>5, <3>6
    <2> QED BY <1>4, <2>1, <2>2, <2>3, <2>4
<1> QED BY <1>5, <1>6, <1>7 DEF RequestOK

LEMMA MapKept ==
    ASSUME IInv, NEW r \in Requests, Map(r), UNCHANGED sessions
    PROVE  IInv'
<1>1. DOMAIN req = Requests /\ DOMAIN req[r] = DOMAIN NoRequest
    BY DEF IInv, RequestOK, ShapeOK
<1>2. ConfigKept /\ TablesKept /\ req[r].pc \in {"map", "map2"}
    BY ConfigSame DEF Map
<1>3. CASE Finish(r)
    BY <1>2, <1>3, Moves, StepKept
<1> DEFINE p == IF req[r].pc = "map" THEN req[r].path ELSE req[r].target
           rooted == req[r].op \in SftpOps \/ Rooted(p)
<1>4. ASSUME NEW res \in MapPath(file, req[r].user, PartsOf(p, rooted)),
             NEW next, next = Resolved(req[r], res), next # "answered",
             NEW host, host = IF res.err = "none" THEN Append(req[r].host, res) ELSE req[r].host,
             req' = [req EXCEPT ![r].pc = next, ![r].snap = file, ![r].host = host]
      PROVE  IInv'
    <2>1. /\ Changed(r) /\ Keep(r) /\ Lists(r) /\ req'[r].pc = next /\ req'[r].snap = file
          /\ req'[r].host = host
        BY <1>1, <1>4 DEF Changed, Keep, Lists, NoRequest
    <2>2. (req[r].pc = "map" => p = req[r].path) /\ rooted = (req[r].op \in SftpOps \/ Rooted(p))
        BY DEF p, rooted
    <2>3. RequestOK(req'[r], file, text)
        BY <1>2, <1>4, <2>1, <2>2, ResolvedOK
    <2> QED BY <1>2, <2>1, <2>3, StepKept
<1>5. Finish(r) \/ \E res \in MapPath(file, req[r].user, PartsOf(p, rooted)) :
         /\ Resolved(req[r], res) # "answered"
         /\ req' = [req EXCEPT ![r].pc = Resolved(req[r], res), ![r].snap = file,
                      ![r].host = IF res.err = "none" THEN Append(@, res) ELSE @]
    BY Zenon DEF Map
<1> HIDE DEF p, rooted
<1> QED BY <1>3, <1>4, <1>5

-----------------------------------------------------------------------------
(* Listings.                                                               *)

LEMMA ShowKept ==
    ASSUME IInv, NEW r \in Requests, req[r].pc \notin {"idle", "token", "dav"}, ConfigKept, TablesKept,
           NEW v \in 0 .. file, NEW entries \in Seq(Entries), NEW next \in {"page", "paged"},
           Show(r, v, entries, next)
    PROVE  IInv'
<1>1. DOMAIN req = Requests /\ DOMAIN req[r] = DOMAIN NoRequest
    BY DEF IInv, RequestOK, ShapeOK
<1>2. ShapeOK(req[r], file) /\ FileOK(req[r], file, text)
    BY DEF IInv, RequestOK
<1> DEFINE sent == IF next = "paged" THEN entries ELSE <<>>
<1>3. /\ sent \in Seq(Entries) /\ Len(sent) <= Len(entries)
      /\ next = "page" => sent = SubSeq(entries, 1, Len(sent))
      /\ next = "paged" => sent = entries
    BY SubSeqEmpty
<1>4. req' = [req EXCEPT ![r].pc = next, ![r].out = entries, ![r].snap = v, ![r].sent = sent]
    BY DEF Show
<1> HIDE DEF sent
<1>5. /\ Changed(r) /\ Keep(r) /\ req'[r].pc = next /\ req'[r].out = entries
      /\ req'[r].snap = v /\ req'[r].sent = sent /\ req'[r].host = req[r].host
    BY <1>1, <1>4 DEF Changed, Keep, NoRequest
<1>6. ShapeOK(req'[r], file)
    BY <1>2, <1>3, <1>5 DEF ShapeOK, Keep
<1>7. WebOK(req'[r], file, text)
    BY <1>5 DEF WebOK
<1>8. FileOK(req'[r], file, text)
    BY <1>2, <1>5 DEF FileOK
<1> QED BY <1>5, <1>6, <1>7, <1>8, StepKept DEF RequestOK

LEMMA MountsTyped ==
    ASSUME NEW name \in Names, NEW mounts \in {{}, Mounts[name]}
    PROVE  SetToSeq(mounts) \in Seq(Entries)
<1>1. IsFiniteSet(mounts)
    BY FS_EmptySet, FileAssumption, Zenon
<1>2. mounts \subseteq Entries
    BY DEF Entries
<1> QED BY <1>1, <1>2, SetToSeqTyped, SeqMonotonic

LEMMA Bounds == Page \in Nat \ {0} /\ MaxEntries \in Nat
BY FileAssumption, Zenon

\* The list of the servers a user may read.
LEMMA ReadableTyped ==
    ASSUME IInv, NEW user
    PROVE  SetToSeq(Readable(file, user)) \in Seq(Entries)
<1> DEFINE listed == {s \in text[file].servers : May(file, user, s, PermContainerRead)}
           names  == {<<n>> : n \in listed}
<1>1. names \subseteq Entries
    <2>1. text[file] \in Texts
        BY DEF IInv, WorldOK
    <2>2. text[file].servers \subseteq Names
        BY <2>1, AccessAssumption DEF AllTexts
    <2> QED BY <2>2 DEF Entries
<1>2. IsFiniteSet(names)
    <2>0. text[file] \in Texts
        BY DEF IInv, WorldOK
    <2>1. IsFiniteSet(text[file].servers)
        BY <2>0, FileAssumption, Zenon
    <2>2. IsFiniteSet(listed)
        BY <2>1, FS_Subset
    <2> DEFINE f == [n \in listed |-> <<n>>]
    <2>3. f \in Surjection(listed, names)
        BY DEF Surjection
    <2> QED BY <2>2, <2>3, FS_Surjection DEF ExistsSurjection
<1>3. Readable(file, user) = names
    BY DEF Readable
<1> HIDE DEF names
<1> QED BY <1>1, <1>2, <1>3, SetToSeqTyped, SeqMonotonic

LEMMA ListingsKept ==
    ASSUME IInv, NEW r \in Requests, UNCHANGED sessions,
           FilelistRoot(r) \/ FilelistMounts(r) \/ FilelistDir(r) \/ Readdir(r)
    PROVE  IInv'
<1>1. file \in Nat /\ file >= 1 /\ req[r].snap \in 0 .. file /\ file \in 0 .. file
    BY AccessAssumption DEF IInv, WorldOK, RequestOK, ShapeOK
<1>2. CASE FilelistRoot(r)
    <2>1. /\ req[r].pc = "rootlist" /\ ConfigKept /\ TablesKept
          /\ Show(r, file, SetToSeq(Readable(file, req[r].user)), "page")
        BY <1>2, ConfigSame DEF FilelistRoot
    <2> QED BY <1>1, <2>1, ReadableTyped, ShowKept
<1>3. CASE FilelistMounts(r)
    <2>1. req[r].pc = "mounts" /\ ConfigKept /\ TablesKept
        BY <1>3, ConfigSame DEF FilelistMounts
    <2>2. req[r].path[1] \in Names
        BY <2>1 DEF IInv, RequestOK, FileOK
    <2>3. PICK mounts \in {{}, Mounts[req[r].path[1]]} : Show(r, req[r].snap, SetToSeq(mounts), "page")
        BY <1>3 DEF FilelistMounts
    <2>4. SetToSeq(mounts) \in Seq(Entries)
        BY <2>2, MountsTyped
    <2> QED BY <1>1, <2>1, <2>3, <2>4, ShowKept
<1>4. CASE FilelistDir(r)
    <2>1. req[r].pc = "os" /\ ConfigKept /\ TablesKept
        BY <1>4, ConfigSame DEF FilelistDir
    <2>2. CASE Finish(r)
        BY <2>1, <2>2, Moves, StepKept
    <2>3. ASSUME NEW n \in 0 .. MaxEntries, NEW gone,
                 Show(r, req[r].snap, [i \in 1 .. n |-> IF i \in gone THEN <<>> ELSE <<i>>], "page")
          PROVE  IInv'
        <3> DEFINE entries == [i \in 1 .. n |-> IF i \in gone THEN <<>> ELSE <<i>>]
        <3>1. n \in Nat /\ 1 .. n \subseteq 1 .. MaxEntries
            BY Bounds
        <3>2. <<>> \in Entries /\ \A i \in 1 .. MaxEntries : <<i>> \in Entries
            BY Zenon DEF Entries
        <3>3. \A i \in 1 .. n : (IF i \in gone THEN <<>> ELSE <<i>>) \in Entries
            BY <3>1, <3>2, Zenon
        <3>4. entries \in [1 .. n -> Entries]
            BY <3>3, Zenon
        <3> HIDE DEF entries
        <3>5. entries \in Seq(Entries)
            BY <3>1, <3>4
        <3>6. Show(r, req[r].snap, entries, "page")
            BY <2>3 DEF entries
        <3> QED BY <1>1, <2>1, <3>5, <3>6, ShowKept
    <2> QED BY <1>4, <2>2, <2>3 DEF FilelistDir
<1>5. CASE Readdir(r)
    <2> DEFINE parts == PartsOf(req[r].path, Rooted(req[r].path))
    <2>1. req[r].pc = "readdir" /\ ConfigKept /\ TablesKept
        BY <1>5, ConfigSame DEF Readdir
    <2>2. parts = <<>> \/ parts[1] \in Names
        BY <2>1 DEF IInv, RequestOK, FileOK
    <2>3. \/ parts = <<>> /\ Show(r, file, SetToSeq(Readable(file, req[r].user)), "paged")
          \/ parts # <<>> /\ \E mounts \in {{}, Mounts[parts[1]]} :
                                Show(r, file, SetToSeq(mounts), "paged")
        BY <1>5, Zenon DEF Readdir
    <2> HIDE DEF parts
    <2>4. CASE Show(r, file, SetToSeq(Readable(file, req[r].user)), "paged")
        BY <1>1, <2>1, <2>4, ReadableTyped, ShowKept
    <2>5. ASSUME parts[1] \in Names, NEW mounts \in {{}, Mounts[parts[1]]},
                 Show(r, file, SetToSeq(mounts), "paged")
          PROVE  IInv'
        <3>1. SetToSeq(mounts) \in Seq(Entries)
            BY <2>5, MountsTyped
        <3> QED BY <1>1, <2>1, <2>5, <3>1, ShowKept
    <2> QED BY <2>2, <2>3, <2>4, <2>5
<1> QED BY <1>2, <1>3, <1>4, <1>5

\* A page continues what was sent, and is empty only at the end.
LEMMA PageFollows ==
    ASSUME NEW out \in Seq(Entries), NEW k \in 0 .. Len(out)
    PROVE  LET got == ListAt(out, k) IN
           /\ got.n \in Nat /\ k + got.n <= Len(out)
           /\ got.n = 0 => k = Len(out)
           /\ SubSeq(out, 1, k) \o SubSeq(out, k + 1, k + got.n) = SubSeq(out, 1, k + got.n)
<1>1. ListAt(out, k).n \in Nat /\ k + ListAt(out, k).n <= Len(out)
      /\ (ListAt(out, k).n = 0 => k = Len(out))
    <2> DEFINE rest == Len(out) - k
               size == IF Page < rest THEN Page ELSE rest
    <2>0. \A a, b \in Nat : /\ a <= b /\ a >= b => a = b
                           /\ \A d \in Nat : a + d = b /\ ~ (a >= b) => d # 0
        OBVIOUS
    <2>1. Len(out) \in Nat /\ k \in Nat /\ k <= Len(out) /\ rest \in Nat /\ k + rest = Len(out)
        OBVIOUS
    <2>2. Page \in Nat /\ Page # 0
        BY Bounds
    <2>3. CASE k >= Len(out)
        <3>1. ListAt(out, k) = [n |-> 0, eof |-> TRUE]
            BY <2>3 DEF ListAt
        <3>2. ListAt(out, k).n = 0
            BY <3>1
        <3>3. k = Len(out)
            BY <2>0, <2>1, <2>3, Zenon
        <3> QED BY <2>1, <3>2, <3>3
    <2>4. CASE ~ (k >= Len(out))
        <3>1. ListAt(out, k) = [n |-> size, eof |-> size < Page]
            BY <2>4 DEF ListAt
        <3>2. ListAt(out, k).n = size
            BY <3>1
        <3>3. size \in Nat /\ size # 0 /\ k + size <= Len(out)
            <4>1. ASSUME NEW a \in Nat, NEW b \in Nat, b # 0, k + b = Len(out), a # 0
                  PROVE  LET m == IF a < b THEN a ELSE b
                         IN  m \in Nat /\ m # 0 /\ k + m <= Len(out)
                BY <2>1, <4>1
            <4>2. rest # 0
                BY <2>0, <2>1, <2>4, Zenon
            <4> QED BY <2>1, <2>2, <4>1, <4>2
        <3> QED BY <3>2, <3>3
    <2> QED BY <2>3, <2>4
<1> DEFINE n == ListAt(out, k).n
<1> HIDE DEF n
<1>2. n \in Nat /\ k + n <= Len(out)
    BY <1>1 DEF n
<1>3. 1 \in 1 .. Len(out) + 1 /\ k \in 1 - 1 .. Len(out) /\ k + n \in k .. Len(out)
    BY <1>2
<1>4. SubSeq(out, 1, k) \o SubSeq(out, k + 1, k + n) = SubSeq(out, 1, k + n)
    BY <1>3, ConcatAdjacentSubSeq
<1> QED BY <1>1, <1>4 DEF n

LEMMA SendPageKept ==
    ASSUME IInv, NEW r \in Requests, SendPage(r), UNCHANGED sessions
    PROVE  IInv'
<1>1. DOMAIN req = Requests /\ DOMAIN req[r] = DOMAIN NoRequest
    BY DEF IInv, RequestOK, ShapeOK
<1>2. ShapeOK(req[r], file) /\ FileOK(req[r], file, text) /\ req[r].pc = "page"
    BY DEF IInv, RequestOK, SendPage
<1>3. ConfigKept /\ TablesKept
    BY ConfigSame DEF SendPage
<1> DEFINE out == req[r].out
           sent == req[r].sent
           k == Len(sent)
           n == ListAt(out, k).n
           more == SubSeq(out, k + 1, k + n)
<1>4. /\ out \in Seq(Entries) /\ sent \in Seq(Entries) /\ k \in 0 .. Len(out)
      /\ sent = SubSeq(out, 1, k)
    BY <1>2 DEF ShapeOK
<1>5. /\ n \in Nat /\ k + n <= Len(out) /\ (n = 0 => k = Len(out))
      /\ sent \o more = SubSeq(out, 1, k + n)
    BY <1>4, PageFollows
<1>6. CASE n = 0 /\ GoTo(r, "paged")
    <2>1. Changed(r) /\ Keep(r) /\ Lists(r) /\ Rest(r) /\ req'[r].pc = "paged"
        BY <1>6, Moves
    <2>2. sent = out
        BY <1>4, <1>5, <1>6, SubSeqFull
    <2>3. ShapeOK(req'[r], file)
        BY <1>2, <2>1, <2>2 DEF ShapeOK, Keep, Lists, Rest
    <2>4. WebOK(req'[r], file, text)
        BY <2>1 DEF WebOK
    <2>5. FileOK(req'[r], file, text)
        BY <1>2, <2>1 DEF FileOK, Rest
    <2> QED BY <1>3, <2>1, <2>3, <2>4, <2>5, StepKept DEF RequestOK
<1>7. CASE req' = [req EXCEPT ![r].sent = sent \o more]
    <2> DEFINE all == sent \o more
    <2>1. all \in Seq(Entries) /\ Len(all) = k + n /\ all = SubSeq(out, 1, k + n)
        <3>1. k + n \in 0 .. Len(out)
            BY <1>4, <1>5
        <3>2. \A m \in 0 .. Len(out) : SubSeq(out, 1, m) \in Seq(Entries) /\ Len(SubSeq(out, 1, m)) = m
            BY <1>4
        <3> QED BY <1>5, <3>1, <3>2
    <2>2. req' = [req EXCEPT ![r].sent = all]
        BY <1>7
    <2> HIDE DEF all, n, k, more
    <2>3. /\ Changed(r) /\ Keep(r) /\ req'[r].pc = "page" /\ req'[r].out = out
          /\ req'[r].snap = req[r].snap /\ req'[r].sent = all /\ req'[r].host = req[r].host
        BY <1>1, <1>2, <2>2 DEF Changed, Keep, NoRequest
    <2>4. ShapeOK(req'[r], file)
        BY <1>2, <1>5, <2>1, <2>3 DEF ShapeOK, Keep
    <2>5. WebOK(req'[r], file, text)
        BY <2>3 DEF WebOK
    <2>6. FileOK(req'[r], file, text)
        BY <1>2, <2>3 DEF FileOK
    <2> QED BY <1>3, <2>3, <2>4, <2>5, <2>6, StepKept DEF RequestOK
<1>8. \/ n = 0 /\ GoTo(r, "paged")
      \/ req' = [req EXCEPT ![r].sent = sent \o more]
    BY DEF SendPage, NextPage
<1> QED BY <1>6, <1>7, <1>8

LEMMA EndKept ==
    ASSUME IInv, NEW r \in Requests, OsCall(r) \/ CloseHandle(r) \/ EndList(r), UNCHANGED sessions
    PROVE  IInv'
<1>1. ConfigKept /\ TablesKept /\ (Finish(r) \/ (req[r].pc = "os" /\ GoTo(r, "handle")))
    BY ConfigSame DEF OsCall, CloseHandle, EndList
<1>2. CASE Finish(r)
    BY <1>1, <1>2, Moves, StepKept
<1>3. CASE req[r].pc = "os" /\ GoTo(r, "handle")
    <2>1. Changed(r) /\ Keep(r) /\ Lists(r) /\ Rest(r) /\ req'[r].pc = "handle"
        BY <1>3, Moves
    <2>2. ShapeOK(req[r], file) /\ FileOK(req[r], file, text)
        BY DEF IInv, RequestOK
    <2>3. ShapeOK(req'[r], file)
        <3>1. req'[r].snap \in 0 .. file
            BY <2>1, <2>2 DEF ShapeOK, Rest
        <3> QED BY <1>3, <2>1, <3>1, ShapeMoves
    <2>4. WebOK(req'[r], file, text)
        BY <2>1 DEF WebOK
    <2>5. FileOK(req'[r], file, text)
        BY <1>3, <2>1, <2>2 DEF FileOK, Keep, Rest
    <2> QED BY <1>1, <2>1, <2>3, <2>4, <2>5, StepKept DEF RequestOK
<1> QED BY <1>1, <1>2, <1>3

\* The process starts again, without requests, sessions and connections.
LEMMA PanicKept ==
    ASSUME IInv, NEW r \in Requests, Panic(r)
    PROVE  IInv'
<1>1. ConfigKept /\ TablesKept
    BY ConfigSame DEF Panic, TablesKept
<1>2. WorldOK'
    BY <1>1 DEF IInv, WorldOK, ConfigKept, TablesKept
<1>3. DOMAIN req' = Requests /\ \A q \in Requests : req'[q] = NoRequest
    BY DEF Panic
<1>4. RequestOK(NoRequest, file, text)
    BY NoRequestOK DEF IInv
<1> QED BY <1>1, <1>2, <1>3, <1>4 DEF IInv, ConfigKept

-----------------------------------------------------------------------------
(* Edits, connections, and every step.                                     *)

\* What was permitted in a version stays so when another one is written.
LEMMA Grows ==
    ASSUME NEW f \in Nat, NEW T, NEW U, \A v \in 1 .. f : U[v] = T[v],
           NEW q, RequestOK(q, f, T)
    PROVE  RequestOK(q, f + 1, U)
<1>1. \A v \in 1 .. f : \A u, name, perm : Can(U, v, u, name, perm) <=> Can(T, v, u, name, perm)
    BY DEF Can
<1> HIDE DEF RequiredPerm
<1>2. ShapeOK(q, f) /\ WebOK(q, f, T) /\ FileOK(q, f, T)
    BY DEF RequestOK
<1>3. ShapeOK(q, f + 1)
    <2>1. 0 .. f \subseteq 0 .. f + 1 /\ 1 .. f \subseteq 1 .. f + 1
        OBVIOUS
    <2> QED BY <1>2, <2>1, Zenon DEF ShapeOK
<1>4. ASSUME q.pc \notin {"idle", "token", "dav"}
      PROVE  /\ q.floor .. f \subseteq 1 .. f /\ q.floor .. f \subseteq q.floor .. f + 1
             /\ q.floor .. f \subseteq 1 .. f + 1
    <2>1. q.floor \in 1 .. f
        BY <1>2, <1>4 DEF ShapeOK
    <2> QED BY <2>1
<1>5. WebOK(q, f + 1, U)
    <2>1. q.pc = "inspect" => q.snap \in q.floor .. f + 1
        BY <1>2, <1>4 DEF WebOK
    <2>2. ASSUME q.pc \in {"handler", "run"}
          PROVE  \E v \in q.floor .. f + 1, name \in {NameOf[q.path[1]], q.path[1]} :
                    Can(U, v, q.user, name, PermContainerRead)
        <3>1. PICK v \in q.floor .. f, name \in {NameOf[q.path[1]], q.path[1]} :
                    Can(T, v, q.user, name, PermContainerRead)
            BY <1>2, <2>2 DEF WebOK
        <3>2. v \in 1 .. f /\ v \in q.floor .. f + 1
            BY <1>4, <2>2, <3>1
        <3> QED BY <1>1, <3>1, <3>2
    <2>3. ASSUME q.pc = "run", q.op \in Checked
          PROVE  \E v \in q.floor .. f + 1 : Can(U, v, q.user, q.path[1], RequiredPerm(q.op))
        <3>1. PICK v \in q.floor .. f : Can(T, v, q.user, q.path[1], RequiredPerm(q.op))
            BY <1>2, <2>3 DEF WebOK
        <3>2. v \in 1 .. f /\ v \in q.floor .. f + 1
            BY <1>4, <2>3, <3>1
        <3> QED BY <1>1, <3>1, <3>2
    <2>4. ASSUME q.pc = "listed"
          PROVE  /\ q.snap \in 1 .. f + 1
                 /\ \A it \in q.items : \A a \in it.actions :
                       /\ \E name \in {NameOf[it.id], it.id} :
                             Can(U, q.snap, q.user, name, PermContainerRead)
                       /\ a \in Checked => Can(U, q.snap, q.user, it.id, RequiredPerm(a))
        <3>1. /\ q.snap \in 1 .. f
              /\ \A it \in q.items : \A a \in it.actions :
                    /\ \E name \in {NameOf[it.id], it.id} :
                          Can(T, q.snap, q.user, name, PermContainerRead)
                    /\ a \in Checked => Can(T, q.snap, q.user, it.id, RequiredPerm(a))
            BY <1>2, <2>4 DEF WebOK
        <3>2. q.snap \in 1 .. f + 1
            BY <3>1
        <3> QED BY <1>1, <3>1, <3>2, Zenon
    <2> QED BY <2>1, <2>2, <2>3, <2>4 DEF WebOK
<1>6. FileOK(q, f + 1, U)
    <2>1. ASSUME q.pc \in {"map2", "os", "handle"}, q.host # <<>>, NEW i \in DOMAIN q.host
          PROVE  \E v \in q.floor .. f + 1 : Can(U, v, q.user, q.host[i].name, PermContainerRead)
        <3>1. PICK v \in q.floor .. f : Can(T, v, q.user, q.host[i].name, PermContainerRead)
            BY <1>2, <2>1 DEF FileOK
        <3>2. v \in 1 .. f /\ v \in q.floor .. f + 1
            BY <1>4, <2>1, <3>1
        <3> QED BY <1>1, <3>1, <3>2
    <2>2. ASSUME q.pc \in {"write2", "map", "map2", "os", "handle"}, NEW name, NEW perm,
                 \E v \in q.floor .. f : Can(T, v, q.user, name, perm)
          PROVE  \E v \in q.floor .. f + 1 : Can(U, v, q.user, name, perm)
        <3>1. PICK v \in q.floor .. f : Can(T, v, q.user, name, perm)
            BY <2>2
        <3>2. v \in 1 .. f /\ v \in q.floor .. f + 1
            BY <1>4, <2>2, <3>1
        <3> QED BY <1>1, <3>1, <3>2
    <2>3. q.pc \in {"write2", "map", "map2", "os", "handle"} /\ q.op \in Changes =>
             \E v \in q.floor .. f + 1 : Can(U, v, q.user, NameIn(q.path), PermFileWrite)
        BY <1>2, <2>2 DEF FileOK
    <2>4. q.pc \in {"map", "map2", "os", "handle"} /\ q.op = "davrename" =>
             \E v \in q.floor .. f + 1 : Can(U, v, q.user, NameIn(q.target), PermFileWrite)
        BY <1>2, <2>2 DEF FileOK
    <2> QED BY <1>2, <2>1, <2>3, <2>4 DEF FileOK
<1> QED BY <1>3, <1>5, <1>6 DEF RequestOK

LEMMA WriteKept ==
    ASSUME IInv, Write, UNCHANGED <<sessions, conns>>
    PROVE  IInv'
<1>1. /\ file \in 1 .. MaxFile /\ file < MaxFile /\ MaxFile \in Nat /\ cfg \in 1 .. file /\ loaded = cfg
      /\ file' = file + 1 /\ cfg' = cfg /\ loaded' = loaded /\ req' = req
    BY AccessAssumption DEF IInv, WorldOK, Write, Edit
<1>2. PICK c \in Texts : text' = [text EXCEPT ![file + 1] = c]
    BY DEF Write
<1>3. text \in [1 .. MaxFile -> Texts]
    BY DEF IInv, WorldOK
<1>4. text' \in [1 .. MaxFile -> Texts] /\ \A v \in 1 .. file : text'[v] = text[v]
    BY <1>1, <1>2, <1>3
<1>5. WorldOK'
    BY <1>1, <1>4 DEF IInv, WorldOK
<1>6. ASSUME NEW r \in Requests PROVE RequestOK(req[r], file + 1, text')
    <2>1. RequestOK(req[r], file, text) /\ file \in Nat
        BY <1>1 DEF IInv
    <2> QED BY <1>4, <2>1, Grows
<1> QED BY <1>1, <1>5, <1>6 DEF IInv

\* A step that changes no request.
LEMMA NoRequestMoves ==
    ASSUME IInv, ConfigKept, TablesKept, req' = req
    PROVE  IInv'
<1>1. WorldOK'
    BY DEF IInv, WorldOK, ConfigKept, TablesKept
<1> QED BY <1>1 DEF IInv, ConfigKept

LEMMA ConnectKept ==
    ASSUME IInv, NEW c \in Conns, SftpConnect(c) \/ SftpDisconnect(c), UNCHANGED sessions
    PROVE  IInv'
<1>1. ConfigKept /\ req' = req
    BY ConfigSame DEF SftpConnect, SftpDisconnect
<1>2. conns \in [Conns -> Users \cup {NoUser}] /\ TablesKept
    <2>1. conns \in [Conns -> Users \cup {NoUser}] /\ sessions' \in [Tokens -> Users \cup {NoUser}]
        BY DEF IInv, WorldOK
    <2>2. \/ conns' = conns
          \/ \E u \in Users \cup {NoUser} : conns' = [conns EXCEPT ![c] = u]
        BY DEF SftpConnect, SftpDisconnect
    <2> QED BY <2>1, <2>2 DEF TablesKept
<1> QED BY <1>1, <1>2, NoRequestMoves

LEMMA InitIInv == Init => IInv
<1> SUFFICES ASSUME Init PROVE IInv
    OBVIOUS
<1>1. WorldOK
    <2>1. file = 1 /\ cfg = 1 /\ loaded = 1
        BY DEF Init, ConfigInit, SourceInit
    <2>2. text \in [1 .. MaxFile -> Texts]
        BY DEF Init, ConfigInit
    <2> QED BY <2>1, <2>2, AccessAssumption DEF Init, WorldOK, SessionsInit, ConnsInit
<1>2. DOMAIN req = Requests /\ \A r \in Requests : req[r] = NoRequest
    BY DEF Init, ConfigInit
<1> QED BY <1>1, <1>2, NoRequestOK DEF IInv

LEMMA NextIInv == IInv /\ [Next]_vars => IInv'
<1> SUFFICES ASSUME IInv, [Next]_vars PROVE IInv'
    OBVIOUS
<1>1. CASE Write /\ UNCHANGED <<sessions, conns>>
    BY <1>1, WriteKept
<1>2. ASSUME NEW r \in Requests, LoginStore(r) \/ WebWork(r), UNCHANGED conns PROVE IInv'
    BY <1>2, LoginStoreKept, AuthKept, HandlersKept, ListContainersKept DEF WebWork
<1>3. ASSUME NEW r \in Requests, FileWork(r), UNCHANGED sessions PROVE IInv'
    BY <1>3, RequestsKept, CheckWriteKept, MapKept, EndKept, ListingsKept, SendPageKept DEF FileWork
<1>4. ASSUME NEW r \in Requests, Login(r) \/ Arrive(r), UNCHANGED conns PROVE IInv'
    BY <1>4, LoginKept, ArriveKept
<1>5. ASSUME NEW r \in Requests, SftpRequest(r) \/ DavHandler(r), UNCHANGED sessions PROVE IInv'
    BY <1>5, RequestsKept, DavHandlerKept
<1>6. ASSUME NEW c \in Conns, SftpConnect(c) \/ SftpDisconnect(c), UNCHANGED sessions PROVE IInv'
    BY <1>6, ConnectKept
<1>7. ASSUME NEW r \in Requests, Leave(r) PROVE IInv'
    BY <1>7, HandlersKept, EndKept DEF Leave
<1>8. ASSUME NEW r \in Requests, Panic(r) PROVE IInv'
    BY <1>8, PanicKept
<1>9. CASE UNCHANGED vars
    <2>1. ConfigKept /\ TablesKept /\ req' = req
        BY <1>9, ConfigSame DEF vars
    <2> QED BY <2>1, NoRequestMoves
<1> QED BY <1>1, <1>2, <1>3, <1>4, <1>5, <1>6, <1>7, <1>8, <1>9, Zenon DEF Next, Work

LEMMA Invariance == Spec => []IInv
<1>1. Init => IInv
    BY InitIInv
<1>2. IInv /\ [Next]_vars => IInv'
    BY NextIInv
<1> QED BY <1>1, <1>2, PTL DEF Spec

-----------------------------------------------------------------------------
(* What follows.                                                           *)

\* Every variable has its type, and no request holds more than two host files
\* (os.Rename of vfs paths takes two).
THEOREM TypeCorrect == Spec => []TypeOK
<1>1. IInv => TypeOK
    <2> SUFFICES ASSUME IInv PROVE TypeOK
        OBVIOUS
    <2>1. ASSUME NEW r \in Requests
          PROVE  /\ req[r].op \in AllOps
                 /\ req[r].user \in Users <=> req[r].pc # "idle"
                 /\ req[r].snap \in 0 .. file /\ req[r].floor \in 0 .. file
                 /\ Len(req[r].sent) <= Len(req[r].out)
        BY DEF IInv, RequestOK, ShapeOK
    <2>2. ASSUME NEW r \in Requests PROVE Len(req[r].host) <= 2
        <3> DEFINE h == req[r].host
        <3>1. h = <<>> \/ h = <<h[1]>> \/ h = <<h[1], h[2]>>
            BY DEF IInv, RequestOK, FileOK
        <3>2. /\ Len(<<>>) = 0 /\ \A x : Len(<<x>>) = 1
              /\ \A x, y : Len(<<x, y>>) = 2
            OBVIOUS
        <3> HIDE DEF h
        <3>3. Len(h) \in {0, 1, 2}
            BY <3>1, <3>2, Zenon
        <3>4. Len(h) <= 2
            BY <3>3
        <3> QED BY <3>4, Zenon DEF h
    <2>3. WorldOK
        BY DEF IInv
    <2> QED BY <2>1, <2>2, <2>3, Zenon DEF TypeOK, WorldOK, AllOps
<1> QED BY <1>1, Invariance, PTL

\* The handlers of internal/api run an operation only for a user who had
\* container.read and the operation's own permission in versions of
\* config.json that were on disk after the request had arrived, however edits,
\* logins and requests interleave.
THEOREM RevokedRefused == Spec => []RevokedIsRefused
<1>1. IInv => RevokedIsRefused
    <2> SUFFICES ASSUME IInv, NEW r \in Requests, req[r].pc = "run"
                 PROVE  /\ \E v \in req[r].floor .. file, name \in {NameOf[req[r].path[1]], req[r].path[1]} :
                              May(v, req[r].user, name, PermContainerRead)
                        /\ req[r].op \in Checked =>
                              \E v \in req[r].floor .. file :
                                 May(v, req[r].user, req[r].path[1], RequiredPerm(req[r].op))
        BY Zenon DEF RevokedIsRefused
    <2>1. WebOK(req[r], file, text)
        BY DEF IInv, RequestOK
    <2> QED BY <2>1, MayIsCan DEF WebOK
<1> QED BY <1>1, Invariance, PTL

\* ListContainers offers only actions that the Auth middleware and the handler
\* of the action accept in the same configuration: container.execute.* covers
\* every word below it.
THEOREM OfferedAllowed == Spec => []OfferedIsAllowed
<1>1. IInv => OfferedIsAllowed
    <2> SUFFICES ASSUME IInv, NEW r \in Requests, req[r].pc = "listed",
                        NEW it \in req[r].items, NEW a \in it.actions
                 PROVE  Accepted(req[r].snap, req[r].user, it.id, a)
        BY Zenon DEF OfferedIsAllowed
    <2>1. WebOK(req[r], file, text)
        BY DEF IInv, RequestOK
    <2>2. /\ \E name \in {NameOf[it.id], it.id} :
                Can(text, req[r].snap, req[r].user, name, PermContainerRead)
          /\ a \in Checked => Can(text, req[r].snap, req[r].user, it.id, RequiredPerm(a))
        BY <2>1 DEF WebOK
    <2> QED BY <2>2, MayIsCan, Zenon DEF Accepted
<1> QED BY <1>1, Invariance, PTL

\* A file operation of SFTP or WebDAV reaches the host, and keeps a file open,
\* only for a user who had container.read on the server of each resolved path
\* and, for a change, file.write on the first name in the path (in both paths of
\* a WebDAV rename), in versions that were on disk after the operation was sent.
\* Over SFTP that name is the server; a WebDAV text with ".." may name another.
THEOREM FilesPermitted == Spec => []FilesNeedPermission
<1>1. IInv => FilesNeedPermission
    <2> SUFFICES ASSUME IInv, NEW r \in Requests, req[r].pc \in {"os", "handle"}
                 PROVE  /\ \A i \in DOMAIN req[r].host : \E v \in req[r].floor .. file :
                              May(v, req[r].user, req[r].host[i].name, PermContainerRead)
                        /\ req[r].op \in Changes => \E v \in req[r].floor .. file :
                              May(v, req[r].user, NameIn(req[r].path), PermFileWrite)
                        /\ req[r].op = "davrename" => \E v \in req[r].floor .. file :
                              May(v, req[r].user, NameIn(req[r].target), PermFileWrite)
                        /\ req[r].op \in SftpOps => req[r].host[1].name = NameIn(req[r].path)
        BY Zenon DEF FilesNeedPermission
    <2>1. FileOK(req[r], file, text)
        BY DEF IInv, RequestOK
    <2> QED BY <2>1, MayIsCan DEF FileOK
<1> QED BY <1>1, Invariance, PTL

\* When pkg/sftp is told the end of a listing, the pages of ListAt have given
\* it every entry once and in order.
THEOREM PagesAreComplete == Spec => []PagesComplete
<1>1. IInv => PagesComplete
    BY DEF IInv, RequestOK, ShapeOK, PagesComplete
<1> QED BY <1>1, Invariance, PTL

\* Every permission a handler asks for is a sequence of words.
Words == STRING \cup {"container", "execute", "read", "write", "file", "*", "restore"} \cup Checked

\* matchRecursive of internal/config decides, for each permission config.json
\* gives and each one a handler asks for, what the permission means.
THEOREM MatchMeansGrant == Spec => []MatchIsGrant
<1>1. IInv => MatchIsGrant
    <2> SUFFICES ASSUME IInv, NEW u \in Users, NEW n \in Names \cup {"*"}, NEW p \in text[file].perms[u][n],
                        NEW required \in {RequiredPerm(op) : op \in Checked}
                                            \cup {PermContainerExecute, PermFileWrite}
                 PROVE  matchRecursive(p, required) <=> Grants(p, required)
        BY Zenon DEF MatchIsGrant
    <2>1. text[file] \in AllTexts
        BY AccessAssumption DEF IInv, WorldOK
    <2>2. p \in Seq(STRING)
        BY <2>1 DEF AllTexts
    <2>3. p \in Seq(Words)
        <3>1. STRING \subseteq Words
            BY DEF Words
        <3> HIDE DEF Words
        <3> QED BY <2>2, <3>1, SeqMonotonic
    <2>4. required \in Seq(Words)
        <3>1. /\ "container" \in Words /\ "execute" \in Words /\ "read" \in Words /\ "write" \in Words
              /\ "file" \in Words /\ "*" \in Words /\ Checked \subseteq Words
            BY DEF Words
        <3> HIDE DEF Words
        <3>2. /\ PermContainerExecute \in Seq(Words) /\ PermFileWrite \in Seq(Words)
              /\ PermContainerWrite \in Seq(Words) /\ PermContainerRead \in Seq(Words)
            BY <3>1 DEF PermContainerExecute, PermFileWrite, PermContainerWrite, PermContainerRead
        <3>3. ASSUME NEW op \in Checked PROVE RequiredPerm(op) \in Seq(Words)
            <4>1. Execute(op) \in Seq(Words)
                <5>1. op \in Words
                    BY <3>1
                <5> QED BY <3>1, <5>1 DEF Execute
            <4> QED BY <3>2, <4>1, Zenon DEF RequiredPerm
        <3> QED BY <3>2, <3>3
    <2> QED BY <2>3, <2>4, MatchGrants
<1> QED BY <1>1, Invariance, PTL

\* Whatever the segments of a path are, MapPath of internal/vfs resolves it to
\* a mount of a configured server or to something below it: filepath.Clean
\* leaves ".." only in front, where no server has that name.
THEOREM PathsStayBelow == Spec => []StaysBelowMount
<1>1. IInv => StaysBelowMount
    <2> SUFFICES ASSUME IInv, NEW u \in Users, NEW p \in RawPaths, NEW rooted \in BOOLEAN,
                        NEW res \in MapPath(file, u, PartsOf(p, rooted)), res.err = "none"
                 PROVE  /\ res.name \in text[file].servers /\ res.mount \in Mounts[res.name]
                        /\ \A i \in DOMAIN res.rel : res.rel[i] \notin {"", ".", ".."}
        BY Zenon DEF StaysBelowMount
    <2> DEFINE parts == PartsOf(p, rooted)
               clean == Clean(p, rooted)
    <2>1. /\ parts # <<>> /\ parts[1] \in text[file].servers
          /\ res.name = parts[1] /\ res.mount \in Mounts[parts[1]]
          /\ res.rel = SubSeq(parts, 3, Len(parts))
        BY MapPathNames
    <2>2. text[file].servers \subseteq Names
        BY AccessAssumption DEF IInv, WorldOK, AllTexts
    <2>3. \A n \in Names : n # "." /\ n # ".."
        BY FileAssumption, Zenon
    <2>4. p \in Seq(STRING)
        BY FileAssumption, Zenon
    <2>5. clean \in Seq(STRING) /\ NoDots(clean)
        BY <2>4, CleanNoDots
    <2>6. parts = clean \/ parts = <<".">>
        BY Zenon DEF PartsOf
    <2> HIDE DEF parts, clean
    <2>7. parts = clean
        <3>1. <<".">>[1] = "."
            OBVIOUS
        <3> QED BY <2>1, <2>2, <2>3, <2>6, <3>1, Zenon
    <2>8. ASSUME NEW i \in DOMAIN res.rel
          PROVE  res.rel[i] \notin {"", ".", ".."}
        <3>1. i + 2 \in 1 .. Len(parts) /\ 1 \in 1 .. i + 2 /\ res.rel[i] = parts[i + 2]
            BY <2>1, <2>5, <2>7, <2>8
        <3>2. /\ parts[i + 2] \notin {"", "."}
              /\ parts[i + 2] = ".." => parts[1] = ".."
            BY <2>5, <2>7, <3>1, Zenon DEF NoDots
        <3>3. parts[1] # ".."
            BY <2>1, <2>2, <2>3, Zenon
        <3> QED BY <3>1, <3>2, <3>3, Zenon
    <2> QED BY <2>1, <2>8, Zenon
<1> QED BY <1>1, Invariance, PTL
=============================================================================
