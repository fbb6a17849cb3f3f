------------------------- MODULE ContentStore_proofs -------------------------
(***************************************************************************)
(* Proofs about ContentStore: what is stored refers to what is stored, an  *)
(* extraction that lost no batch has stored what was listed, and no commit *)
(* is counted twice, for any number of workers, repositories, listings,    *)
(* extractions and faults.                                                 *)
(*                                                                         *)
(* A session holds the calls still to be made.  What they will do is said  *)
(* by triples, Yields(step, K, plan, G): made when at least the rows K are *)
(* known to the session, the calls refer to known rows only and, when all  *)
(* are made, the rows G are known.  Every plan of every step has one, and  *)
(* each call made keeps the triple of the calls that are left.             *)
(***************************************************************************)
EXTENDS ContentStore, Fold_lemmas, SequenceTheorems

-----------------------------------------------------------------------------
(* Lists.                                                                  *)

LEMMA ListOf ==
  ASSUME NEW S, NEW s \in Seq(S)
  PROVE  IsList(s)
BY LenProperties, ElementOfSeq DEF IsList, ToSet

LEMMA EmptyList == IsList(<<>>)
BY EmptySeq, ListOf

LEMMA OneList ==
  ASSUME NEW c
  PROVE  IsList(<<c>>) /\ <<c>> # <<>> /\ Head(<<c>>) = c /\ Tail(<<c>>) = <<>>
<1>1. <<c>> \in Seq({c})
  OBVIOUS
<1>2. IsList(<<c>>)
  BY <1>1, ListOf
<1>3. QED
  BY <1>2

LEMMA ListTail ==
  ASSUME NEW p, IsList(p), p # <<>>
  PROVE  IsList(Tail(p))
BY HeadTailProperties, ListOf DEF IsList

LEMMA ListConcat ==
  ASSUME NEW p, NEW q, IsList(p), IsList(q)
  PROVE  /\ IsList(p \o q)
         /\ <<>> \o q = q
         /\ p \o <<>> = p
         /\ p # <<>> => /\ p \o q # <<>>
                        /\ Head(p \o q) = Head(p)
                        /\ Tail(p \o q) = Tail(p) \o q
<1> DEFINE S == ToSet(p) \cup ToSet(q)
<1>1. p \in Seq(S) /\ q \in Seq(S)
  BY SeqMonotonic DEF IsList
<1> HIDE DEF S
<1>2. p \o q \in Seq(S)
  BY <1>1, ConcatProperties
<1>3. p # <<>> => p \o q # <<>> /\ Head(p \o q) = Head(p) /\ Tail(p \o q) = Tail(p) \o q
  BY <1>1, ConcatProperties, HeadTailProperties, SeqEqual
<1>4. QED
  BY <1>1, <1>2, <1>3, ListOf, ConcatEmptySeq

LEMMA ListAssociative ==
  ASSUME NEW p, NEW q, NEW r, IsList(p), IsList(q), IsList(r)
  PROVE  (p \o q) \o r = p \o (q \o r)
<1> DEFINE S == ToSet(p) \cup ToSet(q) \cup ToSet(r)
<1>1. p \in Seq(S) /\ q \in Seq(S) /\ r \in Seq(S)
  BY SeqMonotonic DEF IsList
<1> HIDE DEF S
<1>2. QED
  BY <1>1, ConcatAssociative

-----------------------------------------------------------------------------
(* Triples.                                                                *)

\* Rows that are never deleted, and so may be referred to.
Lasting(k) == k[1] # "vulnerabilities"

\* ... and that step may look up, add or set: only the enrichment has anything
\* to do with technologies.
Proper(step, k) == Lasting(k) /\ (k[1] = "technologies" => step = "enrichment")

\* Call c of a step refers to rows of K only, and counts only commits where
\* commits are counted.
CallFits(step, K, c) ==
  \/ /\ c.call = "lookup"
     /\ Proper(step, c.key) /\ IsList(c.found) /\ IsList(c.missing)
  \/ /\ c.call = "add"
     /\ Proper(step, c.key) /\ c.value.of \subseteq K
     /\ c.counted /\ step = "commits" => c.key[1] = "commits"
  \/ /\ c.call = "set"
     /\ Proper(step, c.key) /\ c.key[1] # "commits" /\ c.value.of \subseteq K
  \/ c.call = "replace" /\ PackageKey(c.package) \in K /\ IsFiniteSet(c.cves)
  \/ c.call = "link" /\ RepositoryKey(c.repo) \in K
  \/ c.call = "raise"

\* What is known, and what is left to do, when call c has been made.
After(K, c, rest) ==
  CASE c.call = "lookup" -> {<<K \cup {c.key}, c.found \o rest>>, <<K, c.missing \o rest>>}
    [] c.call = "add"    -> {<<K \cup {c.key}, rest>>}
    [] c.call = "raise"  -> {}
    [] OTHER             -> {<<K, rest>>}

\* S holds what can be reached from any of its members: pairs of what is
\* known and what is left to do.
Reaches(step, G, S) ==
  \A x \in S :
    /\ x = <<x[1], x[2]>>
    /\ IsList(x[2])
    /\ x[2] = <<>> => G \subseteq x[1]
    /\ x[2] # <<>> => /\ CallFits(step, x[1], Head(x[2]))
                      /\ After(x[1], Head(x[2]), Tail(x[2])) \subseteq S

Yields(step, K, plan, G) == \E S : Reaches(step, G, S) /\ <<K, plan>> \in S

LEMMA FitsMore ==
  ASSUME NEW step, NEW K, NEW c, CallFits(step, K, c), NEW D
  PROVE  CallFits(step, K \cup D, c)
BY DEF CallFits

\* What is known besides is known afterwards.
Besides(S, D) == {<<x[1] \cup D, x[2]>> : x \in S}

LEMMA FrameSet ==
  ASSUME NEW step, NEW G, NEW S, Reaches(step, G, S), NEW D
  PROVE  Reaches(step, G \cup D, Besides(S, D))
<1> DEFINE more(x) == <<x[1] \cup D, x[2]>>
           T == {more(x) : x \in S}
<1>2. ASSUME NEW x \in S
      PROVE  /\ more(x) = <<more(x)[1], more(x)[2]>>
             /\ IsList(more(x)[2])
             /\ more(x)[2] = <<>> => G \cup D \subseteq more(x)[1]
             /\ more(x)[2] # <<>> => /\ CallFits(step, more(x)[1], Head(more(x)[2]))
                                     /\ After(more(x)[1], Head(more(x)[2]), Tail(more(x)[2])) \subseteq T
  <2> DEFINE c == Head(x[2])
             rest == Tail(x[2])
  <2>1. /\ IsList(x[2])
        /\ x[2] = <<>> => G \subseteq x[1]
        /\ x[2] # <<>> => CallFits(step, x[1], c) /\ After(x[1], c, rest) \subseteq S
    BY DEF Reaches
  <2>2. ASSUME x[2] # <<>> PROVE After(x[1] \cup D, c, rest) \subseteq T
    <3>1. After(x[1], c, rest) \subseteq S
      BY <2>1, <2>2
    <3>2. \A k, q : <<k, q>> \in S => <<k \cup D, q>> \in T
      <4>1. ASSUME NEW k, NEW q, <<k, q>> \in S PROVE <<k \cup D, q>> \in T
        <5>1. more(<<k, q>>) = <<k \cup D, q>>
          OBVIOUS
        <5>2. QED
          BY <4>1, <5>1
      <4>2. QED
        BY <4>1
    <3>3. (x[1] \cup D) \cup {c.key} = (x[1] \cup {c.key}) \cup D
      OBVIOUS
    <3> DEFINE k == x[1]
               m == x[1] \cup {c.key}
    <3>4. m \cup D = (k \cup D) \cup {c.key}
      BY <3>3
    <3> HIDE DEF T, c, rest, k, m
    <3>5. CASE c.call = "lookup"
      <4>1. <<m, c.found \o rest>> \in S /\ <<k, c.missing \o rest>> \in S
        BY <3>1, <3>5 DEF After, k, m
      <4>2. <<m \cup D, c.found \o rest>> \in T /\ <<k \cup D, c.missing \o rest>> \in T
        BY <3>2, <4>1
      <4>3. QED
        BY <3>4, <3>5, <4>2 DEF After, k
    <3>6. CASE c.call = "add"
      <4>1. <<m, rest>> \in S
        BY <3>1, <3>6 DEF After, k, m
      <4>2. <<m \cup D, rest>> \in T
        BY <3>2, <4>1
      <4>3. QED
        BY <3>4, <3>6, <4>2 DEF After, k
    <3>7. CASE c.call \notin {"lookup", "add"}
      <4>1. c.call # "raise" => <<k, rest>> \in S
        BY <3>1, <3>7 DEF After, k
      <4>2. c.call # "raise" => <<k \cup D, rest>> \in T
        BY <3>2, <4>1
      <4>3. QED
        BY <3>7, <4>2 DEF After, k
    <3>8. QED
      BY <3>5, <3>6, <3>7
  <2>3. x[2] # <<>> => CallFits(step, x[1] \cup D, c)
    BY <2>1, FitsMore
  <2>4. more(x)[1] = x[1] \cup D /\ more(x)[2] = x[2]
    OBVIOUS
  <2> HIDE DEF T, c, rest
  <2>5. QED
    BY <2>1, <2>2, <2>3, <2>4 DEF c, rest
<1>3. Reaches(step, G \cup D, T)
  <2> HIDE DEF more
  <2>1. \A y \in T : \E x \in S : y = more(x)
    OBVIOUS
  <2> HIDE DEF T
  <2>2. QED
    BY <1>2, <2>1 DEF Reaches
<1>4. QED
  BY <1>3 DEF Besides

LEMMA Frame ==
  ASSUME NEW step, NEW K, NEW p, NEW G, Yields(step, K, p, G), NEW D
  PROVE  Yields(step, K \cup D, p, G \cup D)
<1>1. PICK S : Reaches(step, G, S) /\ <<K, p>> \in S
  BY DEF Yields
<1>2. Reaches(step, G \cup D, Besides(S, D))
  BY <1>1, FrameSet
<1>3. <<K \cup D, p>> \in Besides(S, D)
  <2>1. <<K, p>>[1] = K /\ <<K, p>>[2] = p
    OBVIOUS
  <2>2. QED
    BY <1>1, <2>1 DEF Besides
<1>4. QED
  BY <1>2, <1>3 DEF Yields

\* Less may be asked for, and what is known stays known.
LEMMA Consequence ==
  ASSUME NEW step, NEW K, NEW p, NEW G, Yields(step, K, p, G), NEW H, H \subseteq G \cup K
  PROVE  Yields(step, K, p, H)
<1>1. Yields(step, K \cup K, p, G \cup K)
  BY Frame
<1>2. K \cup K = K
  OBVIOUS
<1>3. PICK S : Reaches(step, G \cup K, S) /\ <<K, p>> \in S
  BY <1>1, <1>2 DEF Yields
<1>4. Reaches(step, H, S)
  BY <1>3 DEF Reaches
<1>5. QED
  BY <1>3, <1>4 DEF Yields

\* One plan after another.
LEMMA InTurn ==
  ASSUME NEW step, NEW K, NEW p, NEW G, NEW q, NEW H,
         Yields(step, K, p, G), Yields(step, G, q, H)
  PROVE  Yields(step, K, p \o q, H)
<1>1. PICK S : Reaches(step, G, S) /\ <<K, p>> \in S
  BY DEF Yields
<1>2. PICK R : Reaches(step, H, R) /\ <<G, q>> \in R
  BY DEF Yields
<1>3. IsList(q)
  <2>1. <<G, q>>[2] = q
    OBVIOUS
  <2>2. QED
    BY <1>2, <2>1 DEF Reaches
<1> DEFINE then(x) == <<x[1], x[2] \o q>>
           T == {then(x) : x \in S}
           U == UNION {Besides(R, k) : k \in {x[1] : x \in S}}
<1>4. ASSUME NEW k PROVE Reaches(step, H, Besides(R, k))
  <2>1. Reaches(step, H \cup k, Besides(R, k))
    BY <1>2, FrameSet
  <2>2. QED
    BY <2>1 DEF Reaches
<1>5. \A y \in U : /\ y = <<y[1], y[2]>>
                   /\ IsList(y[2])
                   /\ y[2] = <<>> => H \subseteq y[1]
                   /\ y[2] # <<>> => /\ CallFits(step, y[1], Head(y[2]))
                                     /\ After(y[1], Head(y[2]), Tail(y[2])) \subseteq U
  <2>1. ASSUME NEW y \in U
        PROVE  \E k \in {x[1] : x \in S} : y \in Besides(R, k) /\ Besides(R, k) \subseteq U
    OBVIOUS
  <2> HIDE DEF U
  <2>2. QED
    BY <1>4, <2>1 DEF Reaches
<1>6. ASSUME NEW x \in S, x[2] = <<>> PROVE then(x) \in U
  <2>1. IsList(<<>>) /\ <<>> \o q = q
    BY <1>3, EmptyList, ListConcat
  <2>2. G \cup x[1] = x[1]
    BY <1>1, <1>6 DEF Reaches
  <2>3. <<G \cup x[1], q>> \in Besides(R, x[1])
    <3>1. <<G, q>>[1] = G /\ <<G, q>>[2] = q
      OBVIOUS
    <3>2. QED
      BY <1>2, <3>1 DEF Besides
  <2>4. QED
    BY <1>6, <2>1, <2>2, <2>3
<1>7. ASSUME NEW x \in S, x[2] # <<>>
      PROVE  /\ IsList(x[2] \o q) /\ x[2] \o q # <<>>
             /\ CallFits(step, x[1], Head(x[2] \o q))
             /\ After(x[1], Head(x[2] \o q), Tail(x[2] \o q)) \subseteq T
  <2> DEFINE c == Head(x[2])
             rest == Tail(x[2])
  <2>1. /\ IsList(x[2]) /\ IsList(rest)
        /\ CallFits(step, x[1], c) /\ After(x[1], c, rest) \subseteq S
    BY <1>1, <1>7, ListTail DEF Reaches
  <2>2. /\ IsList(x[2] \o q) /\ x[2] \o q # <<>>
        /\ Head(x[2] \o q) = c /\ Tail(x[2] \o q) = rest \o q
    BY <1>3, <1>7, <2>1, ListConcat
  <2>3. \A k, r : <<k, r>> \in S => <<k, r \o q>> \in T
    <3>1. ASSUME NEW k, NEW r, <<k, r>> \in S PROVE <<k, r \o q>> \in T
      <4>1. then(<<k, r>>) = <<k, r \o q>>
        OBVIOUS
      <4>2. QED
        BY <3>1, <4>1
    <3>2. QED
      BY <3>1
  <2> HIDE DEF T, c, rest
  <2>9. ASSUME NEW a, IsList(a) PROVE (a \o rest) \o q = a \o (rest \o q)
    <3>1. IsList(rest) /\ IsList(q)
      BY <1>3, <2>1
    <3>2. QED
      BY <2>9, <3>1, ListAssociative
  <2>4. c.call = "lookup" => /\ (c.found \o rest) \o q = c.found \o (rest \o q)
                             /\ (c.missing \o rest) \o q = c.missing \o (rest \o q)
    <3>1. ASSUME c.call = "lookup" PROVE IsList(c.found) /\ IsList(c.missing)
      BY <2>1, <3>1 DEF CallFits
    <3>2. ASSUME c.call = "lookup" PROVE (c.found \o rest) \o q = c.found \o (rest \o q)
      <4>1. IsList(c.found)
        BY <3>1, <3>2
      <4>2. QED
        BY <2>9, <4>1
    <3>3. ASSUME c.call = "lookup" PROVE (c.missing \o rest) \o q = c.missing \o (rest \o q)
      <4>1. IsList(c.missing)
        BY <3>1, <3>3
      <4>2. QED
        BY <2>9, <4>1
    <3>4. QED
      BY <3>2, <3>3
  <2>5. After(x[1], c, rest \o q) \subseteq T
    BY <2>1, <2>3, <2>4 DEF After
  <2>6. QED
    BY <2>1, <2>2, <2>5
<1>8. Reaches(step, H, T \cup U)
  <2>1. ASSUME NEW x \in S
        PROVE  /\ then(x) = <<x[1], x[2] \o q>> /\ then(x)[1] = x[1] /\ then(x)[2] = x[2] \o q
    OBVIOUS
  <2>2. \A y \in T : \E x \in S : y = then(x)
    OBVIOUS
  <2> HIDE DEF T, U, then
  <2>3. ASSUME NEW y \in T, y \notin U
        PROVE  /\ y = <<y[1], y[2]>>
               /\ IsList(y[2])
               /\ y[2] # <<>>
               /\ CallFits(step, y[1], Head(y[2]))
               /\ After(y[1], Head(y[2]), Tail(y[2])) \subseteq T
    <3>1. PICK x \in S : y = then(x)
      BY <2>2
    <3>2. x[2] # <<>>
      BY <1>6, <2>3, <3>1
    <3>3. QED
      BY <1>7, <2>1, <3>1, <3>2
  <2>4. QED
    BY <1>5, <2>3 DEF Reaches
<1>9. <<K, p \o q>> \in T
  <2>1. then(<<K, p>>) = <<K, p \o q>>
    OBVIOUS
  <2>2. QED
    BY <1>1, <2>1
<1>10. QED
  BY <1>8, <1>9 DEF Yields

\* No call.
LEMMA Done ==
  ASSUME NEW step, NEW K, NEW G, G \subseteq K
  PROVE  Yields(step, K, <<>>, G)
<1>1. Reaches(step, G, {<<K, <<>>>>})
  BY EmptyList DEF Reaches
<1>2. QED
  BY <1>1 DEF Yields

\* One call more.
LEMMA Making ==
  ASSUME NEW step, NEW K, NEW p, NEW G, Yields(step, K, p, G)
  PROVE  /\ IsList(p)
         /\ p = <<>> => G \subseteq K
         /\ p # <<>> => /\ CallFits(step, K, Head(p))
                        /\ \A x \in After(K, Head(p), Tail(p)) : Yields(step, x[1], x[2], G)
<1>1. PICK S : Reaches(step, G, S) /\ <<K, p>> \in S
  BY DEF Yields
<1>2. <<K, p>>[1] = K /\ <<K, p>>[2] = p
  OBVIOUS
<1>3. \A x \in S : Yields(step, x[1], x[2], G)
  BY <1>1 DEF Yields, Reaches
<1>4. QED
  BY <1>1, <1>2, <1>3 DEF Reaches

\* The triple of a call.
LEMMA Call ==
  ASSUME NEW step, NEW K, NEW c, NEW G, CallFits(step, K, c),
         \A x \in After(K, c, <<>>) : Yields(step, x[1], x[2], G)
  PROVE  Yields(step, K, <<c>>, G)
<1> DEFINE R(x) == CHOOSE S : Reaches(step, G, S) /\ <<x[1], x[2]>> \in S
           T == UNION {R(x) : x \in After(K, c, <<>>)}
           here == <<K, <<c>>>>
<1>1. ASSUME NEW x \in After(K, c, <<>>) PROVE Reaches(step, G, R(x)) /\ <<x[1], x[2]>> \in R(x)
  BY DEF Yields
<1>2. \A x \in After(K, c, <<>>) : x = <<x[1], x[2]>>
  BY DEF After
<1>3. After(K, c, <<>>) \subseteq T
  BY <1>1, <1>2
<1>4. \A y \in T : \E S : Reaches(step, G, S) /\ y \in S /\ S \subseteq T
  BY <1>1
<1>5. /\ here = <<here[1], here[2]>> /\ here[1] = K /\ here[2] = <<c>>
  OBVIOUS
<1> HIDE DEF T, here
<1>6. IsList(<<c>>) /\ <<c>> # <<>> /\ Head(<<c>>) = c /\ Tail(<<c>>) = <<>>
  BY OneList
<1>7. Reaches(step, G, T \cup {here})
  <2>1. \A y \in T : /\ y = <<y[1], y[2]>>
                     /\ IsList(y[2])
                     /\ y[2] = <<>> => G \subseteq y[1]
                     /\ y[2] # <<>> => /\ CallFits(step, y[1], Head(y[2]))
                                       /\ After(y[1], Head(y[2]), Tail(y[2])) \subseteq T
    BY <1>4 DEF Reaches
  <2>2. QED
    BY <1>3, <1>5, <1>6, <2>1 DEF Reaches
<1>8. QED
  BY <1>7 DEF Yields, here

LEMMA LookUp ==
  ASSUME NEW step, NEW K, NEW k, Proper(step, k), NEW found, NEW missing, NEW G,
         Yields(step, K \cup {k}, found, G), Yields(step, K, missing, G)
  PROVE  Yields(step, K, <<Either(k, found, missing)>>, G)
<1> DEFINE c == Either(k, found, missing)
<1>1. /\ c.call = "lookup" /\ c.key = k /\ c.found = found /\ c.missing = missing
  BY DEF Either
<1>2. IsList(found) /\ IsList(missing)
  BY Making
<1>3. found \o <<>> = found /\ missing \o <<>> = missing
  BY <1>2, EmptyList, ListConcat
<1> HIDE DEF c
<1>4. CallFits(step, K, c)
  BY <1>1, <1>2 DEF CallFits
<1>5. After(K, c, <<>>) = {<<K \cup {k}, found>>, <<K, missing>>}
  BY <1>1, <1>3 DEF After
<1>6. \A x \in After(K, c, <<>>) : Yields(step, x[1], x[2], G)
  <2>1. ASSUME NEW x \in After(K, c, <<>>) PROVE Yields(step, x[1], x[2], G)
    <3>1. CASE x = <<K \cup {k}, found>>
      <4>1. x[1] = K \cup {k} /\ x[2] = found
        BY <3>1
      <4>2. QED
        BY <4>1
    <3>2. CASE x = <<K, missing>>
      <4>1. x[1] = K /\ x[2] = missing
        BY <3>2
      <4>2. QED
        BY <4>1
    <3>3. QED
      BY <1>5, <2>1, <3>1, <3>2
  <2>2. QED
    BY <2>1
<1>7. Yields(step, K, <<c>>, G)
  BY <1>4, <1>6, Call
<1>8. QED
  BY <1>7 DEF c

\* A row is added, whether it is flushed and whether it is counted.
LEMMA AddOne ==
  ASSUME NEW step, NEW K, NEW c, c.call = "add", Proper(step, c.key), c.value.of \subseteq K,
         c.counted /\ step = "commits" => c.key[1] = "commits"
  PROVE  Yields(step, K, <<c>>, K \cup {c.key})
<1>1. CallFits(step, K, c)
  BY DEF CallFits
<1>2. After(K, c, <<>>) = {<<K \cup {c.key}, <<>>>>}
  BY DEF After
<1>3. Yields(step, K \cup {c.key}, <<>>, K \cup {c.key})
  BY Done
<1>4. ASSUME NEW x \in After(K, c, <<>>) PROVE Yields(step, x[1], x[2], K \cup {c.key})
  <2>1. x[1] = K \cup {c.key} /\ x[2] = <<>>
    BY <1>2
  <2>2. QED
    BY <1>3, <2>1
<1>5. QED
  BY <1>1, <1>4, Call

\* A call that makes no row known.
LEMMA Leave ==
  ASSUME NEW step, NEW K, NEW c, c.call \notin {"lookup", "add"}, CallFits(step, K, c)
  PROVE  Yields(step, K, <<c>>, K)
<1>1. Yields(step, K, <<>>, K)
  BY Done
<1>2. After(K, c, <<>>) \subseteq {<<K, <<>>>>}
  BY DEF After
<1>3. QED
  BY <1>1, <1>2, Call

\* Nothing follows an exception.
LEMMA Raises ==
  ASSUME NEW step, NEW K, NEW q, IsList(q), NEW G
  PROVE  Yields(step, K, <<Raise>> \o q, G)
<1> DEFINE p == <<Raise>> \o q
<1>1. IsList(p) /\ p # <<>> /\ Head(p) = Raise
  BY OneList, ListConcat
<1>2. Raise.call = "raise"
  BY DEF Raise
<1> HIDE DEF p
<1>3. After(K, Raise, Tail(p)) = {} /\ CallFits(step, K, Raise)
  BY <1>2 DEF After, CallFits
<1>4. Reaches(step, G, {<<K, p>>})
  BY <1>1, <1>3 DEF Reaches
<1>5. Yields(step, K, p, G)
  BY <1>4 DEF Yields
<1>6. QED
  BY <1>5 DEF p

-----------------------------------------------------------------------------
(* The calls of a list's items.                                            *)

LEMMA ListFunction ==
  ASSUME NEW f, NEW n \in Nat, f = [i \in 1..n |-> f[i]]
  PROVE  IsList(f) /\ Len(f) = n /\ DOMAIN f = 1..n
<1>1. f \in Seq({f[i] : i \in 1..n}) /\ Len(f) = n
  OBVIOUS
<1>2. QED
  BY <1>1, ListOf

\* What each item makes known is known after the last.
Gains(gain, n) == UNION {gain[i] : i \in 1..n}

LEMMA EachInTurn ==
  ASSUME NEW step, NEW K, NEW plans, IsList(plans), NEW gain,
         \A i \in 1..Len(plans) : Yields(step, K, plans[i], gain[i])
  PROVE  Yields(step, K, FlattenSeq(plans), K \cup Gains(gain, Len(plans)))
<1> DEFINE n == Len(plans)
           known(m) == K \cup Gains(gain, m)
<1>1. n \in Nat
  BY LenProperties DEF IsList
<1>2. CASE n = 0
  <2>1. plans = <<>>
    BY <1>2, EmptySeq DEF IsList
  <2>2. FlattenSeq(plans) = <<>>
    BY <1>2, <2>1 DEF FlattenSeq
  <2>3. known(n) = K
    BY <1>2 DEF Gains
  <2>4. QED
    BY <2>2, <2>3, Done
<1>3. CASE n # 0
  <2> DEFINE f == CHOOSE f : f = [i \in 1..n |-> IF i = 1 THEN plans[i] ELSE f[i - 1] \o plans[i]]
  <2>1. f = [i \in 1..n |-> IF i = 1 THEN plans[i] ELSE f[i - 1] \o plans[i]]
    BY <1>1, JoinedExists
  <2>2. FlattenSeq(plans) = f[n]
    BY <1>3 DEF FlattenSeq
  <2> HIDE DEF f
  <2> DEFINE T == {m \in Nat : m + 1 <= n => Yields(step, K, f[m + 1], known(m + 1))}
  <2>3. 0 \in T
    <3>1. f[1] = plans[1] /\ 1 \in 1..n
      BY <1>1, <1>3, <2>1
    <3>2. known(1) = K \cup gain[1]
      BY DEF Gains
    <3>3. Yields(step, K, plans[1], known(1))
      <4>1. Yields(step, K, plans[1], gain[1])
        BY <3>1
      <4> HIDE DEF known
      <4>2. QED
        BY <3>2, <4>1, Consequence
    <3>4. QED
      BY <3>1, <3>3
  <2>4. ASSUME NEW m \in Nat, m \in T PROVE m + 1 \in T
    <3>1. SUFFICES ASSUME (m + 1) + 1 <= n PROVE Yields(step, K, f[(m + 1) + 1], known((m + 1) + 1))
      BY <2>4
    <3> DEFINE j == (m + 1) + 1
    <3>2. j \in 1..n /\ f[j] = f[m + 1] \o plans[j]
      <4>1. j \in 1..n /\ j # 1 /\ j - 1 = m + 1
        BY <1>1, <3>1
      <4> HIDE DEF j
      <4>2. QED
        BY <2>1, <4>1
    <3>3. Yields(step, K, f[m + 1], known(m + 1))
      BY <1>1, <2>4, <3>1
    <3>4. known(j) = gain[j] \cup known(m + 1) /\ K \cup known(m + 1) = known(m + 1)
      BY <3>2 DEF Gains
    <3>5. Yields(step, K, plans[j], gain[j])
      BY <3>2
    <3> HIDE DEF known, j
    <3>6. Yields(step, known(m + 1), plans[j], known(j))
      <4>1. Yields(step, K \cup known(m + 1), plans[j], gain[j] \cup known(m + 1))
        BY <3>5, Frame
      <4>2. QED
        BY <3>4, <4>1
    <3>7. Yields(step, K, f[j], known(j))
      BY <3>2, <3>3, <3>6, InTurn
    <3>8. QED
      BY <3>7 DEF j
  <2>5. Nat \subseteq T
    <3> HIDE DEF T
    <3>1. QED
      BY <2>3, <2>4, InductionOverNat
  <2>6. n - 1 \in Nat /\ (n - 1) + 1 = n
    BY <1>1, <1>3
  <2>7. Yields(step, K, f[(n - 1) + 1], known((n - 1) + 1))
    <3>1. (n - 1) + 1 <= n
      BY <1>1, <2>6
    <3>2. n - 1 \in T
      <4> HIDE DEF T
      <4>1. QED
        BY <2>5, <2>6
    <3>3. QED
      BY <3>1, <3>2
  <2>8. QED
    BY <2>2, <2>6, <2>7
<1>4. QED
  BY <1>2, <1>3

\* Items that each make one row known.
Noted(key, items) == {key[i] : i \in DOMAIN items}

LEMMA EachKnown ==
  ASSUME NEW step, NEW K, NEW items, IsList(items), NEW plans, NEW key,
         plans = [i \in DOMAIN items |-> plans[i]],
         \A i \in DOMAIN items : Yields(step, K, plans[i], K \cup {key[i]})
  PROVE  Yields(step, K, FlattenSeq(plans), K \cup Noted(key, items))
<1> DEFINE n == Len(items)
           gain == [i \in 1..n |-> K \cup {key[i]}]
<1>1. n \in Nat /\ DOMAIN items = 1..n
  BY LenProperties DEF IsList
<1>2. IsList(plans) /\ Len(plans) = n
  <2> HIDE DEF n
  <2>1. QED
    BY <1>1, ListFunction
<1>3. \A i \in 1..Len(plans) : Yields(step, K, plans[i], gain[i])
  BY <1>1, <1>2
<1>5. Noted(key, items) \subseteq Gains(gain, Len(plans))
  BY <1>1, <1>2 DEF Gains, Noted
<1> HIDE DEF gain, n
<1>6. Yields(step, K, FlattenSeq(plans), K \cup Gains(gain, Len(plans)))
  BY <1>2, <1>3, EachInTurn
<1>7. QED
  BY <1>5, <1>6, Consequence

\* Items after which no more needs to be known.
LEMMA EachDone ==
  ASSUME NEW step, NEW K, NEW items, IsList(items), NEW plans,
         plans = [i \in DOMAIN items |-> plans[i]],
         \A i \in DOMAIN items : Yields(step, K, plans[i], K)
  PROVE  Yields(step, K, FlattenSeq(plans), K)
<1> DEFINE n == Len(items)
           gain == [i \in 1..n |-> K]
<1>1. n \in Nat /\ DOMAIN items = 1..n
  BY LenProperties DEF IsList
<1>2. IsList(plans) /\ Len(plans) = n
  <2> HIDE DEF n
  <2>1. QED
    BY <1>1, ListFunction
<1>3. \A i \in 1..Len(plans) : Yields(step, K, plans[i], gain[i])
  BY <1>1, <1>2
<1> HIDE DEF gain, n
<1>4. Yields(step, K, FlattenSeq(plans), K \cup Gains(gain, Len(plans)))
  BY <1>2, <1>3, EachInTurn
<1>5. QED
  BY <1>4, Consequence

LEMMA SlicePart ==
  ASSUME NEW items, IsList(items), NEW n \in Nat
  PROVE  \A i \in DOMAIN Slice(items, n) : Slice(items, n)[i] \in ToSet(items)
<1> DEFINE m == IF Len(items) < n THEN Len(items) ELSE n
<1>1. items \in Seq(ToSet(items)) /\ Len(items) \in Nat
  BY LenProperties DEF IsList
<1>2. m \in Nat /\ m <= Len(items)
  BY <1>1
<1>3. \A i \in 1..m : items[i] \in ToSet(items)
  BY <1>1, <1>2, ElementOfSeq
<1> HIDE DEF m
<1>4. SubSeq(items, 1, m) \in Seq(ToSet(items))
  BY <1>2, <1>3, SubSeqProperties
<1>5. \A i \in DOMAIN SubSeq(items, 1, m) : SubSeq(items, 1, m)[i] \in ToSet(items)
  BY <1>4, LenProperties, ElementOfSeq
<1>6. QED
  BY <1>5 DEF Slice, m

\* The elements of a set in some order.
LEMMA SetToSeqList ==
  ASSUME NEW S, IsFiniteSet(S)
  PROVE  /\ IsList(SetToSeq(S))
         /\ DOMAIN SetToSeq(S) = 1..Cardinality(S) /\ Cardinality(S) \in Nat
         /\ \A i \in DOMAIN SetToSeq(S) : SetToSeq(S)[i] \in S
         /\ \A x \in S : \E i \in DOMAIN SetToSeq(S) : SetToSeq(S)[i] = x
<1> DEFINE n == Cardinality(S)
           f == SetToSeq(S)
<1>1. n \in Nat /\ \E g \in [1..n -> S] : IsInjective(g)
  <2>1. n \in Nat /\ ExistsBijection(1..n, S)
    BY FS_CardinalityType
  <2>2. QED
    BY <2>1 DEF ExistsBijection, Bijection, Injection
<1>2. f \in [1..n -> S] /\ IsInjective(f)
  BY <1>1 DEF SetToSeq
<1>3. IsFiniteSet(1..n) /\ Cardinality(1..n) = n
  <2>1. 1 \in Int /\ n \in Int
    BY <1>1
  <2> HIDE DEF n
  <2>2. QED
    BY <1>1, <2>1, FS_Interval
<1> HIDE DEF f
<1>4. f \in Injection(1..n, S)
  BY <1>2 DEF Injection
<1>5. f \in Surjection(1..n, S)
  BY <1>3, <1>4, FS_Injection
<1>6. IsList(f)
  <2>1. f \in Seq(S)
    BY <1>1, <1>2
  <2>2. QED
    BY <2>1, ListOf
<1>7. QED
  BY <1>1, <1>2, <1>5, <1>6 DEF Surjection, f

LEMMA SliceList ==
  ASSUME NEW items, IsList(items), NEW n \in Nat
  PROVE  IsList(Slice(items, n))
<1> DEFINE m == IF Len(items) < n THEN Len(items) ELSE n
<1>1. items \in Seq(ToSet(items)) /\ Len(items) \in Nat
  BY LenProperties DEF IsList
<1>2. m \in Nat /\ m <= Len(items)
  BY <1>1
<1>3. \A i \in 1..m : items[i] \in ToSet(items)
  BY <1>1, <1>2, ElementOfSeq
<1> HIDE DEF m
<1>4. SubSeq(items, 1, m) \in Seq(ToSet(items))
  BY <1>2, <1>3, SubSeqProperties
<1>5. QED
  BY <1>4, ListOf DEF Slice, m

-----------------------------------------------------------------------------
(* The store functions.                                                    *)

LEMMA KeysLast ==
  /\ \A o : Lasting(OrganizationKey(o)) /\ Lasting(ProjectKey(o)) /\ Lasting(ContributorKey(o))
           /\ Lasting(TeamKey(o)) /\ Lasting(ServiceKey(o)) /\ Lasting(RepositoryKey(o))
           /\ Lasting(TechnologyKey(o)) /\ Lasting(CommitKey(o)) /\ Lasting(PackageKey(o))
  /\ \A r, x : Lasting(LinkKey(r, x)) /\ Lasting(BranchKey(r, x)) /\ Lasting(ReadmeKey(r, x))
              /\ Lasting(PullRequestKey(r, x)) /\ Lasting(DependencyKey(r, x))
  /\ \A r, x, y : Lasting(StackKey(r, x, y)) /\ Lasting(ReviewKey(r, x, y)) /\ Lasting(CommentKey(r, x, y))
BY DEF Lasting, OrganizationKey, ProjectKey, ContributorKey, TeamKey, ServiceKey, RepositoryKey,
   TechnologyKey, CommitKey, PackageKey, LinkKey, BranchKey, ReadmeKey, PullRequestKey, DependencyKey,
   StackKey, ReviewKey, CommentKey

LEMMA KeysProper ==
  ASSUME NEW step
  PROVE  /\ \A o : /\ Proper(step, OrganizationKey(o)) /\ Proper(step, ProjectKey(o))
                  /\ Proper(step, ContributorKey(o)) /\ Proper(step, TeamKey(o))
                  /\ Proper(step, ServiceKey(o)) /\ Proper(step, RepositoryKey(o))
                  /\ Proper(step, CommitKey(o)) /\ Proper(step, PackageKey(o))
         /\ \A r, x : /\ Proper(step, LinkKey(r, x)) /\ Proper(step, BranchKey(r, x))
                     /\ Proper(step, PullRequestKey(r, x)) /\ Proper(step, DependencyKey(r, x))
         /\ \A r, x, y : /\ Proper(step, StackKey(r, x, y))
                        /\ Proper(step, ReviewKey(r, x, y)) /\ Proper(step, CommentKey(r, x, y))
         /\ step = "enrichment" => \A o : Proper(step, TechnologyKey(o))
BY DEF Proper, Lasting, OrganizationKey, ProjectKey, ContributorKey, TeamKey, ServiceKey, RepositoryKey,
   TechnologyKey, CommitKey, PackageKey, LinkKey, BranchKey, PullRequestKey, DependencyKey,
   StackKey, ReviewKey, CommentKey

LEMMA GetOrCreateYields ==
  ASSUME NEW step, NEW K, NEW k, Proper(step, k), NEW v, v.of \subseteq K
  PROVE  Yields(step, K, GetOrCreate(k, v), K \cup {k})
<1> DEFINE c == AddFlush(k, v)
<1>1. /\ c.call = "add" /\ c.key = k /\ c.value = v /\ c.counted = FALSE
  BY DEF AddFlush, Add
<1> HIDE DEF c
<1>2. Yields(step, K, <<c>>, K \cup {k})
  BY <1>1, AddOne
<1>3. Yields(step, K \cup {k}, <<>>, K \cup {k})
  BY Done
<1>4. QED
  BY <1>2, <1>3, LookUp DEF GetOrCreate, c

LEMMA UpsertYields ==
  ASSUME NEW step, NEW K, NEW k, Proper(step, k), k[1] # "commits", NEW v, v.of \subseteq K
  PROVE  Yields(step, K, Upsert(k, v), K \cup {k})
<1> DEFINE c == Add(k, v)
           d == Set(k, v)
<1>1. /\ c.call = "add" /\ c.key = k /\ c.value = v /\ c.counted = FALSE
      /\ d.call = "set" /\ d.key = k /\ d.value = v
  BY DEF Add, Set
<1> HIDE DEF c, d
<1>2. Yields(step, K, <<c>>, K \cup {k})
  BY <1>1, AddOne
<1>3. Yields(step, K \cup {k}, <<d>>, K \cup {k})
  <2>1. CallFits(step, K \cup {k}, d) /\ d.call \notin {"lookup", "add"}
    BY <1>1 DEF CallFits
  <2>2. QED
    BY <2>1, Leave
<1>4. QED
  BY <1>2, <1>3, LookUp DEF Upsert, c, d

LEMMA ContributorYields ==
  ASSUME NEW step, NEW K, NEW e
  PROVE  Yields(step, K, GetOrCreateContributor(e), K \cup {ContributorKey(Normal[e])})
<1>1. Proper(step, ContributorKey(Normal[e])) /\ Stored.of \subseteq K
  BY KeysProper DEF Stored
<1>2. QED
  BY <1>1, GetOrCreateYields DEF GetOrCreateContributor

LEMMA StoreCommitYields ==
  ASSUME NEW step, NEW K, NEW r, NEW c, RepositoryKey(r) \in K
  PROVE  Yields(step, K, StoreCommit(r, c), K \cup {CommitKey(c.sha)})
<1> DEFINE e == ContributorKey(Normal[c.author])
           k == CommitKey(c.sha)
           row == Of({RepositoryKey(r), e})
           add == Counted(Add(k, row))
<1>1. /\ add.call = "add" /\ add.key = k /\ add.value.of = {RepositoryKey(r), e}
  BY DEF Counted, Add, Of
<1>2. Proper(step, k) /\ k[1] = "commits"
  BY KeysProper DEF CommitKey
<1>3. Yields(step, K, GetOrCreateContributor(c.author), K \cup {e})
  BY ContributorYields
<1> HIDE DEF add, k, e
<1>4. Yields(step, K \cup {e}, <<add>>, (K \cup {e}) \cup {k})
  BY <1>1, <1>2, AddOne
<1>5. Yields(step, K, GetOrCreateContributor(c.author) \o <<add>>, (K \cup {e}) \cup {k})
  BY <1>3, <1>4, InTurn
<1>6. Yields(step, K, GetOrCreateContributor(c.author) \o <<add>>, K \cup {k})
  BY <1>5, Consequence
<1>7. Yields(step, K \cup {k}, <<>>, K \cup {k})
  BY Done
<1>8. QED
  BY <1>2, <1>6, <1>7, LookUp DEF StoreCommit, add, k, e

\* A review or a comment: its author first, whoever that is.
Below(r, p, e, k) ==
  GetOrCreateContributor(e)
  \o <<Add(k, Of({PullRequestKey(r, p.number), ContributorKey(Normal[e])}))>>

LEMMA BelowPullRequest ==
  ASSUME NEW step, NEW K, NEW r, NEW p, NEW e, NEW k, Proper(step, k),
         PullRequestKey(r, p.number) \in K
  PROVE  Yields(step, K, Below(r, p, e, k), K)
<1> DEFINE f == ContributorKey(Normal[e])
           add == Add(k, Of({PullRequestKey(r, p.number), f}))
<1>1. /\ add.call = "add" /\ add.key = k /\ add.counted = FALSE
      /\ add.value.of = {PullRequestKey(r, p.number), f}
  BY DEF Add, Of
<1>2. Yields(step, K, GetOrCreateContributor(e), K \cup {f})
  BY ContributorYields
<1> HIDE DEF add, f
<1>3. Yields(step, K \cup {f}, <<add>>, (K \cup {f}) \cup {k})
  BY <1>1, AddOne
<1>4. Yields(step, K, GetOrCreateContributor(e) \o <<add>>, (K \cup {f}) \cup {k})
  BY <1>2, <1>3, InTurn
<1>5. Yields(step, K, GetOrCreateContributor(e) \o <<add>>, K)
  BY <1>4, Consequence
<1>6. QED
  BY <1>5 DEF Below, add, f

LEMMA EachContributor ==
  ASSUME NEW step, NEW K, NEW author, IsFiniteSet(author)
  PROVE  Yields(step, K, ForEach(GetOrCreateContributor, SetToSeq(author)),
                K \cup {ContributorKey(Normal[e]) : e \in author})
<1> DEFINE items == SetToSeq(author)
           plans == [i \in DOMAIN items |-> GetOrCreateContributor(items[i])]
           key == [i \in DOMAIN items |-> ContributorKey(Normal[items[i]])]
<1>1. IsList(items)
  BY SetToSeqList
<1>2. ASSUME NEW i \in DOMAIN items PROVE Yields(step, K, plans[i], K \cup {key[i]})
  BY ContributorYields
<1>3. plans = [i \in DOMAIN items |-> plans[i]]
  OBVIOUS
<1>4. {ContributorKey(Normal[e]) : e \in author} \subseteq Noted(key, items)
  BY SetToSeqList DEF Noted
<1>5. ForEach(GetOrCreateContributor, items) = FlattenSeq(plans)
  BY DEF ForEach
<1> HIDE DEF plans, key, items
<1>6. Yields(step, K, FlattenSeq(plans), K \cup Noted(key, items))
  BY <1>1, <1>2, <1>3, EachKnown
<1>7. QED
  BY <1>4, <1>5, <1>6, Consequence DEF items

LEMMA StorePullRequestYields ==
  ASSUME NEW K, NEW r, NEW p, RepositoryKey(r) \in K, IsList(p.reviewers), IsList(p.commenters)
  PROVE  Yields("pull_requests", K, StorePullRequest(r, p), K \cup {PullRequestKey(r, p.number)})
<1> DEFINE step == "pull_requests"
           author == IF p.author = Blank THEN {} ELSE {p.author}
           authors == {ContributorKey(Normal[e]) : e \in author}
           k == PullRequestKey(r, p.number)
           add == Counted(AddFlush(k, Of({RepositoryKey(r)} \cup authors)))
           reviewers == [i \in DOMAIN p.reviewers |-> i]
           commenters == Slice([i \in DOMAIN p.commenters |-> i], MaxComments)
           reviews == [i \in DOMAIN reviewers |-> StorePrReview(r, p, reviewers[i])]
           comments == [i \in DOMAIN commenters |-> StorePrComment(r, p, commenters[i])]
           people == ForEach(GetOrCreateContributor, SetToSeq(author))
           below == FlattenSeq(reviews)
           last == FlattenSeq(comments)
           L == (K \cup authors) \cup {k}
<1>1. StorePullRequest(r, p) = <<Either(k, <<>>, people \o <<add>> \o below \o last)>>
  BY DEF StorePullRequest, ForEach
<1>2. IsFiniteSet(author)
  BY FS_EmptySet, FS_Singleton
<1>3. Yields(step, K, people, K \cup authors)
  <2> HIDE DEF author
  <2>1. QED
    BY <1>2, EachContributor
<1>4. Yields(step, K \cup authors, <<add>>, L)
  <2>1. /\ add.call = "add" /\ add.key = k
        /\ add.value.of = {RepositoryKey(r)} \cup authors
    BY DEF Counted, AddFlush, Add, Of
  <2>2. Proper(step, k) /\ step # "commits"
    BY KeysProper
  <2> HIDE DEF add, authors, k, step
  <2>3. QED
    BY <2>1, <2>2, AddOne
<1>5. k \in L
  OBVIOUS
<1>6. IsList(reviewers) /\ IsList(commenters)
  <2>1. /\ Len(p.reviewers) \in Nat /\ DOMAIN p.reviewers = 1..Len(p.reviewers)
        /\ Len(p.commenters) \in Nat /\ DOMAIN p.commenters = 1..Len(p.commenters)
    BY LenProperties DEF IsList
  <2>2. IsList(reviewers) /\ IsList([i \in DOMAIN p.commenters |-> i])
    BY <2>1, ListFunction
  <2>3. MaxComments \in Nat
    BY ContentAssumption
  <2>4. QED
    BY <2>2, <2>3, SliceList
<1>7. Yields(step, L, below, L)
  <2>1. ASSUME NEW i \in DOMAIN reviewers PROVE Yields(step, L, reviews[i], L)
    <3>1. Proper(step, ReviewKey(r, p.number, reviewers[i]))
      BY KeysProper
    <3>2. reviews[i] = Below(r, p, p.reviewers[reviewers[i]], ReviewKey(r, p.number, reviewers[i]))
      BY DEF StorePrReview, Below
    <3> HIDE DEF L, reviewers, reviews, step
    <3>3. QED
      BY <1>5, <3>1, <3>2, BelowPullRequest
  <2>2. reviews = [i \in DOMAIN reviewers |-> reviews[i]]
    OBVIOUS
  <2> HIDE DEF L, reviewers, reviews, step
  <2>3. QED
    BY <1>6, <2>1, <2>2, EachDone
<1>8. Yields(step, L, last, L)
  <2>1. ASSUME NEW i \in DOMAIN commenters PROVE Yields(step, L, comments[i], L)
    <3>1. Proper(step, CommentKey(r, p.number, commenters[i]))
      BY KeysProper
    <3>2. comments[i] = Below(r, p, p.commenters[commenters[i]], CommentKey(r, p.number, commenters[i]))
      BY DEF StorePrComment, Below
    <3> HIDE DEF L, commenters, comments, step
    <3>3. QED
      BY <1>5, <3>1, <3>2, BelowPullRequest
  <2>2. comments = [i \in DOMAIN commenters |-> comments[i]]
    OBVIOUS
  <2> HIDE DEF L, commenters, comments, step
  <2>3. QED
    BY <1>6, <2>1, <2>2, EachDone
<1>9. K \cup {k} \subseteq L \cup K
  OBVIOUS
<1>10. Proper(step, k)
  BY KeysProper
<1> HIDE DEF step, people, add, below, last, L, k, authors, author
<1>11. Yields(step, K, people \o <<add>> \o below \o last, L)
  BY <1>3, <1>4, <1>7, <1>8, InTurn
<1>12. Yields(step, K, people \o <<add>> \o below \o last, K \cup {k})
  BY <1>9, <1>11, Consequence
<1>13. Yields(step, K \cup {k}, <<>>, K \cup {k})
  BY Done
<1>14. Yields(step, K, StorePullRequest(r, p), K \cup {k})
  BY <1>1, <1>10, <1>12, <1>13, LookUp
<1>15. QED
  BY <1>14 DEF step, k

LEMMA StoreRepositoryYields ==
  ASSUME NEW step, NEW K, NEW r, NEW m, ProjectKey(m.project) \in K,
         IsFiniteSet(m.service), \A t, u \in m.team : t = u
  PROVE  Yields(step, K, StoreRepository(r, m), K \cup {RepositoryKey(r)})
<1> DEFINE t == CHOOSE t \in m.team : TRUE
           services == SetToSeq(m.service)
           made == [i \in DOMAIN services |-> GetOrCreateService(services[i])]
           linked == [i \in DOMAIN services |->
                        GetOrCreate(LinkKey(r, services[i]), Of({RepositoryKey(r), ServiceKey(services[i])}))]
           team == IF m.team = {} THEN <<>> ELSE GetOrCreateTeam(t)
           owners == team \o FlattenSeq(made)
           k == RepositoryKey(r)
           above == {ProjectKey(m.project)} \cup {TeamKey(u) : u \in m.team}
           add == AddFlush(k, Of(above))
           set == Set(k, Of(above))
           key == [i \in DOMAIN services |-> ServiceKey(services[i])]
           M == K \cup {TeamKey(u) : u \in m.team}
           L == M \cup Noted(key, services)
<1>1. StoreRepository(r, m) = <<Either(k, owners \o <<set>>, owners \o <<add>>)>> \o FlattenSeq(linked)
  BY DEF StoreRepository, ForEach
<1>2. IsList(services)
  BY SetToSeqList
<1>3. Yields(step, K, team, M)
  <2>1. CASE m.team = {}
    <3>1. team = <<>> /\ M = K
      BY <2>1
    <3> HIDE DEF team, M
    <3>2. QED
      BY <3>1, Done
  <2>2. CASE m.team # {}
    <3>1. team = GetOrCreateTeam(t) /\ M = K \cup {TeamKey(t)}
      BY <2>2
    <3>2. Proper(step, TeamKey(t)) /\ Stored.of \subseteq K
      BY KeysProper DEF Stored
    <3> HIDE DEF team, M, t
    <3>3. QED
      BY <3>1, <3>2, GetOrCreateYields DEF GetOrCreateTeam
  <2>3. QED
    BY <2>1, <2>2
<1>4. Yields(step, M, FlattenSeq(made), L)
  <2>1. ASSUME NEW i \in DOMAIN services PROVE Yields(step, M, made[i], M \cup {key[i]})
    <3>1. made[i] = GetOrCreate(ServiceKey(services[i]), Stored) /\ key[i] = ServiceKey(services[i])
      BY DEF GetOrCreateService
    <3>2. Proper(step, ServiceKey(services[i])) /\ Stored.of \subseteq M
      BY KeysProper DEF Stored
    <3> HIDE DEF made, key, M, services
    <3>3. QED
      BY <3>1, <3>2, GetOrCreateYields
  <2>2. made = [i \in DOMAIN services |-> made[i]]
    OBVIOUS
  <2> HIDE DEF made, key, M, services
  <2>3. QED
    BY <1>2, <2>1, <2>2, EachKnown
<1>5. Yields(step, K, owners, L)
  <2> HIDE DEF team, made, M, L
  <2>1. QED
    BY <1>3, <1>4, InTurn
<1>6. above \subseteq L /\ \A i \in DOMAIN services : ServiceKey(services[i]) \in L
  BY DEF Noted
<1>7. Proper(step, k) /\ k[1] # "commits"
  BY KeysProper DEF RepositoryKey
<1>8. Yields(step, K, owners \o <<add>>, L \cup {k})
  <2>1. /\ add.call = "add" /\ add.key = k /\ add.value.of = above /\ add.counted = FALSE
    BY DEF AddFlush, Add, Of
  <2> HIDE DEF add, owners, L, k, above
  <2>2. Yields(step, L, <<add>>, L \cup {k})
    BY <1>6, <1>7, <2>1, AddOne
  <2>3. QED
    BY <1>5, <2>2, InTurn
<1>9. Yields(step, K \cup {k}, owners \o <<set>>, L \cup {k})
  <2>1. set.call = "set" /\ set.key = k /\ set.value.of = above
    BY DEF Set, Of
  <2> HIDE DEF set, owners, L, k, above
  <2>2. CallFits(step, L \cup {k}, set) /\ set.call \notin {"lookup", "add"}
    BY <1>6, <1>7, <2>1 DEF CallFits
  <2>3. Yields(step, L \cup {k}, <<set>>, L \cup {k})
    BY <2>2, Leave
  <2>4. Yields(step, K \cup {k}, owners, L \cup {k})
    BY <1>5, Frame
  <2>5. QED
    BY <2>3, <2>4, InTurn
<1>10. Yields(step, L \cup {k}, FlattenSeq(linked), L \cup {k})
  <2>1. ASSUME NEW i \in DOMAIN services PROVE Yields(step, L \cup {k}, linked[i], L \cup {k})
    <3> DEFINE row == Of({RepositoryKey(r), ServiceKey(services[i])})
               link == LinkKey(r, services[i])
    <3>1. linked[i] = GetOrCreate(link, row)
      OBVIOUS
    <3>2. Proper(step, link) /\ row.of \subseteq L \cup {k}
      BY <1>6, KeysProper DEF Of
    <3> HIDE DEF linked, L, k, services, link, row
    <3>3. Yields(step, L \cup {k}, linked[i], (L \cup {k}) \cup {link})
      BY <3>1, <3>2, GetOrCreateYields
    <3>4. QED
      BY <3>3, Consequence
  <2>2. linked = [i \in DOMAIN services |-> linked[i]]
    OBVIOUS
  <2> HIDE DEF linked, L, k, services
  <2>3. QED
    BY <1>2, <2>1, <2>2, EachDone
<1>11. QED
  <2> DEFINE either == <<Either(k, owners \o <<set>>, owners \o <<add>>)>>
  <2> HIDE DEF add, set, owners, L, k, linked
  <2>1. Yields(step, K, either, L \cup {k})
    BY <1>7, <1>8, <1>9, LookUp
  <2> HIDE DEF either
  <2>2. Yields(step, K, either \o FlattenSeq(linked), L \cup {k})
    BY <1>10, <2>1, InTurn
  <2>3. Yields(step, K, either \o FlattenSeq(linked), K \cup {k})
    BY <2>2, Consequence
  <2>4. QED
    BY <1>1, <2>3 DEF either, k

-----------------------------------------------------------------------------
(* The steps: what each asks for is known when its calls are made.         *)

LEMMA RaiseYields ==
  ASSUME NEW step, NEW K, NEW G
  PROVE  Yields(step, K, <<Raise>>, G)
<1>1. <<Raise>> \o <<>> = <<Raise>>
  BY OneList, EmptyList, ListConcat
<1>2. QED
  BY <1>1, EmptyList, Raises

LEMMA EachUpsert ==
  ASSUME NEW step, NEW K, NEW r, RepositoryKey(r) \in K, NEW items, IsList(items), NEW plans, NEW key,
         plans = [i \in DOMAIN items |-> plans[i]],
         \A i \in DOMAIN items : /\ plans[i] = Upsert(key[i], Of({RepositoryKey(r)}))
                                /\ Proper(step, key[i]) /\ key[i][1] # "commits"
  PROVE  Yields(step, K, FlattenSeq(plans), K \cup Noted(key, items))
<1> DEFINE row == Of({RepositoryKey(r)})
<1>1. row.of \subseteq K
  BY DEF Of
<1> HIDE DEF row
<1>2. ASSUME NEW i \in DOMAIN items PROVE Yields(step, K, plans[i], K \cup {key[i]})
  <2>1. plans[i] = Upsert(key[i], row) /\ Proper(step, key[i]) /\ key[i][1] # "commits"
    BY DEF row
  <2>2. QED
    BY <1>1, <2>1, UpsertYields
<1>3. QED
  BY <1>2, EachKnown

LEMMA BranchesYield ==
  ASSUME NEW step, NEW K, NEW r, RepositoryKey(r) \in K, NEW items, IsList(items)
  PROVE  Yields(step, K, ProcessBranches(r, items), K \cup {BranchKey(r, b) : b \in ToSet(Slice(items, MaxBranches))})
<1> DEFINE its == Slice(items, MaxBranches)
           plans == [i \in DOMAIN its |-> Upsert(BranchKey(r, its[i]), Of({RepositoryKey(r)}))]
           key == [i \in DOMAIN its |-> BranchKey(r, its[i])]
<1>1. IsList(its)
  BY ContentAssumption, SliceList
<1>2. \A i \in DOMAIN its : /\ plans[i] = Upsert(key[i], Of({RepositoryKey(r)}))
                           /\ Proper(step, key[i]) /\ key[i][1] # "commits"
  BY KeysProper DEF BranchKey, StackKey, DependencyKey
<1>3. plans = [i \in DOMAIN its |-> plans[i]]
  OBVIOUS
<1>4. ProcessBranches(r, items) = FlattenSeq(plans)
  BY DEF ProcessBranches, StoreBranch, ForEach
<1>5. {BranchKey(r, b) : b \in ToSet(Slice(items, MaxBranches))} \subseteq Noted(key, its)
  BY DEF Noted, ToSet
<1> HIDE DEF plans, key, its
<1>6. Yields(step, K, FlattenSeq(plans), K \cup Noted(key, its))
  BY <1>1, <1>2, <1>3, EachUpsert
<1>7. QED
  BY <1>4, <1>5, <1>6, Consequence

LEMMA LanguagesYield ==
  ASSUME NEW step, NEW K, NEW r, RepositoryKey(r) \in K, NEW items, IsList(items)
  PROVE  Yields(step, K, StoreLanguages(r, items), K \cup {StackKey(r, "language", l) : l \in ToSet(items)})
<1> DEFINE its == items
           plans == [i \in DOMAIN its |-> Upsert(StackKey(r, "language", its[i]), Of({RepositoryKey(r)}))]
           key == [i \in DOMAIN its |-> StackKey(r, "language", its[i])]
<1>1. IsList(its)
  BY ContentAssumption, SliceList
<1>2. \A i \in DOMAIN its : /\ plans[i] = Upsert(key[i], Of({RepositoryKey(r)}))
                           /\ Proper(step, key[i]) /\ key[i][1] # "commits"
  BY KeysProper DEF BranchKey, StackKey, DependencyKey
<1>3. plans = [i \in DOMAIN its |-> plans[i]]
  OBVIOUS
<1>4. StoreLanguages(r, items) = FlattenSeq(plans)
  BY DEF StoreLanguages, ForEach
<1>5. {StackKey(r, "language", l) : l \in ToSet(items)} \subseteq Noted(key, its)
  BY DEF Noted, ToSet
<1> HIDE DEF plans, key, its
<1>6. Yields(step, K, FlattenSeq(plans), K \cup Noted(key, its))
  BY <1>1, <1>2, <1>3, EachUpsert
<1>7. QED
  BY <1>4, <1>5, <1>6, Consequence

LEMMA DetectionsYield ==
  ASSUME NEW step, NEW K, NEW r, RepositoryKey(r) \in K, NEW items, IsList(items)
  PROVE  Yields(step, K, StoreDetections(r, items), K \cup {StackKey(r, "framework", n) : n \in ToSet(items)})
<1> DEFINE its == items
           plans == [i \in DOMAIN its |-> Upsert(StackKey(r, "framework", its[i]), Of({RepositoryKey(r)}))]
           key == [i \in DOMAIN its |-> StackKey(r, "framework", its[i])]
<1>1. IsList(its)
  BY ContentAssumption, SliceList
<1>2. \A i \in DOMAIN its : /\ plans[i] = Upsert(key[i], Of({RepositoryKey(r)}))
                           /\ Proper(step, key[i]) /\ key[i][1] # "commits"
  BY KeysProper DEF BranchKey, StackKey, DependencyKey
<1>3. plans = [i \in DOMAIN its |-> plans[i]]
  OBVIOUS
<1>4. StoreDetections(r, items) = FlattenSeq(plans)
  BY DEF StoreDetections, ForEach
<1>5. {StackKey(r, "framework", n) : n \in ToSet(items)} \subseteq Noted(key, its)
  BY DEF Noted, ToSet
<1> HIDE DEF plans, key, its
<1>6. Yields(step, K, FlattenSeq(plans), K \cup Noted(key, its))
  BY <1>1, <1>2, <1>3, EachUpsert
<1>7. QED
  BY <1>4, <1>5, <1>6, Consequence

LEMMA UsesYield ==
  ASSUME NEW step, NEW K, NEW r, RepositoryKey(r) \in K, NEW items, IsList(items)
  PROVE  Yields(step, K, StoreRepoDependencies(r, items), K \cup {DependencyKey(r, d.package) : d \in ToSet(items)})
<1> DEFINE its == items
           plans == [i \in DOMAIN its |-> Upsert(DependencyKey(r, its[i].package), Of({RepositoryKey(r)}))]
           key == [i \in DOMAIN its |-> DependencyKey(r, its[i].package)]
<1>1. IsList(its)
  BY ContentAssumption, SliceList
<1>2. \A i \in DOMAIN its : /\ plans[i] = Upsert(key[i], Of({RepositoryKey(r)}))
                           /\ Proper(step, key[i]) /\ key[i][1] # "commits"
  BY KeysProper DEF BranchKey, StackKey, DependencyKey
<1>3. plans = [i \in DOMAIN its |-> plans[i]]
  OBVIOUS
<1>4. StoreRepoDependencies(r, items) = FlattenSeq(plans)
  BY DEF StoreRepoDependencies, ForEach
<1>5. {DependencyKey(r, d.package) : d \in ToSet(items)} \subseteq Noted(key, its)
  BY DEF Noted, ToSet
<1> HIDE DEF plans, key, its
<1>6. Yields(step, K, FlattenSeq(plans), K \cup Noted(key, its))
  BY <1>1, <1>2, <1>3, EachUpsert
<1>7. QED
  BY <1>4, <1>5, <1>6, Consequence

LEMMA ReadmesYield ==
  ASSUME NEW step, NEW K, NEW r, RepositoryKey(r) \in K, NEW items, IsList(items)
  PROVE  Yields(step, K, ProcessReadmeFiles(r, items), K)
<1> DEFINE plans == [i \in DOMAIN items |-> StoreReadme(r, items[i])]
<1>1. ASSUME NEW f PROVE Yields(step, K, StoreReadme(r, f), K)
  <2> DEFINE link == Link(r, f)
             k == RepositoryKey(r)
  <2>1. link.call = "link" /\ link.repo = r
    BY DEF Link
  <2>2. Proper(step, k) /\ K \cup {k} = K
    BY KeysProper
  <2> HIDE DEF link
  <2>3. CallFits(step, K, link) /\ link.call \notin {"lookup", "add"}
    BY <2>1 DEF CallFits
  <2>4. Yields(step, K, <<link>>, K)
    BY <2>3, Leave
  <2>5. Yields(step, K, <<Raise>>, K)
    BY RaiseYields
  <2> HIDE DEF k
  <2>6. QED
    BY <2>2, <2>4, <2>5, LookUp DEF StoreReadme, link, k
<1>2. /\ plans = [i \in DOMAIN items |-> plans[i]]
      /\ \A i \in DOMAIN items : Yields(step, K, plans[i], K)
  BY <1>1
<1>3. ProcessReadmeFiles(r, items) = FlattenSeq(plans)
  BY DEF ProcessReadmeFiles, ForEach
<1> HIDE DEF plans
<1>4. QED
  BY <1>2, <1>3, EachDone

LEMMA CommitsYield ==
  ASSUME NEW step, NEW K, NEW r, RepositoryKey(r) \in K, NEW items, IsList(items)
  PROVE  Yields(step, K, ProcessCommits(r, items), K \cup {CommitKey(c.sha) : c \in ToSet(items)})
<1> DEFINE plans == [i \in DOMAIN items |-> StoreCommit(r, items[i])]
           key == [i \in DOMAIN items |-> CommitKey(items[i].sha)]
<1>1. /\ plans = [i \in DOMAIN items |-> plans[i]]
      /\ \A i \in DOMAIN items : Yields(step, K, plans[i], K \cup {key[i]})
  BY StoreCommitYields
<1>2. ProcessCommits(r, items) = FlattenSeq(plans)
  BY DEF ProcessCommits, ForEach
<1>3. {CommitKey(c.sha) : c \in ToSet(items)} \subseteq Noted(key, items)
  BY DEF Noted, ToSet
<1> HIDE DEF plans, key
<1>4. Yields(step, K, FlattenSeq(plans), K \cup Noted(key, items))
  BY <1>1, EachKnown
<1>5. QED
  BY <1>2, <1>3, <1>4, Consequence

LEMMA PullRequestsYield ==
  ASSUME NEW K, NEW r, RepositoryKey(r) \in K, NEW items, IsList(items),
         \A p \in ToSet(items) : IsList(p.reviewers) /\ IsList(p.commenters)
  PROVE  Yields("pull_requests", K, ProcessPullRequests(r, items),
                K \cup {PullRequestKey(r, p.number) : p \in ToSet(Slice(items, MaxPullRequests))})
<1> DEFINE step == "pull_requests"
           its == Slice(items, MaxPullRequests)
           plans == [i \in DOMAIN its |-> StorePullRequest(r, its[i])]
           key == [i \in DOMAIN its |-> PullRequestKey(r, its[i].number)]
<1>1. IsList(its)
  BY ContentAssumption, SliceList
<1>2. \A i \in DOMAIN its : its[i] \in ToSet(items)
  BY ContentAssumption, SlicePart
<1>3. /\ plans = [i \in DOMAIN its |-> plans[i]]
      /\ \A i \in DOMAIN its : Yields(step, K, plans[i], K \cup {key[i]})
  <2> HIDE DEF its
  <2>1. QED
    BY <1>2, StorePullRequestYields
<1>4. ProcessPullRequests(r, items) = FlattenSeq(plans)
  BY DEF ProcessPullRequests, ForEach
<1>5. {PullRequestKey(r, p.number) : p \in ToSet(its)} \subseteq Noted(key, its)
  BY DEF Noted, ToSet
<1>6. Yields(step, K, FlattenSeq(plans), K \cup Noted(key, its))
  <2> HIDE DEF plans, key, its, step
  <2>1. QED
    BY <1>1, <1>3, EachKnown
<1>7. QED
  <2> HIDE DEF plans, key
  <2>1. QED
    BY <1>4, <1>5, <1>6, Consequence

LEMMA TwoCalls ==
  ASSUME NEW a, NEW b
  PROVE  <<a, b>> = <<a>> \o <<b>>
<1>1. <<a>> \in Seq({a, b}) /\ <<b>> \in Seq({a, b}) /\ <<a, b>> \in Seq({a, b})
  OBVIOUS
<1>2. Len(<<a>>) = 1 /\ Len(<<b>>) = 1 /\ Len(<<a, b>>) = 2
  OBVIOUS
<1>3. /\ <<a>> \o <<b>> \in Seq({a, b}) /\ Len(<<a>> \o <<b>>) = 2
      /\ (<<a>> \o <<b>>)[1] = a /\ (<<a>> \o <<b>>)[2] = b
  BY <1>1, <1>2, ConcatProperties
<1> DEFINE s == <<a, b>>
           t == <<a>> \o <<b>>
<1>4. s[1] = a /\ s[2] = b /\ s \in Seq({a, b}) /\ t \in Seq({a, b}) /\ Len(s) = 2
      /\ Len(t) = 2 /\ t[1] = a /\ t[2] = b
  BY <1>1, <1>3
<1> HIDE DEF s, t
<1>5. \A i \in 1..Len(s) : s[i] = t[i]
  <2>1. \A i \in 1..2 : i = 1 \/ i = 2
    OBVIOUS
  <2>2. QED
    BY <1>4, <2>1
<1>6. s = t
  BY <1>4, <1>5, SeqEqual
<1>7. QED
  BY <1>6 DEF s, t

LEMMA PackageYields ==
  ASSUME NEW step, NEW K, NEW d, IsFiniteSet(d.cves)
  PROVE  Yields(step, K, StorePackageMetadata(d), K)
<1>1. CASE ~Metadata(d).found
  BY <1>1, Done DEF StorePackageMetadata
<1>2. CASE Metadata(d).found
  <2> DEFINE k == PackageKey(d.package)
             add == AddFlush(k, Stored)
             either == Either(k, <<>>, <<add>>)
             replace == Replace(d.package, Metadata(d).cves)
  <2>1. StorePackageMetadata(d) = <<either, replace>>
    BY <1>2 DEF StorePackageMetadata
  <2>2. <<either, replace>> = <<either>> \o <<replace>>
    <3> HIDE DEF either, replace
    <3>1. QED
      BY TwoCalls
  <2>3. Yields(step, K, <<add>>, K \cup {k})
    <3>1. add.call = "add" /\ add.key = k /\ add.value = Stored /\ add.counted = FALSE
      BY DEF AddFlush, Add
    <3>2. Proper(step, k) /\ Stored.of \subseteq K
      BY KeysProper DEF Stored
    <3> HIDE DEF add, k
    <3>3. QED
      BY <3>1, <3>2, AddOne
  <2>4. Yields(step, K \cup {k}, <<replace>>, K \cup {k})
    <3>1. /\ replace.call = "replace" /\ replace.package = d.package
          /\ IsFiniteSet(replace.cves)
      BY FS_EmptySet DEF Replace, Metadata
    <3> HIDE DEF replace
    <3>2. CallFits(step, K \cup {k}, replace) /\ replace.call \notin {"lookup", "add"}
      BY <3>1 DEF CallFits
    <3>3. QED
      BY <3>2, Leave
  <2>5. Proper(step, k)
    BY KeysProper
  <2> HIDE DEF add, k, replace
  <2>6. Yields(step, K \cup {k}, <<>>, K \cup {k})
    BY Done
  <2>7. Yields(step, K, <<either>>, K \cup {k})
    BY <2>3, <2>5, <2>6, LookUp
  <2> HIDE DEF either
  <2>8. Yields(step, K, <<either>> \o <<replace>>, K \cup {k})
    BY <2>4, <2>7, InTurn
  <2>9. Yields(step, K, <<either>> \o <<replace>>, K)
    BY <2>8, Consequence
  <2>10. QED
    BY <2>1, <2>2, <2>9
<1>3. QED
  BY <1>1, <1>2

LEMMA DependenciesYield ==
  ASSUME NEW step, NEW K, NEW r, RepositoryKey(r) \in K, NEW items, IsList(items),
         \A d \in ToSet(items) : IsFiniteSet(d.cves)
  PROVE  Yields(step, K, ProcessDependencies(r, items),
                K \cup {DependencyKey(r, d.package) : d \in ToSet(items)})
<1> DEFINE plans == [i \in DOMAIN items |-> StorePackageMetadata(items[i])]
           uses == {DependencyKey(r, d.package) : d \in ToSet(items)}
<1>1. /\ plans = [i \in DOMAIN items |-> plans[i]]
      /\ \A i \in DOMAIN items : Yields(step, K, plans[i], K)
  BY PackageYields DEF ToSet
<1>2. ProcessDependencies(r, items) = FlattenSeq(plans) \o StoreRepoDependencies(r, items)
  BY DEF ProcessDependencies, ForEach
<1>3. Yields(step, K, StoreRepoDependencies(r, items), K \cup uses)
  BY UsesYield
<1> HIDE DEF plans, uses
<1>4. Yields(step, K, FlattenSeq(plans), K)
  BY <1>1, EachDone
<1>5. Yields(step, K, ProcessDependencies(r, items), K \cup uses)
  BY <1>2, <1>3, <1>4, InTurn
<1>6. QED
  BY <1>5 DEF uses

\* The enrichment has nothing to do, or raises first of all.
LEMMA EnrichmentIs ==
  ASSUME NEW entries, IsList(entries)
  PROVE  \/ ProcessEnrichment(entries) = <<>>
         \/ \E q : IsList(q) /\ ProcessEnrichment(entries) = <<Raise>> \o q
<1>1. CASE entries = <<>>
  BY <1>1 DEF ProcessEnrichment
<1>2. CASE entries # <<>>
  <2> DEFINE plans == [i \in DOMAIN entries |-> StoreTechnologyEol(entries[i])]
  <2>1. ProcessEnrichment(entries) = <<Raise>> \o FlattenSeq(plans)
    BY <1>2 DEF ProcessEnrichment, ForEach
  <2>2. ASSUME NEW n PROVE Yields("enrichment", {}, StoreTechnologyEol(n), {})
    <3>1. /\ Proper("enrichment", TechnologyKey(n)) /\ TechnologyKey(n)[1] # "commits"
          /\ Stored.of \subseteq {}
      BY KeysProper DEF TechnologyKey, Stored
    <3>2. Yields("enrichment", {}, StoreTechnologyEol(n), {} \cup {TechnologyKey(n)})
      BY <3>1, UpsertYields DEF StoreTechnologyEol
    <3>3. QED
      BY <3>2, Consequence
  <2>3. /\ plans = [i \in DOMAIN entries |-> plans[i]]
        /\ \A i \in DOMAIN entries : Yields("enrichment", {}, plans[i], {})
    BY <2>2
  <2> HIDE DEF plans
  <2>4. Yields("enrichment", {}, FlattenSeq(plans), {})
    BY <2>3, EachDone
  <2>5. IsList(FlattenSeq(plans))
    BY <2>4, Making
  <2>6. QED
    BY <2>1, <2>5
<1>3. QED
  BY <1>1, <1>2

LEMMA EnrichmentYields ==
  ASSUME NEW step, NEW K, NEW entries, IsList(entries)
  PROVE  Yields(step, K, ProcessEnrichment(entries), K)
<1>1. CASE ProcessEnrichment(entries) = <<>>
  BY <1>1, Done
<1>2. CASE \E q : IsList(q) /\ ProcessEnrichment(entries) = <<Raise>> \o q
  BY <1>2, Raises
<1>3. QED
  BY <1>1, <1>2, EnrichmentIs

LEMMA OrganizationYields ==
  ASSUME NEW step, NEW K, NEW o
  PROVE  Yields(step, K, StoreOrganization(o), K \cup {OrganizationKey(o)})
<1>1. Proper(step, OrganizationKey(o)) /\ Stored.of \subseteq K
  BY KeysProper DEF Stored
<1>2. QED
  BY <1>1, GetOrCreateYields DEF StoreOrganization

LEMMA ProjectYields ==
  ASSUME NEW step, NEW K, NEW o, NEW p, OrganizationKey(o) \in K
  PROVE  Yields(step, K, StoreProject(o, p), K \cup {ProjectKey(p)})
<1> DEFINE row == Of({OrganizationKey(o)})
<1>1. Proper(step, ProjectKey(p)) /\ row.of \subseteq K
  BY KeysProper DEF Of
<1> HIDE DEF row
<1>2. QED
  BY <1>1, GetOrCreateYields DEF StoreProject, row

LEMMA ScaffoldYields ==
  ASSUME NEW step, NEW K, NEW r, NEW o
  PROVE  /\ Yields(step, K, ProcessOrganization(o), K \cup {OrganizationKey(o.name)})
         /\ Yields(step, K, AzureProcessOrganization(o), K \cup {OrganizationKey(o.name)})
         /\ Yields(step, K, AzureProcessProject(o), K \cup {ProjectKey(o.project)})
<1> DEFINE k == OrganizationKey(o.name)
           p == ProjectKey(o.project)
<1>1. Yields(step, K, StoreOrganization(o.name), K \cup {k})
  BY OrganizationYields
<1>2. Yields(step, K \cup {k}, StoreProject(o.name, o.project), (K \cup {k}) \cup {p})
  BY ProjectYields
<1>3. Proper(step, k)
  BY KeysProper
<1> HIDE DEF k, p
<1>4. Yields(step, K, ProcessOrganization(o), (K \cup {k}) \cup {p})
  BY <1>1, <1>2, InTurn DEF ProcessOrganization
<1>5. Yields(step, K, ProcessOrganization(o), K \cup {k})
  BY <1>4, Consequence
<1>6. Yields(step, K \cup {k}, StoreProject(o.name, o.project), K \cup {p})
  BY <1>2, Consequence
<1>7. Yields(step, K, <<Raise>>, K \cup {p})
  BY RaiseYields
<1>8. Yields(step, K, AzureProcessProject(o), K \cup {p})
  BY <1>3, <1>6, <1>7, LookUp DEF AzureProcessProject, k
<1>9. QED
  BY <1>1, <1>5, <1>8 DEF AzureProcessOrganization, k, p

LEMMA RepositoryYields ==
  ASSUME NEW step, NEW K, NEW r, NEW m, IsFiniteSet(m.service), \A t, u \in m.team : t = u
  PROVE  Yields(step, K, ProcessRepository(r, m), K \cup {RepositoryKey(r)})
<1> DEFINE p == ProjectKey(m.project)
           k == RepositoryKey(r)
<1>1. Yields(step, K \cup {p}, StoreRepository(r, m), (K \cup {p}) \cup {k})
  BY StoreRepositoryYields
<1>2. Proper(step, p)
  BY KeysProper
<1> HIDE DEF k, p
<1>3. Yields(step, K \cup {p}, StoreRepository(r, m), K \cup {k})
  BY <1>1, Consequence
<1>4. Yields(step, K, <<Raise>>, K \cup {k})
  BY RaiseYields
<1>5. Yields(step, K, ProcessRepository(r, m), K \cup {k})
  BY <1>2, <1>3, <1>4, LookUp DEF ProcessRepository, p
<1>6. QED
  BY <1>5 DEF k

\* The place of a step in its extraction.
RepositoryAt(r) == IF r \in AzureRepos THEN 3 ELSE 2
CommitsAt(r)    == IF r \in AzureRepos THEN 9 ELSE 8

GitHubNames == {"organization", "repository", "branches", "languages", "detections",
                "enrichment", "readmes", "commits", "pull_requests", "dependencies"}
AzureNames  == {"organization", "project", "repository", "branches", "languages", "technologies",
                "enrichment", "readmes", "commits", "pull_requests", "dependencies"}

LEMMA Places ==
  ASSUME NEW r
  PROVE  /\ Len(StepsOf(r)) \in Nat /\ RepositoryAt(r) < Len(StepsOf(r)) /\ CommitsAt(r) < Len(StepsOf(r))
         /\ RepositoryAt(r) \in Nat \ {0} /\ CommitsAt(r) \in Nat \ {0}
         /\ \A i \in 1..Len(StepsOf(r)) :
              /\ StepsOf(r)[i] \in ToSet(StepsOf(r))
              /\ StepsOf(r)[i] \in (IF r \in AzureRepos THEN AzureNames ELSE GitHubNames)
              /\ StepsOf(r)[i] = "repository" <=> i = RepositoryAt(r)
              /\ StepsOf(r)[i] \in Scaffold <=> i <= RepositoryAt(r)
              /\ StepsOf(r)[i] = "commits" <=> i = CommitsAt(r)
<1>1. CASE r \in AzureRepos
  <2>1. Len(AzureSteps) = 11 /\ DOMAIN AzureSteps = 1..11
    BY DEF AzureSteps
  <2>2. \A i \in 1..11 : i = 1 \/ i = 2 \/ i = 3 \/ i = 4 \/ i = 5 \/ i = 6 \/ i = 7 \/ i = 8 \/ i = 9 \/ i = 10 \/ i = 11
    OBVIOUS
  <2>3. \A i \in 1..11 : AzureSteps[i] \in ToSet(AzureSteps)
    BY <2>1 DEF ToSet
  <2>4. \A i \in 1..11 : /\ AzureSteps[i] \in AzureNames
                         /\ AzureSteps[i] = "repository" <=> i = 3
                         /\ AzureSteps[i] = "commits" <=> i = 9
                         /\ AzureSteps[i] \in Scaffold <=> i <= 3
    BY <2>2 DEF AzureSteps, AzureNames, Scaffold
  <2>5. StepsOf(r) = AzureSteps /\ RepositoryAt(r) = 3 /\ CommitsAt(r) = 9
    BY <1>1 DEF StepsOf, RepositoryAt, CommitsAt
  <2>6. /\ Len(StepsOf(r)) \in Nat /\ RepositoryAt(r) < Len(StepsOf(r)) /\ CommitsAt(r) < Len(StepsOf(r))
        /\ RepositoryAt(r) \in Nat \ {0} /\ CommitsAt(r) \in Nat \ {0}
    <3>1. Len(StepsOf(r)) = 11
      BY <2>1, <2>5
    <3>2. RepositoryAt(r) = 3 /\ CommitsAt(r) = 9
      BY <2>5
    <3>3. 11 \in Nat /\ 3 < 11 /\ 9 < 11 /\ 3 \in Nat \ {0} /\ 9 \in Nat \ {0}
      OBVIOUS
    <3>4. QED
      BY <3>1, <3>2, <3>3
  <2>7. ASSUME NEW i \in 1..Len(StepsOf(r))
        PROVE  /\ StepsOf(r)[i] \in ToSet(StepsOf(r))
               /\ StepsOf(r)[i] \in AzureNames
               /\ StepsOf(r)[i] = "repository" <=> i = RepositoryAt(r)
               /\ StepsOf(r)[i] \in Scaffold <=> i <= RepositoryAt(r)
               /\ StepsOf(r)[i] = "commits" <=> i = CommitsAt(r)
    <3>1. i \in 1..11
      BY <2>1, <2>5
    <3>2. QED
      BY <2>3, <2>4, <2>5, <3>1
  <2>8. QED
    BY <1>1, <2>6, <2>7
<1>2. CASE r \notin AzureRepos
  <2>1. Len(GitHubSteps) = 10 /\ DOMAIN GitHubSteps = 1..10
    BY DEF GitHubSteps
  <2>2. \A i \in 1..10 : i = 1 \/ i = 2 \/ i = 3 \/ i = 4 \/ i = 5 \/ i = 6 \/ i = 7 \/ i = 8 \/ i = 9 \/ i = 10
    OBVIOUS
  <2>3. \A i \in 1..10 : GitHubSteps[i] \in ToSet(GitHubSteps)
    BY <2>1 DEF ToSet
  <2>4. \A i \in 1..10 : /\ GitHubSteps[i] \in GitHubNames
                         /\ GitHubSteps[i] = "repository" <=> i = 2
                         /\ GitHubSteps[i] = "commits" <=> i = 8
                         /\ GitHubSteps[i] \in Scaffold <=> i <= 2
    BY <2>2 DEF GitHubSteps, GitHubNames, Scaffold
  <2>5. StepsOf(r) = GitHubSteps /\ RepositoryAt(r) = 2 /\ CommitsAt(r) = 8
    BY <1>2 DEF StepsOf, RepositoryAt, CommitsAt
  <2>6. /\ Len(StepsOf(r)) \in Nat /\ RepositoryAt(r) < Len(StepsOf(r)) /\ CommitsAt(r) < Len(StepsOf(r))
        /\ RepositoryAt(r) \in Nat \ {0} /\ CommitsAt(r) \in Nat \ {0}
    <3>1. Len(StepsOf(r)) = 10
      BY <2>1, <2>5
    <3>2. RepositoryAt(r) = 2 /\ CommitsAt(r) = 8
      BY <2>5
    <3>3. 10 \in Nat /\ 2 < 10 /\ 8 < 10 /\ 2 \in Nat \ {0} /\ 8 \in Nat \ {0}
      OBVIOUS
    <3>4. QED
      BY <3>1, <3>2, <3>3
  <2>7. ASSUME NEW i \in 1..Len(StepsOf(r))
        PROVE  /\ StepsOf(r)[i] \in ToSet(StepsOf(r))
               /\ StepsOf(r)[i] \in GitHubNames
               /\ StepsOf(r)[i] = "repository" <=> i = RepositoryAt(r)
               /\ StepsOf(r)[i] \in Scaffold <=> i <= RepositoryAt(r)
               /\ StepsOf(r)[i] = "commits" <=> i = CommitsAt(r)
    <3>1. i \in 1..10
      BY <2>1, <2>5
    <3>2. QED
      BY <2>3, <2>4, <2>5, <3>1
  <2>8. QED
    BY <1>2, <2>6, <2>7
<1>3. QED
  BY <1>1, <1>2

LEMMA PlanYields ==
  ASSUME NEW r \in Repos, NEW n \in 1..Len(StepsOf(r)), NEW items, NEW entries, IsList(entries),
         StepsOf(r)[n] # "enrichment" => items \in Listing[r][StepsOf(r)[n]],
         NEW K, StepsOf(r)[n] \notin Scaffold => RepositoryKey(r) \in K
  PROVE  Yields(StepsOf(r)[n], K, Plan(r, StepsOf(r)[n], items, entries),
                K \cup Asked(r, StepsOf(r)[n], items))
<1> DEFINE step == StepsOf(r)[n]
           A == K \cup Asked(r, step, items)
<1>1. /\ step \in ToSet(StepsOf(r))
      /\ step \in (IF r \in AzureRepos THEN AzureNames ELSE GitHubNames)
  BY Places
<1>2. step \notin Scaffold \cup {"enrichment"} => IsList(items)
  BY <1>1, ListingAssumption
<1>3. step # "enrichment" => items \in Listing[r][step]
  OBVIOUS
<1>4. step \notin Scaffold => RepositoryKey(r) \in K
  OBVIOUS
<1> HIDE DEF step
<1>5. CASE step = "organization"
  <2>1. /\ A = K \cup {OrganizationKey(items.name)}
        /\ \/ Plan(r, step, items, entries) = ProcessOrganization(items)
           \/ Plan(r, step, items, entries) = AzureProcessOrganization(items)
    BY <1>5 DEF Plan, GitHubPlan, AzurePlan, Asked
  <2> HIDE DEF A
  <2>2. /\ Yields(step, K, ProcessOrganization(items), K \cup {OrganizationKey(items.name)})
        /\ Yields(step, K, AzureProcessOrganization(items), K \cup {OrganizationKey(items.name)})
        /\ Yields(step, K, AzureProcessProject(items), K \cup {ProjectKey(items.project)})
    BY ScaffoldYields
  <2>3. Yields(step, K, Plan(r, step, items, entries), A)
    BY <2>1, <2>2
  <2>4. QED
    BY <2>3 DEF A, step
<1>6. CASE step = "project"
  <2>1. /\ A = K \cup {ProjectKey(items.project)}
        /\ Plan(r, step, items, entries) = AzureProcessProject(items)
    BY <1>1, <1>6 DEF Plan, AzurePlan, Asked, GitHubNames
  <2> HIDE DEF A
  <2>2. /\ Yields(step, K, ProcessOrganization(items), K \cup {OrganizationKey(items.name)})
        /\ Yields(step, K, AzureProcessOrganization(items), K \cup {OrganizationKey(items.name)})
        /\ Yields(step, K, AzureProcessProject(items), K \cup {ProjectKey(items.project)})
    BY ScaffoldYields
  <2>3. Yields(step, K, Plan(r, step, items, entries), A)
    BY <2>1, <2>2
  <2>4. QED
    BY <2>3 DEF A, step
<1>7. CASE step = "repository"
  <2>1. /\ A = K \cup {RepositoryKey(r)}
        /\ Plan(r, step, items, entries) = ProcessRepository(r, items)
    BY <1>7 DEF Plan, GitHubPlan, AzurePlan, Asked
  <2>2. IsFiniteSet(items.service) /\ \A t, u \in items.team : t = u
    BY <1>3, <1>7, ListingAssumption
  <2> HIDE DEF A
  <2>3. QED
    BY <2>1, <2>2, RepositoryYields DEF A, step
<1>8. CASE step = "branches"
  <2>1. /\ Asked(r, step, items) = {BranchKey(r, b) : b \in ToSet(Slice(items, MaxBranches))}
        /\ Plan(r, step, items, entries) = ProcessBranches(r, items)
    BY <1>1, <1>8 DEF Plan, GitHubPlan, AzurePlan, Asked, GitHubNames, AzureNames
  <2>2. IsList(items) /\ RepositoryKey(r) \in K
    BY <1>2, <1>4, <1>8 DEF Scaffold
  <2>3. Yields(step, K, ProcessBranches(r, items), K \cup Asked(r, step, items))
    <3>1. ASSUME NEW asked, asked = {BranchKey(r, b) : b \in ToSet(Slice(items, MaxBranches))}
          PROVE  Yields(step, K, ProcessBranches(r, items), K \cup asked)
      BY <2>2, <3>1, BranchesYield
    <3>2. QED
      BY <2>1, <3>1
  <2>4. QED
    BY <2>1, <2>3 DEF step
<1>9. CASE step = "languages"
  <2>1. /\ Asked(r, step, items) = {StackKey(r, "language", l) : l \in ToSet(items)}
        /\ Plan(r, step, items, entries) = StoreLanguages(r, items)
    BY <1>1, <1>9 DEF Plan, GitHubPlan, AzurePlan, Asked, GitHubNames, AzureNames, ProcessLanguages
  <2>2. IsList(items) /\ RepositoryKey(r) \in K
    BY <1>2, <1>4, <1>9 DEF Scaffold
  <2>3. Yields(step, K, StoreLanguages(r, items), K \cup {StackKey(r, "language", l) : l \in ToSet(items)})
    BY <2>2, LanguagesYield
  <2>4. QED
    BY <2>1, <2>3 DEF step
<1>10. CASE step = "detections" \/ step = "technologies"
  <2>1. /\ Asked(r, step, items) = {StackKey(r, "framework", x) : x \in ToSet(items)}
        /\ Plan(r, step, items, entries) = StoreDetections(r, items)
    BY <1>1, <1>10 DEF Plan, GitHubPlan, AzurePlan, Asked, GitHubNames, AzureNames, ProcessDetections
  <2>2. IsList(items) /\ RepositoryKey(r) \in K
    BY <1>2, <1>4, <1>10 DEF Scaffold
  <2>3. Yields(step, K, StoreDetections(r, items), K \cup {StackKey(r, "framework", x) : x \in ToSet(items)})
    BY <2>2, DetectionsYield
  <2>4. QED
    BY <2>1, <2>3 DEF step
<1>11. CASE step = "commits"
  <2>1. /\ Asked(r, step, items) = {CommitKey(c.sha) : c \in ToSet(items)}
        /\ Plan(r, step, items, entries) = ProcessCommits(r, items)
    BY <1>1, <1>11 DEF Plan, GitHubPlan, AzurePlan, Asked, GitHubNames, AzureNames
  <2>2. IsList(items) /\ RepositoryKey(r) \in K
    BY <1>2, <1>4, <1>11 DEF Scaffold
  <2>3. Yields(step, K, ProcessCommits(r, items), K \cup {CommitKey(c.sha) : c \in ToSet(items)})
    BY <2>2, CommitsYield
  <2>4. QED
    BY <2>1, <2>3 DEF step
<1>12. CASE step = "dependencies"
  <2>1. /\ Asked(r, step, items) = {DependencyKey(r, d.package) : d \in ToSet(items)}
        /\ Plan(r, step, items, entries) = ProcessDependencies(r, items)
    BY <1>1, <1>12 DEF Plan, GitHubPlan, AzurePlan, Asked, GitHubNames, AzureNames
  <2>2. IsList(items) /\ RepositoryKey(r) \in K /\ \A d \in ToSet(items) : IsFiniteSet(d.cves)
    BY <1>2, <1>3, <1>4, <1>12, ListingAssumption DEF Scaffold
  <2>3. Yields(step, K, ProcessDependencies(r, items), K \cup {DependencyKey(r, d.package) : d \in ToSet(items)})
    BY <2>2, DependenciesYield
  <2>4. QED
    BY <2>1, <2>3 DEF step
<1>13. CASE step = "readmes"
  <2>1. /\ Asked(r, step, items) = {}
        /\ Plan(r, step, items, entries) = ProcessReadmeFiles(r, items)
    BY <1>13 DEF Plan, GitHubPlan, AzurePlan, Asked
  <2>2. IsList(items) /\ RepositoryKey(r) \in K
    BY <1>2, <1>4, <1>13 DEF Scaffold
  <2>3. Yields(step, K, ProcessReadmeFiles(r, items), K)
    BY <2>2, ReadmesYield
  <2>4. K \cup {} = K
    OBVIOUS
  <2>5. QED
    BY <2>1, <2>3, <2>4 DEF step
<1>14. CASE step = "enrichment"
  <2>1. /\ Asked(r, step, items) = {}
        /\ Plan(r, step, items, entries) = ProcessEnrichment(entries)
    BY <1>14 DEF Plan, GitHubPlan, AzurePlan, Asked
  <2>2. Yields(step, K, ProcessEnrichment(entries), K)
    BY EnrichmentYields
  <2>3. K \cup {} = K
    OBVIOUS
  <2>4. QED
    BY <2>1, <2>2, <2>3 DEF step
<1>15. CASE step = "pull_requests"
  <2> DEFINE asked == {PullRequestKey(r, p.number) : p \in ToSet(Slice(items, MaxPullRequests))}
  <2>1. /\ Asked(r, step, items) = asked
        /\ Plan(r, step, items, entries) = ProcessPullRequests(r, items)
    BY <1>15 DEF Plan, GitHubPlan, AzurePlan, Asked
  <2>2. IsList(items) /\ RepositoryKey(r) \in K
    BY <1>2, <1>4, <1>15 DEF Scaffold
  <2>3. \A p \in ToSet(items) : IsList(p.reviewers) /\ IsList(p.commenters)
    BY <1>3, <1>15, ListingAssumption
  <2>4. Yields("pull_requests", K, ProcessPullRequests(r, items), K \cup asked)
    BY <2>2, <2>3, PullRequestsYield
  <2> HIDE DEF asked
  <2>5. QED
    BY <1>15, <2>1, <2>4 DEF step
<1>16. QED
  BY <1>1, <1>5, <1>6, <1>7, <1>8, <1>9, <1>10, <1>11, <1>12, <1>13, <1>14, <1>15 DEF AzureNames, GitHubNames

-----------------------------------------------------------------------------
(* The rows a session has added and not inserted yet.                      *)

CommitRows(keys) == {k \in keys : k[1] = "commits"}

\* Where commits are among them: the same commit may be added twice.
CommitsIn(pending) == {i \in DOMAIN pending : pending[i][1][1] = "commits"}

LEMMA CommitsInFinite ==
  ASSUME NEW p, IsList(p)
  PROVE  IsFiniteSet(CommitsIn(p)) /\ Cardinality(CommitsIn(p)) \in Nat /\ CommitsIn(p) \subseteq Nat
<1>1. Len(p) \in Nat /\ DOMAIN p = 1..Len(p)
  BY LenProperties DEF IsList
<1>2. IsFiniteSet(DOMAIN p)
  <2>1. 1 \in Int /\ Len(p) \in Int
    BY <1>1
  <2>2. QED
    BY <1>1, <2>1, FS_Interval
<1>3. CommitsIn(p) \in SUBSET DOMAIN p
  BY DEF CommitsIn
<1>4. IsFiniteSet(CommitsIn(p))
  BY <1>2, <1>3, FS_Subset
<1>5. QED
  BY <1>1, <1>3, <1>4, FS_CardinalityType

LEMMA Shifted ==
  ASSUME NEW S, IsFiniteSet(S), S \subseteq Int, NEW T, IsFiniteSet(T), NEW d \in Int,
         \A i \in S : i + d \in T
  PROVE  Cardinality(S) <= Cardinality(T)
<1> DEFINE f == [i \in S |-> i + d]
<1>1. f \in [S -> T] /\ \A i, j \in S : f[i] = f[j] => i = j
  OBVIOUS
<1> HIDE DEF f
<1>2. f \in Injection(S, T)
  BY <1>1 DEF Injection, IsInjective
<1>3. QED
  BY <1>2, FS_Injection

LEMMA Appended ==
  ASSUME NEW p, IsList(p), NEW e
  PROVE  /\ IsList(Append(p, e)) /\ ToSet(Append(p, e)) = ToSet(p) \cup {e}
         /\ Cardinality(CommitsIn(Append(p, e)))
               = Cardinality(CommitsIn(p)) + (IF e[1][1] = "commits" THEN 1 ELSE 0)
<1> DEFINE S == ToSet(p) \cup {e}
           q == Append(p, e)
           n == Len(p)
<1>1. p \in Seq(S) /\ e \in S
  BY SeqMonotonic DEF IsList
<1>2. /\ n \in Nat /\ DOMAIN p = 1..n /\ q \in Seq(S) /\ Len(q) = n + 1 /\ DOMAIN q = 1..(n + 1)
      /\ \A i \in 1..n : q[i] = p[i]
      /\ q[n + 1] = e
  <2> HIDE DEF S
  <2>1. QED
    BY <1>1, AppendProperties, LenProperties
<1>3. 1..(n + 1) = (1..n) \cup {n + 1}
  BY <1>2
<1> HIDE DEF q, n
<1>4. ToSet(q) = ToSet(p) \cup {e}
  BY <1>2, <1>3 DEF ToSet
<1>5. CommitsIn(q) = CommitsIn(p) \cup (IF e[1][1] = "commits" THEN {n + 1} ELSE {})
  BY <1>2, <1>3 DEF CommitsIn
<1>6. n + 1 \notin CommitsIn(p)
  BY <1>2 DEF CommitsIn
<1>7. Cardinality(CommitsIn(q)) = Cardinality(CommitsIn(p)) + (IF e[1][1] = "commits" THEN 1 ELSE 0)
  <2>1. IsFiniteSet(CommitsIn(p)) /\ Cardinality(CommitsIn(p)) \in Nat
    BY CommitsInFinite
  <2>2. CASE e[1][1] = "commits"
    BY <1>5, <1>6, <2>1, <2>2, FS_AddElement
  <2>3. CASE e[1][1] # "commits"
    BY <1>5, <2>1, <2>3
  <2>4. QED
    BY <2>2, <2>3
<1>8. QED
  BY <1>2, <1>4, <1>7, ListOf DEF q

LEMMA Joined ==
  ASSUME NEW p, NEW q, IsList(p), IsList(q)
  PROVE  /\ IsList(p \o q) /\ ToSet(p \o q) = ToSet(p) \cup ToSet(q)
         /\ Cardinality(CommitsIn(p)) <= Cardinality(CommitsIn(p \o q))
         /\ Cardinality(CommitsIn(q)) <= Cardinality(CommitsIn(p \o q))
<1> DEFINE S == ToSet(p) \cup ToSet(q)
           m == Len(p)
           n == Len(q)
           r == p \o q
<1>1. p \in Seq(S) /\ q \in Seq(S)
  BY SeqMonotonic DEF IsList
<1>2. /\ m \in Nat /\ n \in Nat /\ DOMAIN p = 1..m /\ DOMAIN q = 1..n
      /\ r \in Seq(S) /\ DOMAIN r = 1..(m + n)
      /\ \A i \in 1..(m + n) : r[i] = IF i <= m THEN p[i] ELSE q[i - m]
  <2> HIDE DEF S
  <2>1. QED
    BY <1>1, ConcatProperties, LenProperties
<1> HIDE DEF m, n, r
<1>3. /\ \A i \in 1..m : i \in 1..(m + n) /\ r[i] = p[i]
      /\ \A i \in 1..n : i + m \in 1..(m + n) /\ r[i + m] = q[i]
  <2>1. ASSUME NEW i \in 1..n PROVE i + m \in 1..(m + n) /\ ~(i + m <= m) /\ (i + m) - m = i
    BY <1>2
  <2>2. QED
    BY <1>2, <2>1
<1>4. \A i \in 1..(m + n) : i \in 1..m \/ (i - m \in 1..n /\ ~(i <= m))
  BY <1>2
<1>5. ToSet(r) = ToSet(p) \cup ToSet(q)
  <2>1. ToSet(r) \subseteq ToSet(p) \cup ToSet(q)
    BY <1>2, <1>3, <1>4 DEF ToSet
  <2>2. ASSUME NEW i \in 1..m PROVE p[i] \in ToSet(r)
    BY <1>2, <1>3 DEF ToSet
  <2>4. ASSUME NEW i \in 1..n PROVE q[i] \in ToSet(r)
    <3>1. q[i] = r[i + m] /\ i + m \in DOMAIN r
      BY <1>2, <1>3
    <3>2. QED
      BY <3>1 DEF ToSet
  <2>5. ToSet(p) \cup ToSet(q) \subseteq ToSet(r)
    BY <1>2, <2>2, <2>4 DEF ToSet
  <2>6. QED
    BY <2>1, <2>5
<1>6. IsList(r)
  BY <1>2, ListOf
<1>7. /\ IsFiniteSet(CommitsIn(p)) /\ IsFiniteSet(CommitsIn(q)) /\ IsFiniteSet(CommitsIn(r))
      /\ CommitsIn(p) \subseteq Int /\ CommitsIn(q) \subseteq Int /\ 0 \in Int /\ m \in Int
  BY <1>2, <1>6, CommitsInFinite
<1>8. \A i \in CommitsIn(p) : i + 0 \in CommitsIn(r)
  BY <1>2, <1>3 DEF CommitsIn
<1>9. \A i \in CommitsIn(q) : i + m \in CommitsIn(r)
  BY <1>2, <1>3 DEF CommitsIn
<1>10. Cardinality(CommitsIn(p)) <= Cardinality(CommitsIn(r))
  BY <1>7, <1>8, Shifted
<1>11. Cardinality(CommitsIn(q)) <= Cardinality(CommitsIn(r))
  BY <1>7, <1>9, Shifted
<1>12. QED
  BY <1>5, <1>6, <1>10, <1>11 DEF r

LEMMA Behead ==
  ASSUME NEW p, IsList(p), p # <<>>
  PROVE  /\ IsList(Tail(p)) /\ ToSet(p) = ToSet(Tail(p)) \cup {Head(p)}
         /\ Cardinality(CommitsIn(p))
               <= Cardinality(CommitsIn(Tail(p))) + (IF Head(p)[1][1] = "commits" THEN 1 ELSE 0)
<1> DEFINE n == Len(p)
           q == Tail(p)
<1>1. /\ n \in Nat \ {0} /\ DOMAIN p = 1..n /\ DOMAIN q = 1..(n - 1) /\ IsList(q)
      /\ Head(p) = p[1]
      /\ \A i \in 1..(n - 1) : q[i] = p[i + 1]
  <2>1. p \in Seq(ToSet(p))
    BY DEF IsList
  <2>2. q \in Seq(ToSet(p)) /\ Len(q) = n - 1 /\ \A i \in 1..(n - 1) : q[i] = p[i + 1]
    BY <2>1, HeadTailProperties
  <2>3. QED
    BY <2>1, <2>2, EmptySeq, LenProperties, ListTail
<1> HIDE DEF n, q
<1>2. \A i \in 1..n : i = 1 \/ (i - 1 \in 1..(n - 1) /\ (i - 1) + 1 = i)
  BY <1>1
<1>3. \A i \in 1..(n - 1) : i + 1 \in 1..n
  BY <1>1
<1>4. ToSet(p) = ToSet(q) \cup {Head(p)}
  <2>1. 1 \in 1..n
    BY <1>1
  <2>5. ASSUME NEW i \in 1..n PROVE p[i] \in ToSet(q) \cup {Head(p)}
    <3>1. CASE i = 1
      BY <1>1, <3>1
    <3>2. CASE i # 1
      <4>1. i - 1 \in DOMAIN q /\ q[i - 1] = p[i]
        BY <1>1, <1>2, <3>2
      <4>2. QED
        BY <4>1 DEF ToSet
    <3>3. QED
      BY <3>1, <3>2
  <2>2. ToSet(p) \subseteq ToSet(q) \cup {Head(p)}
    BY <1>1, <2>5 DEF ToSet
  <2>3. ToSet(q) \cup {Head(p)} \subseteq ToSet(p)
    BY <1>1, <1>3, <2>1 DEF ToSet
  <2>4. QED
    BY <2>2, <2>3
<1> DEFINE S == CommitsIn(p) \ {1}
<1>5. /\ IsFiniteSet(CommitsIn(p)) /\ IsFiniteSet(CommitsIn(q)) /\ CommitsIn(p) \subseteq Nat
      /\ Cardinality(CommitsIn(p)) \in Nat /\ Cardinality(CommitsIn(q)) \in Nat
  BY <1>1, CommitsInFinite
<1>6. /\ IsFiniteSet(S)
      /\ Cardinality(S) = IF 1 \in CommitsIn(p) THEN Cardinality(CommitsIn(p)) - 1
                                               ELSE Cardinality(CommitsIn(p))
  BY <1>5, FS_RemoveElement
<1>7. \A i \in S : i + (-1) \in CommitsIn(q)
  <2>1. ASSUME NEW i \in S PROVE i + (-1) \in CommitsIn(q)
    <3>1. i \in 1..n /\ i # 1 /\ p[i][1][1] = "commits"
      BY <1>1 DEF CommitsIn
    <3>2. i - 1 \in 1..(n - 1) /\ q[i - 1] = p[i] /\ i + (-1) = i - 1
      BY <1>1, <1>2, <3>1
    <3>3. QED
      BY <1>1, <3>1, <3>2 DEF CommitsIn
  <2>2. QED
    BY <2>1
<1>8. S \subseteq Int /\ -1 \in Int
  BY <1>5
<1> HIDE DEF S
<1>9. Cardinality(S) <= Cardinality(CommitsIn(q))
  BY <1>5, <1>6, <1>7, <1>8, Shifted
<1>10. 1 \in CommitsIn(p) => Head(p)[1][1] = "commits"
  BY <1>1 DEF CommitsIn
<1>11. QED
  BY <1>1, <1>4, <1>5, <1>6, <1>9, <1>10 DEF q

-----------------------------------------------------------------------------
(* The invariant, on values of the variables: d of db, s and x of a        *)
(* worker's session and scan, ss and xs of all of them.                    *)

Kept(d) == {k \in DOMAIN d : Lasting(k)}

\* What session s knows: what is stored, and what it will have stored when
\* it commits.
Known(d, s) == {k \in DOMAIN d \cup s.inserted \cup {row[1] : row \in ToSet(s.pending)} : Lasting(k)}

StoreFits(d) ==
  /\ d = [k \in DOMAIN d |-> d[k]]
  /\ IsFiniteSet(DOMAIN d)
  /\ \A k \in DOMAIN d : d[k].of \subseteq Kept(d)

IsSession(s) ==
  s = [plan |-> s.plan, pending |-> s.pending, flushing |-> s.flushing, rows |-> s.rows,
       inserted |-> s.inserted, deleted |-> s.deleted, count |-> s.count]

SessionFits(d, s) ==
  /\ IsSession(s)
  /\ IsList(s.pending)
  /\ s.rows = [k \in DOMAIN s.rows |-> s.rows[k]]
  /\ IsFiniteSet(DOMAIN s.rows)
  /\ s.inserted \subseteq DOMAIN s.rows
  /\ CommitRows(DOMAIN s.rows) \subseteq s.inserted
  /\ \A k \in DOMAIN s.rows : s.rows[k].of \subseteq Known(d, s)
  /\ \A row \in ToSet(s.pending) : row[2].of \subseteq Known(d, s)
  /\ \A k \in s.deleted : ~Lasting(k)
  /\ s.count \in Nat

IsScan(x) ==
  x = [at |-> x.at, repo |-> x.repo, step |-> x.step, commits |-> x.commits, entries |-> x.entries,
       lost |-> x.lost, asked |-> x.asked, soft |-> x.soft]

StepOf(x) == StepsOf(x.repo)[x.step]

\* What the open step of x has to make known.
Promise(x) == (IF x.lost = 0 THEN x.asked ELSE {})
              \cup (IF StepOf(x) = "repository" THEN {RepositoryKey(x.repo)} ELSE {})

\* An open session has calls left that keep the promise, and has counted no
\* more commits than it has added.
OpenFits(d, s, x) ==
  /\ Yields(StepOf(x), Known(d, s), s.plan, Promise(x))
  /\ StepOf(x) = "commits" =>
        s.count <= Cardinality(CommitRows(s.inserted)) + Cardinality(CommitsIn(s.pending))

ScanFits(d, s, x) ==
  /\ IsScan(x)
  /\ x.commits \in Nat /\ x.lost \in Nat /\ IsList(x.entries)
  /\ x.at \in {"idle", "fetch", "open", "finish"}
  /\ x.at # "open" => s = Closed
  /\ x.at # "idle" => x.repo \in Repos /\ x.step \in 1..Len(StepsOf(x.repo))
  /\ x.at \in {"fetch", "open"} =>
        /\ x.step > RepositoryAt(x.repo) => RepositoryKey(x.repo) \in DOMAIN d
        /\ x.step <= CommitsAt(x.repo) => x.commits = 0
  /\ x.lost = 0 /\ (x.at = "open" => StepOf(x) = "enrichment") => x.asked \subseteq Kept(d)
  /\ x.at = "open" => OpenFits(d, s, x)

\* No commit is about to be stored that is stored, or by two workers.
Apart(d, ss) ==
  \A w \in Workers :
    /\ CommitRows(ss[w].inserted) \cap DOMAIN d = {}
    /\ \A v \in Workers : v # w => CommitRows(ss[w].inserted) \cap CommitRows(ss[v].inserted) = {}

Counts(xs) == [w \in Workers |-> xs[w].commits]

Holds(d, ss, xs, e, p) ==
  /\ ss = [w \in Workers |-> ss[w]] /\ xs = [w \in Workers |-> xs[w]]
  /\ StoreFits(d)
  /\ \A w \in Workers : SessionFits(d, ss[w]) /\ ScanFits(d, ss[w], xs[w])
  /\ Apart(d, ss)
  /\ e \in Nat
  /\ e + SumFunctionOnSet(Counts(xs), Workers) <= Cardinality(CommitRows(DOMAIN d))
  /\ p \subseteq Kept(d)

ContentInvariant == Holds(db, session, scan, extracted, promised)

LEMMA ClosedFits ==
  /\ IsSession(Closed)
  /\ Closed.plan = <<>> /\ Closed.pending = <<>> /\ Closed.inserted = {} /\ Closed.deleted = {}
  /\ Closed.count = 0 /\ ToSet(Closed.pending) = {}
  /\ \A d : SessionFits(d, Closed) /\ Known(d, Closed) = Kept(d)
<1>1. /\ IsSession(Closed)
      /\ Closed.plan = <<>> /\ Closed.pending = <<>> /\ Closed.inserted = {} /\ Closed.deleted = {}
      /\ Closed.count = 0 /\ Closed.rows = <<>>
  BY DEF Closed, Session, NoRows, IsSession
<1>2. ToSet(<<>>) = {} /\ DOMAIN <<>> = {} /\ <<>> = [k \in DOMAIN <<>> |-> <<>>[k]]
  BY DEF ToSet
<1>3. \A d : Known(d, Closed) = Kept(d)
  BY <1>1, <1>2 DEF Known, Kept
<1>4. \A d : SessionFits(d, Closed)
  BY <1>1, <1>2, EmptyList, FS_EmptySet DEF SessionFits, CommitRows
<1>5. QED
  BY <1>1, <1>2, <1>3, <1>4

LEMMA IdleFits ==
  /\ IsScan(Idle) /\ Idle.commits = 0 /\ Idle.at = "idle" /\ Idle.asked = {} /\ Idle.lost = 0
  /\ \A d : ScanFits(d, Closed, Idle)
<1>1. /\ IsScan(Idle) /\ Idle.commits = 0 /\ Idle.at = "idle" /\ Idle.asked = {} /\ Idle.lost = 0
      /\ Idle.entries = <<>>
  BY DEF Idle, IsScan
<1>2. QED
  BY <1>1, EmptyList DEF ScanFits

LEMMA CountsType ==
  ASSUME NEW d, NEW ss, NEW xs, NEW e, NEW p, Holds(d, ss, xs, e, p)
  PROVE  /\ IsFiniteSet(Workers) /\ \A w \in Workers : Counts(xs)[w] \in Nat
         /\ SumFunctionOnSet(Counts(xs), Workers) \in Nat
         /\ IsFiniteSet(CommitRows(DOMAIN d)) /\ Cardinality(CommitRows(DOMAIN d)) \in Nat
<1>1. IsFiniteSet(Workers)
  BY ContentAssumption
<1>2. \A w \in Workers : Counts(xs)[w] \in Nat
  BY DEF Holds, ScanFits, Counts
<1>3. CommitRows(DOMAIN d) \in SUBSET DOMAIN d /\ IsFiniteSet(DOMAIN d)
  BY DEF Holds, StoreFits, CommitRows
<1>4. IsFiniteSet(CommitRows(DOMAIN d))
  BY <1>3, FS_Subset
<1>5. QED
  BY <1>1, <1>2, <1>4, SumType, FS_CardinalityType

\* A step of worker w that changes no row.
LEMMA Moves ==
  ASSUME NEW d, NEW ss, NEW xs, NEW e, NEW p, Holds(d, ss, xs, e, p), NEW w \in Workers,
         NEW ss2, ss2 = [v \in Workers |-> ss2[v]], NEW xs2, xs2 = [v \in Workers |-> xs2[v]],
         \A v \in Workers : v # w => ss2[v] = ss[v] /\ xs2[v] = xs[v],
         SessionFits(d, ss2[w]), ScanFits(d, ss2[w], xs2[w]),
         xs2[w].commits <= xs[w].commits,
         CommitRows(ss2[w].inserted) \cap DOMAIN d = {},
         \A v \in Workers : v # w => CommitRows(ss2[w].inserted) \cap CommitRows(ss[v].inserted) = {}
  PROVE  Holds(d, ss2, xs2, e, p)
<1>1. \A v \in Workers : SessionFits(d, ss2[v]) /\ ScanFits(d, ss2[v], xs2[v])
  BY DEF Holds
<1>2. Apart(d, ss2)
  BY DEF Holds, Apart
<1>3. /\ IsFiniteSet(Workers) /\ \A v \in Workers : Counts(xs)[v] \in Nat
      /\ SumFunctionOnSet(Counts(xs), Workers) \in Nat
      /\ Cardinality(CommitRows(DOMAIN d)) \in Nat
  BY CountsType
<1>4. \A v \in Workers : Counts(xs2)[v] \in Nat /\ Counts(xs2)[v] <= Counts(xs)[v]
  BY <1>1, <1>3 DEF Counts, ScanFits
<1>5. SumFunctionOnSet(Counts(xs2), Workers) <= SumFunctionOnSet(Counts(xs), Workers)
  BY <1>3, <1>4, SumMonotone
<1>6. SumFunctionOnSet(Counts(xs2), Workers) \in Nat
  BY <1>3, <1>4, SumType
<1>7. QED
  BY <1>1, <1>2, <1>3, <1>5, <1>6 DEF Holds

\* Rows become more.
LEMMA MoreKept ==
  ASSUME NEW d, NEW f, Kept(d) \subseteq Kept(f), NEW s
  PROVE  /\ Known(d, s) \subseteq Known(f, s)
         /\ SessionFits(d, s) => SessionFits(f, s)
         /\ \A x : ScanFits(d, s, x) => ScanFits(f, s, x)
<1>1. Known(d, s) \subseteq Known(f, s)
  BY DEF Known, Kept
<1>2. SessionFits(d, s) => SessionFits(f, s)
  BY <1>1 DEF SessionFits
<1>3. ASSUME NEW x, ScanFits(d, s, x) PROVE ScanFits(f, s, x)
  <2>1. x.at = "open" => OpenFits(f, s, x)
    <3>1. ASSUME OpenFits(d, s, x) PROVE OpenFits(f, s, x)
      <4>1. Yields(StepOf(x), Known(d, s), s.plan, Promise(x))
        BY <3>1 DEF OpenFits
      <4>2. Yields(StepOf(x), Known(d, s) \cup Known(f, s), s.plan, Promise(x) \cup Known(f, s))
        BY <4>1, Frame
      <4>3. Known(d, s) \cup Known(f, s) = Known(f, s)
        BY <1>1
      <4>4. Yields(StepOf(x), Known(f, s), s.plan, Promise(x) \cup Known(f, s))
        BY <4>2, <4>3
      <4>5. Yields(StepOf(x), Known(f, s), s.plan, Promise(x))
        BY <4>4, Consequence
      <4>6. QED
        BY <3>1, <4>5 DEF OpenFits
    <3>2. QED
      BY <1>3, <3>1 DEF ScanFits
  <2>2. Lasting(RepositoryKey(x.repo))
    BY KeysLast
  <2>3. QED
    BY <1>3, <2>1, <2>2 DEF ScanFits, Kept
<1>4. QED
  BY <1>1, <1>2, <1>3

-----------------------------------------------------------------------------
(* Calls.                                                                  *)

\* A step of worker w in its open session, with its scan as it was.
LEMMA SessionMoves ==
  ASSUME ContentInvariant, NEW w \in Workers, UNCHANGED <<db, scan, extracted, promised>>,
         session' = [v \in Workers |-> session'[v]],
         \A v \in Workers : v # w => session'[v] = session[v],
         scan[w].at = "open",
         SessionFits(db, session'[w]), OpenFits(db, session'[w], scan[w]),
         CommitRows(session'[w].inserted) \cap DOMAIN db = {},
         \A v \in Workers : v # w =>
            CommitRows(session'[w].inserted) \cap CommitRows(session[v].inserted) = {}
  PROVE  ContentInvariant'
<1>1. ScanFits(db, session'[w], scan[w])
  BY DEF ContentInvariant, Holds, ScanFits
<1>2. Holds(db, session, scan, extracted, promised)
  BY DEF ContentInvariant
<1>3. scan[w].commits <= scan[w].commits /\ scan = [v \in Workers |-> scan[v]]
  BY <1>2 DEF Holds, ScanFits
<1>4. Holds(db, session', scan, extracted, promised)
  BY <1>1, <1>2, <1>3, Moves
<1>5. QED
  BY <1>4 DEF ContentInvariant

LEMMA InsertedApart ==
  ASSUME ContentInvariant, NEW w \in Workers
  PROVE  /\ CommitRows(session[w].inserted) \cap DOMAIN db = {}
         /\ \A v \in Workers : v # w =>
               CommitRows(session[w].inserted) \cap CommitRows(session[v].inserted) = {}
BY DEF ContentInvariant, Holds, Apart

LEMMA NextCall ==
  ASSUME ContentInvariant, NEW w \in Workers, NEW name, Calls(w, name)
  PROVE  /\ scan[w].at = "open" /\ IsSession(session[w])
         /\ SessionFits(db, session[w]) /\ OpenFits(db, session[w], scan[w])
         /\ session = [v \in Workers |-> session[v]]
         /\ Head(session[w].plan).call = name
         /\ CallFits(StepOf(scan[w]), Known(db, session[w]), Head(session[w].plan))
         /\ \A x \in After(Known(db, session[w]), Head(session[w].plan), Tail(session[w].plan)) :
               Yields(StepOf(scan[w]), x[1], x[2], Promise(scan[w]))
<1>1. /\ scan[w].at = "open" /\ session[w].plan # <<>> /\ Head(session[w].plan).call = name
  BY DEF Calls
<1>2. /\ SessionFits(db, session[w]) /\ OpenFits(db, session[w], scan[w])
      /\ session = [v \in Workers |-> session[v]]
  BY <1>1 DEF ContentInvariant, Holds, ScanFits
<1>3. Yields(StepOf(scan[w]), Known(db, session[w]), session[w].plan, Promise(scan[w]))
  BY <1>2 DEF OpenFits
<1>4. QED
  BY <1>1, <1>2, <1>3, Making DEF SessionFits

\* Only the plan changes, or only what is of no consequence for it.
LEMMA SameRows ==
  ASSUME NEW d, NEW s, NEW t, SessionFits(d, s), IsSession(t),
         t.pending = s.pending, t.rows = s.rows, t.inserted = s.inserted,
         t.deleted = s.deleted, t.count = s.count
  PROVE  SessionFits(d, t) /\ Known(d, t) = Known(d, s)
<1>1. Known(d, t) = Known(d, s)
  BY DEF Known
<1>2. QED
  BY <1>1 DEF SessionFits

\* A row is set.
LEMMA WithFits ==
  ASSUME NEW d, NEW s, NEW t, SessionFits(d, s), IsSession(t), NEW k, NEW v,
         v.of \subseteq Known(d, s), k[1] # "commits" \/ k \in s.inserted,
         t.pending = s.pending, t.rows = With(s.rows, k, v), t.inserted = s.inserted,
         t.deleted = s.deleted, t.count = s.count
  PROVE  SessionFits(d, t) /\ Known(d, t) = Known(d, s)
<1>1. Known(d, t) = Known(d, s)
  BY DEF Known
<1>2. /\ DOMAIN t.rows = DOMAIN s.rows \cup {k} /\ t.rows = [y \in DOMAIN t.rows |-> t.rows[y]]
      /\ \A y \in DOMAIN t.rows : t.rows[y] = IF y = k THEN v ELSE s.rows[y]
  BY DEF With
<1>3. IsFiniteSet(DOMAIN t.rows)
  BY <1>2, FS_AddElement DEF SessionFits
<1>4. \A y \in DOMAIN t.rows : t.rows[y].of \subseteq Known(d, t)
  BY <1>1, <1>2 DEF SessionFits
<1>5. CommitRows(DOMAIN t.rows) \subseteq t.inserted /\ t.inserted \subseteq DOMAIN t.rows
  BY <1>2 DEF SessionFits, CommitRows
<1>6. QED
  BY <1>1, <1>2, <1>3, <1>4, <1>5 DEF SessionFits

LEMMA InsertedFinite ==
  ASSUME NEW d, NEW s, SessionFits(d, s)
  PROVE  /\ IsFiniteSet(CommitRows(s.inserted)) /\ Cardinality(CommitRows(s.inserted)) \in Nat
<1>1. CommitRows(s.inserted) \in SUBSET DOMAIN s.rows /\ IsFiniteSet(DOMAIN s.rows)
  BY DEF SessionFits, CommitRows
<1>2. IsFiniteSet(CommitRows(s.inserted))
  BY <1>1, FS_Subset
<1>3. QED
  BY <1>2, FS_CardinalityType

LEMMA QueuedRows ==
  ASSUME NEW p, IsList(p), NEW e, NEW q, q = Queued(p, e)
  PROVE  /\ IsList(q) /\ ToSet(q) = ToSet(p) \cup {e}
         /\ Cardinality(CommitsIn(q)) \in Nat /\ Cardinality(CommitsIn(p)) \in Nat
         /\ Cardinality(CommitsIn(q)) >= Cardinality(CommitsIn(p)) + (IF e[1][1] = "commits" THEN 1 ELSE 0)
<1>1. CASE e[1][1] \in {"contributors", "packages"}
  <2>1. q = <<e>> \o p
    BY <1>1 DEF Queued
  <2>2. IsList(<<e>>) /\ ToSet(<<e>>) = {e}
    BY OneList DEF ToSet
  <2>3. IsList(q) /\ ToSet(q) = {e} \cup ToSet(p) /\ Cardinality(CommitsIn(p)) <= Cardinality(CommitsIn(q))
    BY <2>1, <2>2, Joined
  <2>4. Cardinality(CommitsIn(q)) \in Nat /\ Cardinality(CommitsIn(p)) \in Nat
    BY <2>3, CommitsInFinite
  <2>5. QED
    BY <1>1, <2>3, <2>4
<1>2. CASE e[1][1] \notin {"contributors", "packages"}
  <2>1. q = Append(p, e)
    BY <1>2 DEF Queued
  <2>2. /\ IsList(q) /\ ToSet(q) = ToSet(p) \cup {e}
        /\ Cardinality(CommitsIn(q)) = Cardinality(CommitsIn(p)) + (IF e[1][1] = "commits" THEN 1 ELSE 0)
    BY <2>1, Appended
  <2>3. Cardinality(CommitsIn(q)) \in Nat /\ Cardinality(CommitsIn(p)) \in Nat
    BY <2>2, CommitsInFinite
  <2>4. QED
    BY <2>2, <2>3
<1>3. QED
  BY <1>1, <1>2

LEMMA LookupStep ==
  ASSUME ContentInvariant, NEW w \in Workers, Lookup(w)
  PROVE  ContentInvariant'
<1> DEFINE s == session[w]
           c == Head(s.plan)
           K == Known(db, s)
           t == session'[w]
           x == scan[w]
<1>1. /\ x.at = "open" /\ IsSession(s) /\ SessionFits(db, s) /\ OpenFits(db, s, x)
      /\ session = [v \in Workers |-> session[v]] /\ c.call = "lookup" /\ CallFits(StepOf(x), K, c)
      /\ \A y \in After(K, c, Tail(s.plan)) : Yields(StepOf(x), y[1], y[2], Promise(x))
  BY NextCall DEF Lookup
<1>2. /\ session' = [v \in Workers |-> session'[v]]
      /\ \A v \in Workers : v # w => session'[v] = session[v]
      /\ IsSession(t) /\ t.plan = (IF Sees(w, c.key) THEN c.found ELSE c.missing) \o Tail(s.plan)
      /\ t.pending = s.pending /\ t.rows = s.rows /\ t.inserted = s.inserted
      /\ t.deleted = s.deleted /\ t.count = s.count
      /\ UNCHANGED <<db, scan, extracted, promised>>
  BY <1>1 DEF Lookup, IsSession
<1>3. SessionFits(db, t) /\ Known(db, t) = K
  <2>1. SessionFits(db, s) /\ IsSession(t)
    BY <1>1, <1>2
  <2>2. /\ t.pending = s.pending /\ t.rows = s.rows /\ t.inserted = s.inserted
        /\ t.deleted = s.deleted /\ t.count = s.count
    BY <1>2
  <2> HIDE DEF s, t
  <2>3. SessionFits(db, t) /\ Known(db, t) = Known(db, s)
    BY <2>1, <2>2, SameRows
  <2>4. QED
    BY <2>3 DEF K
<1>4. Yields(StepOf(x), K, t.plan, Promise(x))
  <2>1. <<K \cup {c.key}, c.found \o Tail(s.plan)>> \in After(K, c, Tail(s.plan))
        /\ <<K, c.missing \o Tail(s.plan)>> \in After(K, c, Tail(s.plan))
    BY <1>1 DEF After
  <2>2. /\ Yields(StepOf(x), K \cup {c.key}, c.found \o Tail(s.plan), Promise(x))
        /\ Yields(StepOf(x), K, c.missing \o Tail(s.plan), Promise(x))
    <3>1. \A a, b : <<a, b>> \in After(K, c, Tail(s.plan)) => Yields(StepOf(x), a, b, Promise(x))
      <4>1. \A a, b : <<a, b>>[1] = a /\ <<a, b>>[2] = b
        OBVIOUS
      <4> HIDE DEF s, c, K, x
      <4>2. QED
        BY <1>1, <4>1
    <3> HIDE DEF s, c, K, x
    <3>2. QED
      BY <2>1, <3>1
  <2>3. CASE Sees(w, c.key)
    <3>1. c.key \in K
      BY <1>1, <2>3 DEF Sees, Known, CallFits, Proper
    <3>2. K \cup {c.key} = K
      BY <3>1
    <3> HIDE DEF s, c, K, x, t
    <3>3. QED
      BY <1>2, <2>2, <2>3, <3>2
  <2>4. CASE ~Sees(w, c.key)
    <3> HIDE DEF s, c, K, x, t
    <3>1. QED
      BY <1>2, <2>2, <2>4
  <2>5. QED
    BY <2>3, <2>4
<1>5. OpenFits(db, t, x)
  <2> HIDE DEF s, t, K, x
  <2>1. QED
    BY <1>1, <1>2, <1>3, <1>4 DEF OpenFits
<1>6. QED
  BY <1>1, <1>2, <1>3, <1>5, InsertedApart, SessionMoves

LEMMA SetRowStep ==
  ASSUME ContentInvariant, NEW w \in Workers, SetRow(w)
  PROVE  ContentInvariant'
<1> DEFINE s == session[w]
           c == Head(s.plan)
           K == Known(db, s)
           t == session'[w]
           x == scan[w]
<1>1. /\ x.at = "open" /\ IsSession(s) /\ SessionFits(db, s) /\ OpenFits(db, s, x)
      /\ session = [v \in Workers |-> session[v]] /\ c.call = "set" /\ CallFits(StepOf(x), K, c)
      /\ \A y \in After(K, c, Tail(s.plan)) : Yields(StepOf(x), y[1], y[2], Promise(x))
  BY NextCall DEF SetRow
<1>2. /\ session' = [v \in Workers |-> session'[v]]
      /\ \A v \in Workers : v # w => session'[v] = session[v]
      /\ IsSession(t) /\ t.plan = Tail(s.plan) /\ t.rows = With(s.rows, c.key, c.value)
      /\ t.pending = s.pending /\ t.inserted = s.inserted
      /\ t.deleted = s.deleted /\ t.count = s.count
      /\ UNCHANGED <<db, scan, extracted, promised>>
  BY <1>1 DEF SetRow, IsSession
<1>3. c.key[1] # "commits" /\ c.value.of \subseteq K
  BY <1>1 DEF CallFits
<1>4. SessionFits(db, t) /\ Known(db, t) = K
  <2> HIDE DEF s, t, c, x
  <2>1. QED
    BY <1>1, <1>2, <1>3, WithFits DEF K
<1>5. Yields(StepOf(x), K, Tail(s.plan), Promise(x))
  <2>1. <<K, Tail(s.plan)>> \in After(K, c, Tail(s.plan))
    BY <1>1 DEF After
  <2>2. <<K, Tail(s.plan)>>[1] = K /\ <<K, Tail(s.plan)>>[2] = Tail(s.plan)
    OBVIOUS
  <2> HIDE DEF s, c, K, x
  <2>3. QED
    BY <1>1, <2>1, <2>2
<1>6. OpenFits(db, t, x)
  <2> HIDE DEF s, t, K, x
  <2>1. QED
    BY <1>1, <1>2, <1>4, <1>5 DEF OpenFits
<1>7. QED
  BY <1>1, <1>2, <1>4, <1>6, InsertedApart, SessionMoves

LEMMA AddRowStep ==
  ASSUME ContentInvariant, NEW w \in Workers, AddRow(w)
  PROVE  ContentInvariant'
<1> DEFINE s == session[w]
           c == Head(s.plan)
           K == Known(db, s)
           t == session'[w]
           x == scan[w]
           e == <<c.key, c.value>>
<1>1. /\ x.at = "open" /\ IsSession(s) /\ SessionFits(db, s) /\ OpenFits(db, s, x)
      /\ session = [v \in Workers |-> session[v]] /\ c.call = "add" /\ CallFits(StepOf(x), K, c)
      /\ \A y \in After(K, c, Tail(s.plan)) : Yields(StepOf(x), y[1], y[2], Promise(x))
  BY NextCall DEF AddRow
<1>2. /\ session' = [v \in Workers |-> session'[v]]
      /\ \A v \in Workers : v # w => session'[v] = session[v]
      /\ IsSession(t) /\ t.plan = Tail(s.plan) /\ t.rows = s.rows
      /\ t.pending = Queued(s.pending, e) /\ t.inserted = s.inserted
      /\ t.deleted = s.deleted /\ t.count = IF c.counted THEN s.count + 1 ELSE s.count
      /\ UNCHANGED <<db, scan, extracted, promised>>
  BY <1>1 DEF AddRow, IsSession
<1>3. /\ Lasting(c.key) /\ c.value.of \subseteq K
      /\ c.counted /\ StepOf(x) = "commits" => c.key[1] = "commits"
      /\ e[1] = c.key /\ e[2] = c.value
  BY <1>1 DEF CallFits, Proper
<1>4. /\ IsList(t.pending) /\ ToSet(t.pending) = ToSet(s.pending) \cup {e}
      /\ Cardinality(CommitsIn(t.pending)) \in Nat /\ Cardinality(CommitsIn(s.pending)) \in Nat
      /\ Cardinality(CommitsIn(t.pending))
            >= Cardinality(CommitsIn(s.pending)) + (IF c.key[1] = "commits" THEN 1 ELSE 0)
  <2>1. IsList(s.pending)
    BY <1>1 DEF SessionFits
  <2> HIDE DEF s, t, c, e
  <2>2. QED
    BY <1>2, <1>3, <2>1, QueuedRows
<1>5. Known(db, t) = K \cup {c.key}
  <2>1. {row[1] : row \in ToSet(t.pending)} = {row[1] : row \in ToSet(s.pending)} \cup {c.key}
    <3> HIDE DEF s, t, c, e
    <3>1. QED
      BY <1>3, <1>4
  <2>2. QED
    BY <1>2, <1>3, <2>1 DEF Known
<1>6. SessionFits(db, t)
  <2> HIDE DEF s, t, c, e
  <2>1. \A row \in ToSet(t.pending) : row[2].of \subseteq Known(db, t)
    BY <1>1, <1>3, <1>4, <1>5 DEF SessionFits
  <2>2. \A k \in DOMAIN t.rows : t.rows[k].of \subseteq Known(db, t)
    BY <1>1, <1>2, <1>5 DEF SessionFits
  <2>3. QED
    BY <1>1, <1>2, <1>4, <2>1, <2>2 DEF SessionFits
<1>7. Yields(StepOf(x), Known(db, t), Tail(s.plan), Promise(x))
  <2>1. <<K \cup {c.key}, Tail(s.plan)>> \in After(K, c, Tail(s.plan))
    BY <1>1 DEF After
  <2>2. \A a, b : <<a, b>>[1] = a /\ <<a, b>>[2] = b
    OBVIOUS
  <2> HIDE DEF s, c, K, x, t
  <2>3. QED
    BY <1>1, <1>5, <2>1, <2>2
<1>8. OpenFits(db, t, x)
  <2>1. StepOf(x) = "commits" =>
          t.count <= Cardinality(CommitRows(t.inserted)) + Cardinality(CommitsIn(t.pending))
    <3>1. ASSUME StepOf(x) = "commits"
          PROVE  t.count <= Cardinality(CommitRows(t.inserted)) + Cardinality(CommitsIn(t.pending))
      <4>1. s.count <= Cardinality(CommitRows(s.inserted)) + Cardinality(CommitsIn(s.pending))
        BY <1>1, <3>1 DEF OpenFits
      <4>2. Cardinality(CommitRows(s.inserted)) \in Nat /\ s.count \in Nat
        BY <1>1, InsertedFinite DEF SessionFits
      <4>3. t.inserted = s.inserted
        BY <1>2
      <4> HIDE DEF s, t, c, x
      <4>4. QED
        BY <1>2, <1>3, <1>4, <3>1, <4>1, <4>2, <4>3
    <3>2. QED
      BY <3>1
  <2> HIDE DEF s, t, x
  <2>2. QED
    BY <1>2, <1>7, <2>1 DEF OpenFits
<1>9. QED
  BY <1>1, <1>2, <1>6, <1>8, InsertedApart, SessionMoves

LEMMA ReplaceStep ==
  ASSUME ContentInvariant, NEW w \in Workers, ReplaceVulnerabilities(w)
  PROVE  ContentInvariant'
<1> DEFINE s == session[w]
           c == Head(s.plan)
           K == Known(db, s)
           t == session'[w]
           x == scan[w]
           n == Cardinality(c.cves)
           fresh == [v \in 1..n |-> <<VulnerabilityKey(c.package, SetToSeq(c.cves)[v], w),
                                      Of({PackageKey(c.package)})>>]
<1>1. /\ x.at = "open" /\ IsSession(s) /\ SessionFits(db, s) /\ OpenFits(db, s, x)
      /\ session = [v \in Workers |-> session[v]] /\ c.call = "replace" /\ CallFits(StepOf(x), K, c)
      /\ \A y \in After(K, c, Tail(s.plan)) : Yields(StepOf(x), y[1], y[2], Promise(x))
  BY NextCall DEF ReplaceVulnerabilities
<1>2. /\ session' = [v \in Workers |-> session'[v]]
      /\ \A v \in Workers : v # w => session'[v] = session[v]
      /\ IsSession(t) /\ t.plan = Tail(s.plan) /\ t.rows = s.rows
      /\ t.pending = s.pending \o fresh /\ t.inserted = s.inserted
      /\ t.deleted = s.deleted \cup VulnerabilityRows(c.package) /\ t.count = s.count
      /\ UNCHANGED <<db, scan, extracted, promised>>
  BY <1>1 DEF ReplaceVulnerabilities, IsSession
<1>3. PackageKey(c.package) \in K /\ n \in Nat
  BY <1>1, FS_CardinalityType DEF CallFits
<1>4. \A v \in 1..n : ~Lasting(fresh[v][1]) /\ fresh[v][2].of = {PackageKey(c.package)}
  BY DEF VulnerabilityKey, Lasting, Of
<1>5. IsList(fresh) /\ DOMAIN fresh = 1..n
  <2>1. fresh = [i \in 1..n |-> fresh[i]]
    OBVIOUS
  <2> HIDE DEF fresh, n
  <2>2. QED
    BY <1>3, <2>1, ListFunction
<1>6. \A row \in ToSet(fresh) : ~Lasting(row[1]) /\ row[2].of \subseteq K
  <2> HIDE DEF fresh, n, K, c
  <2>1. QED
    BY <1>3, <1>4, <1>5 DEF ToSet
<1>7. /\ IsList(t.pending) /\ ToSet(t.pending) = ToSet(s.pending) \cup ToSet(fresh)
      /\ Cardinality(CommitsIn(t.pending)) \in Nat /\ Cardinality(CommitsIn(s.pending)) \in Nat
      /\ Cardinality(CommitsIn(s.pending)) <= Cardinality(CommitsIn(t.pending))
  <2>1. IsList(s.pending)
    BY <1>1 DEF SessionFits
  <2> HIDE DEF s, t, c, fresh
  <2>2. QED
    BY <1>2, <1>5, <2>1, Joined, CommitsInFinite
<1>8. Known(db, t) = K
  <2> HIDE DEF fresh, n, c
  <2>1. \A k : Lasting(k) => (k \in {row[1] : row \in ToSet(t.pending)}
                                 <=> k \in {row[1] : row \in ToSet(s.pending)})
    BY <1>6, <1>7
  <2>2. t.inserted = s.inserted
    BY <1>2
  <2>3. QED
    BY <2>1, <2>2 DEF Known
<1>9. SessionFits(db, t)
  <2>1. \A k \in VulnerabilityRows(c.package) : ~Lasting(k)
    BY DEF VulnerabilityRows, RowsOf, Lasting
  <2>2. \A k \in t.deleted : ~Lasting(k)
    <3> HIDE DEF t, c, fresh, n
    <3>1. QED
      BY <1>1, <1>2, <2>1 DEF SessionFits
  <2> HIDE DEF t, c, fresh, n
  <2>3. \A row \in ToSet(t.pending) : row[2].of \subseteq Known(db, t)
    BY <1>1, <1>6, <1>7, <1>8 DEF SessionFits
  <2>4. \A k \in DOMAIN t.rows : t.rows[k].of \subseteq Known(db, t)
    BY <1>1, <1>2, <1>8 DEF SessionFits
  <2> HIDE DEF s, K
  <2>5. QED
    BY <1>1, <1>2, <1>7, <2>2, <2>3, <2>4 DEF SessionFits
<1>10. Yields(StepOf(x), K, Tail(s.plan), Promise(x))
  <2>1. <<K, Tail(s.plan)>> \in After(K, c, Tail(s.plan))
    BY <1>1 DEF After
  <2>2. <<K, Tail(s.plan)>>[1] = K /\ <<K, Tail(s.plan)>>[2] = Tail(s.plan)
    OBVIOUS
  <2> HIDE DEF s, c, K, x
  <2>3. QED
    BY <1>1, <2>1, <2>2
<1>11. OpenFits(db, t, x)
  <2>1. ASSUME StepOf(x) = "commits"
        PROVE  t.count <= Cardinality(CommitRows(t.inserted)) + Cardinality(CommitsIn(t.pending))
    <3>1. s.count <= Cardinality(CommitRows(s.inserted)) + Cardinality(CommitsIn(s.pending))
      BY <1>1, <2>1 DEF OpenFits
    <3>2. Cardinality(CommitRows(s.inserted)) \in Nat /\ s.count \in Nat
      BY <1>1, InsertedFinite DEF SessionFits
    <3> HIDE DEF s, t, c, x, fresh, n
    <3>3. QED
      BY <1>2, <1>7, <3>1, <3>2
  <2> HIDE DEF s, t, x, K, fresh, n
  <2>2. QED
    BY <1>2, <1>8, <1>10, <2>1 DEF OpenFits
<1>12. QED
  BY <1>1, <1>2, <1>9, <1>11, InsertedApart, SessionMoves

LEMMA YieldsMore ==
  ASSUME NEW step, NEW K, NEW plan, NEW G, Yields(step, K, plan, G), NEW D
  PROVE  Yields(step, K \cup D, plan, G)
<1>1. Yields(step, K \cup D, plan, G \cup D)
  BY Frame
<1>2. QED
  BY <1>1, Consequence

\* A row is added behind the others.
LEMMA AppendFits ==
  ASSUME NEW d, NEW s, NEW t, SessionFits(d, s), IsSession(t), NEW k, NEW v,
         Lasting(k), v.of \subseteq Known(d, s),
         t.pending = Append(s.pending, <<k, v>>), t.rows = s.rows, t.inserted = s.inserted,
         t.deleted = s.deleted, t.count = s.count
  PROVE  SessionFits(d, t) /\ Known(d, t) = Known(d, s) \cup {k}
<1> DEFINE e == <<k, v>>
<1>1. IsList(t.pending) /\ ToSet(t.pending) = ToSet(s.pending) \cup {e}
  <2>1. IsList(s.pending)
    BY DEF SessionFits
  <2> HIDE DEF e
  <2>2. t.pending = Append(s.pending, e)
    BY DEF e
  <2>3. QED
    BY <2>1, <2>2, Appended
<1>2. e[1] = k /\ e[2] = v
  OBVIOUS
<1> HIDE DEF e
<1>3. Known(d, t) = Known(d, s) \cup {k}
  <2>1. {row[1] : row \in ToSet(t.pending)} = {row[1] : row \in ToSet(s.pending)} \cup {k}
    BY <1>1, <1>2
  <2>2. QED
    BY <2>1 DEF Known
<1>4. \A row \in ToSet(t.pending) : row[2].of \subseteq Known(d, t)
  BY <1>1, <1>2, <1>3 DEF SessionFits
<1>5. \A y \in DOMAIN t.rows : t.rows[y].of \subseteq Known(d, t)
  BY <1>3 DEF SessionFits
<1>6. QED
  BY <1>1, <1>3, <1>4, <1>5 DEF SessionFits

LEMMA LinkReadmeStep ==
  ASSUME ContentInvariant, NEW w \in Workers, LinkReadme(w)
  PROVE  ContentInvariant'
<1> DEFINE s == session[w]
           c == Head(s.plan)
           K == Known(db, s)
           t == session'[w]
           x == scan[w]
           rows(path) == {k \in DOMAIN db \cup s.inserted :
                            k[1] = "readme_files" /\ k[2] = c.repo /\ k[3][1] = path}
           above == IF rows(c.readme.parent) = {} THEN {}
                    ELSE {CHOOSE k \in rows(c.readme.parent) : TRUE}
           row == Of({RepositoryKey(c.repo)} \cup above)
           old == rows(c.readme.path)
           stored == CHOOSE k \in old : TRUE
           new == ReadmeKey(c.repo, <<c.readme.path, w>>)
<1>1. /\ x.at = "open" /\ IsSession(s) /\ SessionFits(db, s) /\ OpenFits(db, s, x)
      /\ session = [v \in Workers |-> session[v]] /\ c.call = "link" /\ CallFits(StepOf(x), K, c)
      /\ \A y \in After(K, c, Tail(s.plan)) : Yields(StepOf(x), y[1], y[2], Promise(x))
  BY NextCall DEF LinkReadme
<1>2. /\ session' = [v \in Workers |-> session'[v]]
      /\ \A v \in Workers : v # w => session'[v] = session[v]
      /\ IsSession(t) /\ t.plan = Tail(s.plan)
      /\ t.rows = (IF old = {} THEN s.rows ELSE With(s.rows, stored, row))
      /\ t.pending = (IF old # {} THEN s.pending ELSE Append(s.pending, <<new, row>>))
      /\ t.inserted = s.inserted /\ t.deleted = s.deleted /\ t.count = s.count
      /\ UNCHANGED <<db, scan, extracted, promised>>
  BY <1>1 DEF LinkReadme, IsSession
<1>3. RepositoryKey(c.repo) \in K
  BY <1>1 DEF CallFits
<1>4. \A path : \A k \in rows(path) : k \in K /\ k[1] # "commits"
  BY DEF Known, Lasting
<1>5. row.of \subseteq K
  <2>1. above \subseteq K
    <3>1. above \subseteq rows(c.readme.parent)
      OBVIOUS
    <3> HIDE DEF above, rows, K
    <3>2. QED
      BY <1>4, <3>1
  <2>2. row.of = {RepositoryKey(c.repo)} \cup above
    BY DEF Of
  <2> HIDE DEF above, K, row, c
  <2>3. QED
    BY <1>3, <2>1, <2>2
<1>6. Lasting(new) /\ new[1] # "commits"
  BY DEF ReadmeKey, Lasting
<1>7. old # {} => stored[1] # "commits"
  <2>1. old # {} => stored \in old
    OBVIOUS
  <2>2. \A k \in old : k[1] # "commits"
    BY <1>4
  <2> HIDE DEF old, stored
  <2>3. QED
    BY <2>1, <2>2
<1> HIDE DEF rows, above, row, old, stored, new
<1>8. Yields(StepOf(x), K, Tail(s.plan), Promise(x))
  <2>1. <<K, Tail(s.plan)>> \in After(K, c, Tail(s.plan))
    BY <1>1 DEF After
  <2>2. <<K, Tail(s.plan)>>[1] = K /\ <<K, Tail(s.plan)>>[2] = Tail(s.plan)
    OBVIOUS
  <2> HIDE DEF s, c, K, x
  <2>3. QED
    BY <1>1, <2>1, <2>2
<1>9. IsList(s.pending)
  BY <1>1 DEF SessionFits
<1>10. /\ SessionFits(db, t) /\ Yields(StepOf(x), Known(db, t), Tail(s.plan), Promise(x))
       /\ Cardinality(CommitsIn(t.pending)) = Cardinality(CommitsIn(s.pending))
  <2>1. CASE old # {}
    <3>1. t.rows = With(s.rows, stored, row) /\ t.pending = s.pending
      BY <1>2, <2>1
    <3>2. SessionFits(db, t) /\ Known(db, t) = K
      <4> HIDE DEF s, t, c, x
      <4>1. QED
        BY <1>1, <1>2, <1>5, <1>7, <2>1, <3>1, WithFits DEF K
    <3> HIDE DEF s, t, x, K
    <3>3. QED
      BY <1>8, <3>1, <3>2
  <2>2. CASE old = {}
    <3> DEFINE e == <<new, row>>
    <3>1. t.rows = s.rows /\ t.pending = Append(s.pending, <<new, row>>)
      BY <1>2, <2>2
    <3>2. SessionFits(db, t) /\ Known(db, t) = K \cup {new}
      <4> HIDE DEF s, t, c, x
      <4>1. QED
        BY <1>1, <1>2, <1>5, <1>6, <3>1, AppendFits DEF K
    <3>3. Yields(StepOf(x), K \cup {new}, Tail(s.plan), Promise(x))
      <4> HIDE DEF s, x, K
      <4>1. QED
        BY <1>8, YieldsMore
    <3>4. t.pending = Append(s.pending, e) /\ e[1] = new
      BY <3>1
    <3> HIDE DEF s, t, x, K, e, c
    <3>5. Cardinality(CommitsIn(s.pending)) \in Nat
      BY <1>9, CommitsInFinite
    <3>6. Cardinality(CommitsIn(t.pending)) = Cardinality(CommitsIn(s.pending))
      BY <1>6, <1>9, <3>4, <3>5, Appended
    <3>7. QED
      BY <3>2, <3>3, <3>6
  <2>3. QED
    BY <2>1, <2>2
<1>11. OpenFits(db, t, x)
  <2> HIDE DEF s, t, x, K, c
  <2>1. QED
    BY <1>1, <1>2, <1>10 DEF OpenFits
<1>12. QED
  BY <1>1, <1>2, <1>10, <1>11, InsertedApart, SessionMoves

-----------------------------------------------------------------------------
(* Flush.                                                                  *)

\* A commit is inserted that nobody else has inserted: a unique key that is
\* seen conflicts, and one that is not waits.
LEMMA InsertRowStep ==
  ASSUME ContentInvariant, NEW w \in Workers, InsertRow(w)
  PROVE  ContentInvariant'
<1> DEFINE s == session[w]
           K == Known(db, s)
           t == session'[w]
           x == scan[w]
           row == Head(s.pending)
           k == row[1]
<1>1. /\ session = [v \in Workers |-> session[v]] /\ SessionFits(db, s) /\ IsSession(s)
      /\ \A v \in Workers : ScanFits(db, session[v], scan[v])
  BY DEF ContentInvariant, Holds, SessionFits
<1>2. PICK j : /\ Inserts(w, j) /\ (j[1] \in Unconstrained \/ ~Sees(w, j))
               /\ session' = [session EXCEPT
                               ![w].rows = With(@, j, Head(session[w].pending)[2]),
                               ![w].inserted = @ \cup {j},
                               ![w].pending = Tail(@),
                               ![w].flushing = @ /\ Len(session[w].pending) > 1]
  BY DEF InsertRow
<1>3. j = k /\ x.at = "open" /\ s.pending # <<>>
  BY <1>2 DEF Inserts
<1>4. /\ session' = [v \in Workers |-> session'[v]]
      /\ \A v \in Workers : v # w => session'[v] = session[v]
      /\ IsSession(t) /\ t.plan = s.plan /\ t.rows = With(s.rows, k, row[2])
      /\ t.pending = Tail(s.pending) /\ t.inserted = s.inserted \cup {k}
      /\ t.deleted = s.deleted /\ t.count = s.count
      /\ UNCHANGED <<db, scan, extracted, promised>>
  <2>1. /\ session' = [v \in Workers |-> session'[v]]
        /\ \A v \in Workers : v # w => session'[v] = session[v]
    BY <1>1, <1>2
  <2>2. t = [s EXCEPT !.rows = With(s.rows, j, row[2]), !.inserted = s.inserted \cup {j},
                      !.pending = Tail(s.pending),
                      !.flushing = s.flushing /\ Len(s.pending) > 1]
    BY <1>1, <1>2
  <2>3. IsSession(s) /\ j = k
    BY <1>1, <1>3
  <2>4. UNCHANGED <<db, scan, extracted, promised>>
    BY DEF InsertRow
  <2> HIDE DEF s, t, row, k
  <2>5. t = [plan |-> s.plan, pending |-> Tail(s.pending),
             flushing |-> s.flushing /\ Len(s.pending) > 1, rows |-> With(s.rows, k, row[2]),
             inserted |-> s.inserted \cup {k}, deleted |-> s.deleted, count |-> s.count]
    BY <2>2, <2>3 DEF IsSession
  <2>6. IsSession(t)
    BY <2>5 DEF IsSession
  <2>7. QED
    BY <2>1, <2>4, <2>5, <2>6
<1>5. k[1] = "commits" => /\ k \notin DOMAIN db /\ k \notin s.inserted
                          /\ \A v \in Workers : v # w => k \notin session[v].inserted
  <2>1. k[1] = "commits" => k[1] \notin Unconstrained
    BY DEF Unconstrained
  <2>2. k[1] = "commits" => k \notin DOMAIN db /\ k \notin s.inserted
    BY <1>2, <1>3, <2>1 DEF Sees
  <2>3. ASSUME NEW v \in Workers, v # w, k[1] = "commits" PROVE k \notin session[v].inserted
    <3>1. ~WaitsFor(w, v)
      BY DEF InsertRow
    <3> HIDE DEF k
    <3>2. QED
      BY <1>2, <1>3, <2>1, <2>3, <3>1 DEF WaitsFor
  <2>4. QED
    BY <2>2, <2>3
<1>6. /\ IsList(t.pending) /\ ToSet(s.pending) = ToSet(t.pending) \cup {row}
      /\ Cardinality(CommitsIn(s.pending))
            <= Cardinality(CommitsIn(t.pending)) + (IF k[1] = "commits" THEN 1 ELSE 0)
      /\ Cardinality(CommitsIn(s.pending)) \in Nat /\ Cardinality(CommitsIn(t.pending)) \in Nat
  <2>1. IsList(s.pending)
    BY <1>1 DEF SessionFits
  <2> HIDE DEF s, t
  <2>2. IsList(t.pending) /\ ToSet(s.pending) = ToSet(t.pending) \cup {row}
    BY <1>3, <1>4, <2>1, Behead
  <2>3. Cardinality(CommitsIn(s.pending))
            <= Cardinality(CommitsIn(t.pending)) + (IF k[1] = "commits" THEN 1 ELSE 0)
    BY <1>3, <1>4, <2>1, Behead
  <2>4. QED
    BY <2>1, <2>2, <2>3, CommitsInFinite
<1>7. Known(db, t) = K
  <2>1. {r[1] : r \in ToSet(s.pending)} = {r[1] : r \in ToSet(t.pending)} \cup {k}
    <3> HIDE DEF s, t, row
    <3>1. QED
      BY <1>6
  <2>2. t.inserted = s.inserted \cup {k}
    BY <1>4
  <2> HIDE DEF k
  <2>3. QED
    BY <2>1, <2>2 DEF Known
<1>8. SessionFits(db, t)
  <2> HIDE DEF s, t, row, K
  <2>1. /\ DOMAIN t.rows = DOMAIN s.rows \cup {k} /\ t.rows = [y \in DOMAIN t.rows |-> t.rows[y]]
        /\ \A y \in DOMAIN t.rows : t.rows[y] = IF y = k THEN row[2] ELSE s.rows[y]
    BY <1>4 DEF With
  <2>2. IsFiniteSet(DOMAIN t.rows)
    BY <1>1, <2>1, FS_AddElement DEF SessionFits
  <2>3. row[2].of \subseteq K /\ \A r \in ToSet(t.pending) : r[2].of \subseteq K
    BY <1>1, <1>6 DEF SessionFits, K
  <2>4. \A y \in DOMAIN t.rows : t.rows[y].of \subseteq K
    BY <1>1, <2>1, <2>3 DEF SessionFits, K
  <2>5. CommitRows(DOMAIN t.rows) \subseteq t.inserted /\ t.inserted \subseteq DOMAIN t.rows
    BY <1>1, <1>4, <2>1 DEF SessionFits, CommitRows
  <2>6. QED
    BY <1>1, <1>4, <1>6, <1>7, <2>1, <2>2, <2>3, <2>4, <2>5 DEF SessionFits
<1>9. OpenFits(db, s, x)
  BY <1>1, <1>3 DEF ScanFits
<1>10. OpenFits(db, t, x)
  <2>1. ASSUME StepOf(x) = "commits"
        PROVE  t.count <= Cardinality(CommitRows(t.inserted)) + Cardinality(CommitsIn(t.pending))
    <3>1. s.count <= Cardinality(CommitRows(s.inserted)) + Cardinality(CommitsIn(s.pending))
      BY <1>9, <2>1 DEF OpenFits
    <3>2. /\ IsFiniteSet(CommitRows(s.inserted)) /\ Cardinality(CommitRows(s.inserted)) \in Nat
          /\ s.count \in Nat
      BY <1>1, InsertedFinite DEF SessionFits
    <3> HIDE DEF s, t, k
    <3>3. CommitRows(t.inserted) = CommitRows(s.inserted) \cup (IF k[1] = "commits" THEN {k} ELSE {})
      BY <1>4 DEF CommitRows
    <3>4. k[1] = "commits" => k \notin CommitRows(s.inserted)
      BY <1>5 DEF CommitRows
    <3>5. Cardinality(CommitRows(t.inserted))
             = Cardinality(CommitRows(s.inserted)) + (IF k[1] = "commits" THEN 1 ELSE 0)
      <4>1. CASE k[1] = "commits"
        BY <3>2, <3>3, <3>4, <4>1, FS_AddElement
      <4>2. CASE k[1] # "commits"
        BY <3>2, <3>3, <4>2
      <4>3. QED
        BY <4>1, <4>2
    <3>6. t.count = s.count
      BY <1>4
    <3>7. QED
      BY <1>6, <3>1, <3>2, <3>5, <3>6
  <2>2. t.plan = s.plan
    BY <1>4
  <2> HIDE DEF s, t, x, K
  <2>3. QED
    BY <1>7, <1>9, <2>1, <2>2 DEF OpenFits, K
<1>11. /\ CommitRows(t.inserted) \cap DOMAIN db = {}
       /\ \A v \in Workers : v # w => CommitRows(t.inserted) \cap CommitRows(session[v].inserted) = {}
  <2>1. /\ CommitRows(s.inserted) \cap DOMAIN db = {}
        /\ \A v \in Workers : v # w => CommitRows(s.inserted) \cap CommitRows(session[v].inserted) = {}
    BY InsertedApart
  <2>2. \A y \in CommitRows(t.inserted) : y \in CommitRows(s.inserted) \/ (y = k /\ k[1] = "commits")
    BY <1>4 DEF CommitRows
  <2>3. \A v \in Workers : CommitRows(session[v].inserted) \subseteq session[v].inserted
    BY DEF CommitRows
  <2> HIDE DEF s, t, k
  <2>4. QED
    BY <1>5, <2>1, <2>2, <2>3
<1>12. QED
  BY <1>3, <1>4, <1>8, <1>10, <1>11, SessionMoves

-----------------------------------------------------------------------------
(* Losses and other steps without an open session.                         *)

\* Worker w is left without an open session.
LEMMA ClosedMoves ==
  ASSUME ContentInvariant, NEW w \in Workers, UNCHANGED <<db, extracted, promised>>,
         session' = [v \in Workers |-> session'[v]], scan' = [v \in Workers |-> scan'[v]],
         \A v \in Workers : v # w => session'[v] = session[v] /\ scan'[v] = scan[v],
         session'[w] = Closed, ScanFits(db, Closed, scan'[w]),
         scan'[w].commits <= scan[w].commits
  PROVE  ContentInvariant'
<1>1. Holds(db, session, scan, extracted, promised)
  BY DEF ContentInvariant
<1>2. SessionFits(db, session'[w]) /\ CommitRows(session'[w].inserted) = {}
  BY ClosedFits DEF CommitRows
<1>3. /\ CommitRows(session'[w].inserted) \cap DOMAIN db = {}
      /\ \A v \in Workers : v # w =>
            CommitRows(session'[w].inserted) \cap CommitRows(session[v].inserted) = {}
  BY <1>2
<1>4. Holds(db, session', scan', extracted, promised)
  BY <1>1, <1>2, <1>3, Moves
<1>5. QED
  BY <1>4 DEF ContentInvariant

\* The step after the one that scan y is at.
Following(x, y) ==
  /\ IsScan(y)
  /\ y.repo = x.repo /\ y.commits = x.commits /\ y.lost = x.lost
  /\ y.entries = x.entries /\ y.asked = x.asked
  /\ y.step \in 1..Len(StepsOf(x.repo))
  /\ y.at = "finish" \/ (y.at = "fetch" /\ y.step = x.step + 1)

LEMMA SoftFollows ==
  ASSUME NEW x, NEW y, Following(x, y), NEW z, z = [y EXCEPT !.soft = TRUE]
  PROVE  Following(x, z)
<1>1. /\ IsScan(z) /\ z.at = y.at /\ z.repo = y.repo /\ z.step = y.step /\ z.commits = y.commits
      /\ z.lost = y.lost /\ z.entries = y.entries /\ z.asked = y.asked
  BY DEF Following, IsScan
<1>2. QED
  BY <1>1 DEF Following

LEMMA AdvancedFollows ==
  ASSUME NEW w \in Workers, NEW d, NEW s, ScanFits(d, s, scan[w]), scan[w].at \in {"fetch", "open"}
  PROVE  Following(scan[w], Advanced(w))
<1> DEFINE x == scan[w]
           y == Advanced(w)
<1>1. /\ IsScan(x) /\ x.repo \in Repos /\ x.step \in 1..Len(StepsOf(x.repo))
      /\ Steps(w) = StepsOf(x.repo) /\ Len(Steps(w)) \in Nat
  BY Places DEF ScanFits, Steps
<1>2. CASE x.step = Len(Steps(w))
  <2>1. y = [x EXCEPT !.at = "finish"]
    BY <1>2 DEF Advanced
  <2> HIDE DEF x, y
  <2>2. /\ IsScan(y) /\ y.at = "finish" /\ y.repo = x.repo /\ y.step = x.step
        /\ y.commits = x.commits /\ y.lost = x.lost /\ y.entries = x.entries /\ y.asked = x.asked
    BY <1>1, <2>1 DEF IsScan
  <2>3. Following(x, y)
    BY <1>1, <2>2 DEF Following
  <2>4. QED
    BY <2>3 DEF x, y
<1>3. CASE x.step # Len(Steps(w))
  <2>1. y = [x EXCEPT !.at = "fetch", !.step = @ + 1]
    BY <1>3 DEF Advanced
  <2> HIDE DEF x, y
  <2>2. /\ IsScan(y) /\ y.at = "fetch" /\ y.repo = x.repo /\ y.step = x.step + 1
        /\ y.commits = x.commits /\ y.lost = x.lost /\ y.entries = x.entries /\ y.asked = x.asked
    BY <1>1, <2>1 DEF IsScan
  <2>3. x.step + 1 \in 1..Len(StepsOf(x.repo))
    BY <1>1, <1>3
  <2>4. Following(x, y)
    BY <2>2, <2>3 DEF Following
  <2>5. QED
    BY <2>4 DEF x, y
<1>4. QED
  BY <1>2, <1>3

LEMMA LossFits ==
  ASSUME NEW w \in Workers, NEW d, NEW s, ScanFits(d, s, scan[w]), scan[w].at \in {"fetch", "open"},
         NEW y, Following(scan[w], y)
  PROVE  /\ ScanFits(d, Closed, AfterLoss(w, y))
         /\ AfterLoss(w, y).commits <= scan[w].commits
<1> DEFINE x == scan[w]
           z == AfterLoss(w, y)
           r == x.repo
<1>1. /\ r \in Repos /\ x.step \in 1..Len(StepsOf(r)) /\ Step(w) = StepOf(x)
      /\ x.commits \in Nat /\ x.lost \in Nat /\ IsList(x.entries)
      /\ x.step > RepositoryAt(r) => RepositoryKey(r) \in DOMAIN d
      /\ x.step <= CommitsAt(r) => x.commits = 0
      /\ x.lost = 0 /\ (x.at = "open" => StepOf(x) = "enrichment") => x.asked \subseteq Kept(d)
  BY DEF ScanFits, Step, Steps, StepOf
<1>2. /\ StepOf(x) \in Scaffold <=> x.step <= RepositoryAt(r)
      /\ Len(StepsOf(r)) \in Nat /\ RepositoryAt(r) \in Nat /\ CommitsAt(r) \in Nat
  BY <1>1, Places DEF StepOf
<1>3. CASE Step(w) \in Scaffold
  <2>1. z = Idle
    BY <1>3 DEF AfterLoss
  <2>2. QED
    BY <1>1, <2>1, IdleFits
<1>4. CASE Step(w) \notin Scaffold
  <2>1. /\ IsScan(z) /\ z.at = y.at /\ z.repo = y.repo /\ z.step = y.step
        /\ z.commits = y.commits /\ z.asked = y.asked
        /\ z.lost = (IF Step(w) = "enrichment" THEN y.lost ELSE y.lost + 1)
        /\ z.entries = (IF Step(w) \in {"detections", "technologies"} THEN <<>> ELSE y.entries)
    BY <1>4 DEF AfterLoss, Following, IsScan
  <2>2. /\ y.repo = r /\ y.commits = x.commits /\ y.lost = x.lost
        /\ y.entries = x.entries /\ y.asked = x.asked
        /\ y.step \in 1..Len(StepsOf(r))
        /\ y.at = "finish" \/ (y.at = "fetch" /\ y.step = x.step + 1)
    BY DEF Following
  <2> HIDE DEF x, z, r
  <2>3. RepositoryKey(r) \in DOMAIN d
    BY <1>1, <1>2, <1>4
  <2>4. z.lost \in Nat /\ IsList(z.entries)
    BY <1>1, <2>1, <2>2, EmptyList
  <2>5. z.lost = 0 => z.asked \subseteq Kept(d)
    BY <1>1, <2>1, <2>2
  <2>6. y.at = "fetch" /\ y.step <= CommitsAt(r) => z.commits = 0
    BY <1>1, <1>2, <2>1, <2>2
  <2>7. ScanFits(d, Closed, z)
    BY <1>1, <2>1, <2>2, <2>3, <2>4, <2>5, <2>6 DEF ScanFits
  <2>8. z.commits <= x.commits
    BY <1>1, <2>1, <2>2
  <2>9. QED
    BY <2>7, <2>8 DEF z, x
<1>5. QED
  BY <1>3, <1>4

LEMMA LoseBatchStep ==
  ASSUME ContentInvariant, NEW w \in Workers, scan[w].at \in {"fetch", "open"}, LoseBatch(w)
  PROVE  ContentInvariant'
<1>1. /\ session = [v \in Workers |-> session[v]] /\ scan = [v \in Workers |-> scan[v]]
      /\ ScanFits(db, session[w], scan[w])
  BY DEF ContentInvariant, Holds
<1>2. /\ session' = [v \in Workers |-> session'[v]] /\ scan' = [v \in Workers |-> scan'[v]]
      /\ \A v \in Workers : v # w => session'[v] = session[v] /\ scan'[v] = scan[v]
      /\ session'[w] = Closed /\ scan'[w] = AfterLoss(w, Advanced(w))
      /\ UNCHANGED <<db, extracted, promised>>
  BY <1>1 DEF LoseBatch
<1>3. Following(scan[w], Advanced(w))
  BY <1>1, AdvancedFollows
<1>4. ScanFits(db, Closed, scan'[w]) /\ scan'[w].commits <= scan[w].commits
  BY <1>1, <1>2, <1>3, LossFits
<1>5. QED
  BY <1>2, <1>4, ClosedMoves

LEMMA SoftLimitStep ==
  ASSUME ContentInvariant, NEW w \in Workers, SoftLimit(w)
  PROVE  ContentInvariant'
<1> DEFINE y == [Advanced(w) EXCEPT !.soft = TRUE]
<1>1. /\ session = [v \in Workers |-> session[v]] /\ scan = [v \in Workers |-> scan[v]]
      /\ ScanFits(db, session[w], scan[w])
  BY DEF ContentInvariant, Holds
<1>2. /\ session' = [v \in Workers |-> session'[v]] /\ scan' = [v \in Workers |-> scan'[v]]
      /\ \A v \in Workers : v # w => session'[v] = session[v] /\ scan'[v] = scan[v]
      /\ session'[w] = Closed
      /\ scan'[w] = IF scan[w].at = "finish" THEN Idle ELSE AfterLoss(w, y)
      /\ scan[w].at # "idle" /\ UNCHANGED <<db, extracted, promised>>
  BY <1>1 DEF SoftLimit
<1>3. ScanFits(db, Closed, scan'[w]) /\ scan'[w].commits <= scan[w].commits
  <2>1. CASE scan[w].at = "finish"
    BY <1>1, <1>2, <2>1, IdleFits DEF ScanFits
  <2>2. CASE scan[w].at # "finish"
    <3>1. scan[w].at \in {"fetch", "open"}
      BY <1>1, <1>2, <2>2 DEF ScanFits
    <3>2. Following(scan[w], Advanced(w)) /\ y = [Advanced(w) EXCEPT !.soft = TRUE]
      BY <1>1, <3>1, AdvancedFollows
    <3> HIDE DEF y
    <3>4. Following(scan[w], y)
      BY <3>2, SoftFollows
    <3>3. QED
      BY <1>1, <1>2, <2>2, <3>1, <3>4, LossFits
  <2>3. QED
    BY <2>1, <2>2
<1>4. QED
  BY <1>2, <1>3, ClosedMoves

LEMMA KillStep ==
  ASSUME ContentInvariant, NEW w \in Workers, Kill(w)
  PROVE  ContentInvariant'
<1>1. /\ session = [v \in Workers |-> session[v]] /\ scan = [v \in Workers |-> scan[v]]
      /\ ScanFits(db, session[w], scan[w])
  BY DEF ContentInvariant, Holds
<1>2. /\ session' = [v \in Workers |-> session'[v]] /\ scan' = [v \in Workers |-> scan'[v]]
      /\ \A v \in Workers : v # w => session'[v] = session[v] /\ scan'[v] = scan[v]
      /\ session'[w] = Closed /\ scan'[w] = Idle /\ UNCHANGED <<db, extracted, promised>>
  BY <1>1 DEF Kill
<1>3. ScanFits(db, Closed, scan'[w]) /\ scan'[w].commits <= scan[w].commits
  BY <1>1, <1>2, IdleFits DEF ScanFits
<1>4. QED
  BY <1>2, <1>3, ClosedMoves

LEMMA BeginScanStep ==
  ASSUME ContentInvariant, NEW w \in Workers, NEW r \in Repos, BeginScan(w, r)
  PROVE  ContentInvariant'
<1> DEFINE y == [Idle EXCEPT !.at = "fetch", !.repo = r, !.step = 1]
<1>1. /\ session = [v \in Workers |-> session[v]] /\ scan = [v \in Workers |-> scan[v]]
      /\ ScanFits(db, session[w], scan[w]) /\ scan[w].at = "idle"
  BY DEF ContentInvariant, Holds, BeginScan
<1>2. /\ session' = session /\ scan' = [v \in Workers |-> scan'[v]]
      /\ \A v \in Workers : v # w => scan'[v] = scan[v]
      /\ scan'[w] = y /\ UNCHANGED <<db, extracted, promised>>
  BY <1>1 DEF BeginScan
<1>3. session'[w] = Closed
  BY <1>1, <1>2 DEF ScanFits
<1>4. ScanFits(db, Closed, y) /\ y.commits <= scan[w].commits
  <2>1. /\ IsScan(y) /\ y.at = "fetch" /\ y.repo = r /\ y.step = 1 /\ y.commits = 0 /\ y.lost = 0
        /\ y.asked = {} /\ y.entries = <<>>
    <3>1. y = [Idle EXCEPT !.at = "fetch", !.repo = r, !.step = 1] /\ Idle.entries = <<>>
      BY DEF Idle
    <3> HIDE DEF y
    <3>2. IsScan(Idle) /\ Idle.commits = 0 /\ Idle.asked = {} /\ Idle.lost = 0
      BY IdleFits
    <3>3. QED
      BY <3>1, <3>2 DEF IsScan
  <2>2. scan[w].commits \in Nat
    BY <1>1 DEF ScanFits
  <2>3. 1 \in 1..Len(StepsOf(r)) /\ ~(1 > RepositoryAt(r))
    BY Places
  <2> HIDE DEF y
  <2>4. QED
    BY <2>1, <2>2, <2>3, EmptyList DEF ScanFits
<1> HIDE DEF y
<1>5. QED
  BY <1>1, <1>2, <1>3, <1>4, ClosedMoves

\* A session that has only its plan.
LEMMA SessionOpens ==
  ASSUME NEW d, NEW plan, NEW t, t = Session(plan)
  PROVE  /\ SessionFits(d, t) /\ Known(d, t) = Kept(d) /\ t.plan = plan /\ t.count = 0
         /\ t.inserted = {} /\ CommitRows(t.inserted) = {}
         /\ Cardinality(CommitRows(t.inserted)) \in Nat /\ Cardinality(CommitsIn(t.pending)) \in Nat
<1>1. /\ IsSession(t) /\ t.plan = plan /\ t.pending = <<>> /\ t.inserted = {} /\ t.deleted = {}
      /\ t.count = 0 /\ t.rows = <<>>
  BY DEF Session, NoRows, IsSession
<1>2. ToSet(<<>>) = {} /\ DOMAIN <<>> = {} /\ <<>> = [k \in DOMAIN <<>> |-> <<>>[k]]
  BY DEF ToSet
<1>3. Known(d, t) = Kept(d)
  BY <1>1, <1>2 DEF Known, Kept
<1>4. SessionFits(d, t)
  BY <1>1, <1>2, EmptyList, FS_EmptySet DEF SessionFits, CommitRows
<1>5. CommitRows(t.inserted) = {}
  BY <1>1 DEF CommitRows
<1>6. Cardinality(CommitRows(t.inserted)) \in Nat
  BY <1>4, InsertedFinite
<1>7. Cardinality(CommitsIn(t.pending)) \in Nat
  BY <1>1, EmptyList, CommitsInFinite
<1>8. QED
  BY <1>1, <1>3, <1>4, <1>5, <1>6, <1>7

LEMMA FetchStep ==
  ASSUME ContentInvariant, NEW w \in Workers, Fetch(w)
  PROVE  ContentInvariant'
<1> DEFINE x == scan[w]
           r == x.repo
           step == StepOf(x)
           y == scan'[w]
           t == session'[w]
<1>1. /\ session = [v \in Workers |-> session[v]] /\ scan = [v \in Workers |-> scan[v]]
      /\ StoreFits(db) /\ ScanFits(db, session[w], x) /\ IsScan(x) /\ x.at = "fetch"
  BY DEF ContentInvariant, Holds, Fetch, ScanFits
<1>2. Step(w) = step
  BY DEF Step, Steps, StepOf
<1>3. PICK items :
        /\ items \in (IF step = "enrichment" THEN {<<>>} ELSE Listing[r][step])
        /\ session' = [session EXCEPT ![w] = Session(Plan(r, step, items, x.entries))]
        /\ scan' = [scan EXCEPT ![w].at = "open",
                                ![w].asked = @ \cup Asked(r, step, items),
                                ![w].entries = IF step \in {"detections", "technologies"}
                                               THEN items ELSE @]
  BY <1>2 DEF Fetch
<1>4. /\ session' = [v \in Workers |-> session'[v]] /\ scan' = [v \in Workers |-> scan'[v]]
      /\ \A v \in Workers : v # w => session'[v] = session[v] /\ scan'[v] = scan[v]
      /\ t = Session(Plan(r, step, items, x.entries))
      /\ IsScan(y) /\ y.at = "open" /\ y.repo = r /\ y.step = x.step /\ y.commits = x.commits
      /\ y.lost = x.lost /\ y.asked = x.asked \cup Asked(r, step, items)
      /\ y.entries = (IF step \in {"detections", "technologies"} THEN items ELSE x.entries)
      /\ UNCHANGED <<db, extracted, promised>>
  BY <1>1, <1>3 DEF Fetch, IsScan
<1>5. /\ r \in Repos /\ x.step \in 1..Len(StepsOf(r)) /\ step = StepsOf(r)[x.step]
      /\ x.commits \in Nat /\ x.lost \in Nat /\ IsList(x.entries)
      /\ x.step > RepositoryAt(r) => RepositoryKey(r) \in DOMAIN db
      /\ x.step <= CommitsAt(r) => x.commits = 0
      /\ x.lost = 0 => x.asked \subseteq Kept(db)
  BY <1>1 DEF ScanFits, StepOf
<1>6. StepOf(y) = step
  BY <1>4 DEF StepOf
<1>7. step # "enrichment" => items \in Listing[r][step]
  BY <1>3
<1>8. /\ step \in ToSet(StepsOf(r)) /\ (step \in Scaffold <=> x.step <= RepositoryAt(r))
      /\ RepositoryAt(r) \in Nat /\ Len(StepsOf(r)) \in Nat
  BY <1>5, Places
<1>9. step \notin Scaffold => RepositoryKey(r) \in Kept(db)
  <2>1. Lasting(RepositoryKey(r))
    BY KeysLast
  <2> HIDE DEF step, r, x
  <2>2. QED
    BY <1>5, <1>8, <2>1 DEF Kept
<1>10. IsList(y.entries)
  <2>1. CASE step \in {"detections", "technologies"}
    <3>1. step \notin Scaffold \cup {"enrichment"}
      BY <2>1 DEF Scaffold
    <3> HIDE DEF step, r, x, y
    <3>2. QED
      BY <1>4, <1>5, <1>7, <1>8, <2>1, <3>1, ListingAssumption
  <2>2. CASE step \notin {"detections", "technologies"}
    BY <1>4, <1>5, <2>2
  <2>3. QED
    BY <2>1, <2>2
<1>11. step = "enrichment" => Asked(r, step, items) = {}
  BY DEF Asked
<1>12. step = "repository" => Asked(r, step, items) = {RepositoryKey(r)}
  BY DEF Asked
<1> HIDE DEF step, r, x, y, t
<1>13. Yields(step, Kept(db), Plan(r, step, items, x.entries), Kept(db) \cup Asked(r, step, items))
  BY <1>5, <1>7, <1>9, PlanYields
<1>14. Promise(y) \subseteq Kept(db) \cup Asked(r, step, items)
  BY <1>4, <1>5, <1>6, <1>12 DEF Promise
<1>15. Yields(step, Kept(db), Plan(r, step, items, x.entries), Promise(y))
  BY <1>13, <1>14, Consequence
<1>16. /\ SessionFits(db, t) /\ Known(db, t) = Kept(db) /\ t.plan = Plan(r, step, items, x.entries)
       /\ t.count = 0 /\ t.inserted = {} /\ CommitRows(t.inserted) = {}
       /\ Cardinality(CommitRows(t.inserted)) \in Nat /\ Cardinality(CommitsIn(t.pending)) \in Nat
  BY <1>4, SessionOpens
<1>17. OpenFits(db, t, y)
  BY <1>6, <1>15, <1>16 DEF OpenFits
<1>18. y.lost = 0 /\ (y.at = "open" => StepOf(y) = "enrichment") => y.asked \subseteq Kept(db)
  BY <1>4, <1>5, <1>6, <1>11
<1>19. ScanFits(db, t, y)
  BY <1>4, <1>5, <1>10, <1>17, <1>18 DEF ScanFits
<1>20. Holds(db, session, scan, extracted, promised)
  BY DEF ContentInvariant
<1>21. /\ CommitRows(t.inserted) \cap DOMAIN db = {}
       /\ \A v \in Workers : v # w => CommitRows(t.inserted) \cap CommitRows(session[v].inserted) = {}
       /\ y.commits <= x.commits
  BY <1>4, <1>5, <1>16
<1>22. /\ t = session'[w] /\ y = scan'[w] /\ x = scan[w]
  BY DEF t, x, y
<1>24. Holds(db, session', scan', extracted, promised)
  <2>1. /\ SessionFits(db, session'[w]) /\ ScanFits(db, session'[w], scan'[w])
        /\ scan'[w].commits <= scan[w].commits
        /\ CommitRows(session'[w].inserted) \cap DOMAIN db = {}
        /\ \A v \in Workers : v # w =>
              CommitRows(session'[w].inserted) \cap CommitRows(session[v].inserted) = {}
    BY <1>16, <1>19, <1>21, <1>22
  <2>2. /\ session' = [v \in Workers |-> session'[v]] /\ scan' = [v \in Workers |-> scan'[v]]
        /\ \A v \in Workers : v # w => session'[v] = session[v] /\ scan'[v] = scan[v]
    BY <1>4
  <2>3. QED
    BY <1>20, <2>1, <2>2, Moves
<1>23. QED
  BY <1>4, <1>24 DEF ContentInvariant

-----------------------------------------------------------------------------
(* Commit and the end of an extraction.                                    *)

\* Only worker w's count changes.
LEMMA CountsChange ==
  ASSUME NEW w \in Workers, NEW xs, NEW ys, \A v \in Workers : v # w => ys[v] = xs[v],
         \A v \in Workers : xs[v].commits \in Nat, ys[w].commits \in Nat
  PROVE  /\ SumFunctionOnSet(Counts(ys), Workers) + xs[w].commits
               = SumFunctionOnSet(Counts(xs), Workers) + ys[w].commits
         /\ SumFunctionOnSet(Counts(xs), Workers) \in Nat
         /\ SumFunctionOnSet(Counts(ys), Workers) \in Nat
<1> DEFINE f == Counts(xs)
           g == Counts(ys)
           S == Workers \ {w}
<1>1. IsFiniteSet(Workers) /\ IsFiniteSet(S)
  BY ContentAssumption, FS_RemoveElement
<1>2. /\ \A v \in Workers : f[v] \in Nat /\ g[v] \in Nat
      /\ \A v \in S : f[v] = g[v]
      /\ f[w] = xs[w].commits /\ g[w] = ys[w].commits
  BY DEF Counts
<1> HIDE DEF f, g
<1>3. SumFunctionOnSet(f, S) = SumFunctionOnSet(g, S)
  BY <1>1, <1>2, SumEqual
<1>4. SumFunctionOnSet(f, Workers) = f[w] + SumFunctionOnSet(f, S)
  BY <1>1, <1>2, SumRemove
<1>5. SumFunctionOnSet(g, Workers) = g[w] + SumFunctionOnSet(g, S)
  BY <1>1, <1>2, SumRemove
<1>6. SumFunctionOnSet(f, S) \in Nat
  BY <1>1, <1>2, SumType
<1>7. QED
  BY <1>2, <1>3, <1>4, <1>5, <1>6 DEF f, g

\* What the rows are when session s has committed on rows d.
LEMMA CommittedRows ==
  ASSUME NEW d, NEW s, StoreFits(d), SessionFits(d, s), s.pending = <<>>, NEW f,
         DOMAIN f = (DOMAIN d \ s.deleted) \cup DOMAIN s.rows, f = [k \in DOMAIN f |-> f[k]],
         \A k \in DOMAIN f : f[k] = IF k \in DOMAIN s.rows THEN s.rows[k] ELSE d[k],
         CommitRows(s.inserted) \cap DOMAIN d = {}
  PROVE  /\ StoreFits(f) /\ Kept(d) \subseteq Kept(f) /\ Known(d, s) \subseteq Kept(f)
         /\ CommitRows(DOMAIN f) = CommitRows(DOMAIN d) \cup CommitRows(s.inserted)
         /\ Cardinality(CommitRows(DOMAIN f))
               = Cardinality(CommitRows(DOMAIN d)) + Cardinality(CommitRows(s.inserted))
<1>1. /\ DOMAIN f = (DOMAIN d \ s.deleted) \cup DOMAIN s.rows
      /\ f = [k \in DOMAIN f |-> f[k]]
      /\ \A k \in DOMAIN f : f[k] = IF k \in DOMAIN s.rows THEN s.rows[k] ELSE d[k]
  OBVIOUS
<1>2. /\ IsFiniteSet(DOMAIN d) /\ IsFiniteSet(DOMAIN s.rows) /\ s.inserted \subseteq DOMAIN s.rows
      /\ CommitRows(DOMAIN s.rows) \subseteq s.inserted
      /\ \A k \in DOMAIN s.rows : s.rows[k].of \subseteq Known(d, s)
      /\ \A k \in s.deleted : ~Lasting(k)
      /\ \A k \in DOMAIN d : d[k].of \subseteq Kept(d)
  BY DEF StoreFits, SessionFits
<1>3. Kept(d) \subseteq Kept(f)
  BY <1>1, <1>2 DEF Kept
<1>4. Known(d, s) \subseteq Kept(f)
  <2>1. ToSet(s.pending) = {}
    BY DEF ToSet
  <2>2. QED
    BY <1>1, <1>2, <1>3, <2>1 DEF Known, Kept
<1>5. IsFiniteSet(DOMAIN f)
  <2>1. DOMAIN d \ s.deleted \in SUBSET DOMAIN d
    OBVIOUS
  <2>2. IsFiniteSet(DOMAIN d \ s.deleted)
    BY <1>2, <2>1, FS_Subset
  <2>3. IsFiniteSet((DOMAIN d \ s.deleted) \cup DOMAIN s.rows)
    BY <1>2, <2>2, FS_Union
  <2>4. QED
    BY <1>1, <2>3
<1>6. StoreFits(f)
  BY <1>1, <1>2, <1>3, <1>4, <1>5 DEF StoreFits
<1>7. CommitRows(DOMAIN f) = CommitRows(DOMAIN d) \cup CommitRows(s.inserted)
  <2>1. \A k : k[1] = "commits" => Lasting(k)
    BY DEF Lasting
  <2>2. QED
    BY <1>1, <1>2, <2>1 DEF CommitRows
<1>8. CommitRows(DOMAIN d) \cap CommitRows(s.inserted) = {}
  BY DEF CommitRows
<1>9. IsFiniteSet(CommitRows(DOMAIN d)) /\ IsFiniteSet(CommitRows(s.inserted))
  <2>1. CommitRows(DOMAIN d) \in SUBSET DOMAIN d
    BY DEF CommitRows
  <2>2. QED
    BY <1>2, <2>1, InsertedFinite, FS_Subset
<1>10. Cardinality(CommitRows(DOMAIN f))
          = Cardinality(CommitRows(DOMAIN d)) + Cardinality(CommitRows(s.inserted))
  <2>1. /\ Cardinality(CommitRows(DOMAIN d)) \in Nat /\ Cardinality(CommitRows(s.inserted)) \in Nat
    BY <1>9, FS_CardinalityType
  <2>2. Cardinality(CommitRows(DOMAIN d) \cup CommitRows(s.inserted))
          = Cardinality(CommitRows(DOMAIN d)) + Cardinality(CommitRows(s.inserted))
              - Cardinality(CommitRows(DOMAIN d) \cap CommitRows(s.inserted))
    BY <1>9, FS_Union
  <2>3. Cardinality(CommitRows(DOMAIN d) \cap CommitRows(s.inserted)) = 0
    BY <1>8, FS_EmptySet
  <2> DEFINE m == Cardinality(CommitRows(DOMAIN d))
             n == Cardinality(CommitRows(s.inserted))
  <2>4. Cardinality(CommitRows(DOMAIN d) \cup CommitRows(s.inserted)) = m + n - 0
    BY <2>2, <2>3
  <2>5. m \in Nat /\ n \in Nat
    BY <2>1
  <2> HIDE DEF m, n
  <2>6. m + n - 0 = m + n
    BY <2>5
  <2>7. Cardinality(CommitRows(DOMAIN f)) = m + n
    BY <1>7, <2>4, <2>6
  <2>8. QED
    BY <2>7 DEF m, n
<1>11. QED
  BY <1>3, <1>4, <1>6, <1>7, <1>10

\* The scan that goes on after a commit: f are the rows then, n the commits
\* inserted.
LEMMA CommittedScan ==
  ASSUME NEW w \in Workers, NEW d, NEW s, NEW f, NEW x, x = scan[w],
         SessionFits(d, s), ScanFits(d, s, x), x.at = "open",
         s.plan = <<>>, s.pending = <<>>, Kept(d) \subseteq Kept(f), Known(d, s) \subseteq Kept(f),
         NEW y, y = [Advanced(w) EXCEPT !.commits = IF StepOf(x) = "commits" THEN s.count ELSE @]
  PROVE  /\ ScanFits(f, Closed, y)
         /\ y.commits <= x.commits + Cardinality(CommitRows(s.inserted))
<1> DEFINE z == Advanced(w)
           r == x.repo
           n == Cardinality(CommitRows(s.inserted))
<1>1. /\ r \in Repos /\ x.step \in 1..Len(StepsOf(r)) /\ x.commits \in Nat /\ x.lost \in Nat
      /\ IsList(x.entries)
      /\ x.step > RepositoryAt(r) => RepositoryKey(r) \in DOMAIN d
      /\ x.step <= CommitsAt(r) => x.commits = 0
      /\ OpenFits(d, s, x)
  BY DEF ScanFits
<1>2. /\ StepOf(x) = "repository" <=> x.step = RepositoryAt(r)
      /\ StepOf(x) = "commits" <=> x.step = CommitsAt(r)
      /\ Len(StepsOf(r)) \in Nat /\ RepositoryAt(r) \in Nat /\ CommitsAt(r) \in Nat
  BY <1>1, Places DEF StepOf
<1>3. Following(x, z)
  BY AdvancedFollows
<1>4. y = [z EXCEPT !.commits = IF StepOf(x) = "commits" THEN s.count ELSE z.commits]
  BY <1>3 DEF Following, IsScan
<1> HIDE DEF z, r, n
<1>5. /\ IsScan(y) /\ y.repo = x.repo /\ y.lost = x.lost
      /\ y.entries = x.entries /\ y.asked = x.asked
      /\ y.step \in 1..Len(StepsOf(x.repo))
      /\ y.at = "finish" \/ (y.at = "fetch" /\ y.step = x.step + 1)
      /\ y.commits = IF StepOf(x) = "commits" THEN s.count ELSE x.commits
  BY <1>3, <1>4 DEF Following, IsScan
<1>6. Promise(x) \subseteq Kept(f)
  <2>1. Yields(StepOf(x), Known(d, s), <<>>, Promise(x))
    BY <1>1 DEF OpenFits
  <2>2. Promise(x) \subseteq Known(d, s)
    BY <2>1, Making
  <2>3. QED
    BY <2>2
<1>7. n \in Nat /\ s.count \in Nat
  BY InsertedFinite DEF SessionFits, n
<1>8. StepOf(x) = "commits" => s.count <= n
  <2>1. CommitsIn(s.pending) = {}
    BY DEF CommitsIn
  <2>2. Cardinality(CommitsIn(s.pending)) = 0
    BY <2>1, FS_EmptySet
  <2>3. QED
    BY <1>1, <1>7, <2>2 DEF OpenFits, n
<1>9. y.commits \in Nat /\ y.commits <= x.commits + n
  BY <1>1, <1>5, <1>7, <1>8
<1>10. y.at = "fetch" /\ y.step > RepositoryAt(r) => RepositoryKey(r) \in DOMAIN f
  <2>1. Lasting(RepositoryKey(r))
    BY KeysLast
  <2>2. x.step > RepositoryAt(r) => RepositoryKey(r) \in Kept(d)
    BY <1>1, <2>1 DEF Kept
  <2>3. x.step = RepositoryAt(r) => RepositoryKey(r) \in Promise(x)
    BY <1>2 DEF Promise, r
  <2>4. Kept(f) \subseteq DOMAIN f
    BY DEF Kept
  <2>5. QED
    BY <1>1, <1>2, <1>5, <1>6, <2>2, <2>3, <2>4
<1>11. y.at = "fetch" /\ y.step <= CommitsAt(r) => y.commits = 0
  BY <1>1, <1>2, <1>5
<1>12. y.lost = 0 => y.asked \subseteq Kept(f)
  BY <1>5, <1>6 DEF Promise
<1>13. ScanFits(f, Closed, y)
  BY <1>1, <1>5, <1>9, <1>10, <1>11, <1>12 DEF ScanFits, r
<1>14. QED
  BY <1>9, <1>13 DEF n

LEMMA CommitStep ==
  ASSUME ContentInvariant, NEW w \in Workers, Commit(w)
  PROVE  ContentInvariant'
<1> DEFINE s == session[w]
           x == scan[w]
           y == scan'[w]
           n == Cardinality(CommitRows(s.inserted))
<1>1. Holds(db, session, scan, extracted, promised)
  BY DEF ContentInvariant
<1>2. /\ session = [v \in Workers |-> session[v]] /\ scan = [v \in Workers |-> scan[v]]
      /\ StoreFits(db) /\ Apart(db, session)
      /\ \A v \in Workers : SessionFits(db, session[v]) /\ ScanFits(db, session[v], scan[v])
      /\ extracted \in Nat /\ promised \subseteq Kept(db)
      /\ extracted + SumFunctionOnSet(Counts(scan), Workers) <= Cardinality(CommitRows(DOMAIN db))
  BY <1>1 DEF Holds
<1>3. x.at = "open" /\ s.plan = <<>> /\ s.pending = <<>> /\ Step(w) = StepOf(x)
  BY DEF Commit, Step, Steps, StepOf
<1>4. /\ db' = [k \in (DOMAIN db \ s.deleted) \cup DOMAIN s.rows |->
                   IF k \in DOMAIN s.rows THEN s.rows[k] ELSE db[k]]
      /\ y = [Advanced(w) EXCEPT !.commits = IF StepOf(x) = "commits" THEN s.count ELSE @]
      /\ session' = [v \in Workers |-> session'[v]] /\ scan' = [v \in Workers |-> scan'[v]]
      /\ \A v \in Workers : v # w => session'[v] = session[v] /\ scan'[v] = scan[v]
      /\ session'[w] = Closed
      /\ UNCHANGED <<extracted, promised>>
  BY <1>2, <1>3 DEF Commit
<1>5. CommitRows(s.inserted) \cap DOMAIN db = {}
  BY InsertedApart
<1>6. /\ StoreFits(db') /\ Kept(db) \subseteq Kept(db') /\ Known(db, s) \subseteq Kept(db')
      /\ CommitRows(DOMAIN db') = CommitRows(DOMAIN db) \cup CommitRows(s.inserted)
      /\ Cardinality(CommitRows(DOMAIN db')) = Cardinality(CommitRows(DOMAIN db)) + n
  <2>1. SessionFits(db, s)
    BY <1>2
  <2> HIDE DEF s
  <2>2. /\ DOMAIN db' = (DOMAIN db \ s.deleted) \cup DOMAIN s.rows
        /\ db' = [k \in DOMAIN db' |-> db'[k]]
        /\ \A k \in DOMAIN db' : db'[k] = IF k \in DOMAIN s.rows THEN s.rows[k] ELSE db[k]
    BY <1>4
  <2>3. QED
    BY <1>2, <1>3, <1>5, <2>1, <2>2, CommittedRows DEF n
<1>7. ScanFits(db', Closed, y) /\ y.commits <= x.commits + n
  <2>1. SessionFits(db, s) /\ ScanFits(db, s, x) /\ x = scan[w]
    BY <1>2
  <2>2. x.at = "open" /\ s.plan = <<>> /\ s.pending = <<>>
    BY <1>3
  <2>3. Kept(db) \subseteq Kept(db') /\ Known(db, s) \subseteq Kept(db')
    BY <1>6
  <2>4. y = [Advanced(w) EXCEPT !.commits = IF StepOf(x) = "commits" THEN s.count ELSE @]
    BY <1>4
  <2> HIDE DEF s, x, y
  <2>5. /\ ScanFits(db', Closed, y)
        /\ y.commits <= x.commits + Cardinality(CommitRows(s.inserted))
    BY <2>1, <2>2, <2>3, <2>4, CommittedScan
  <2>6. QED
    BY <2>5 DEF n
<1>8. \A v \in Workers : SessionFits(db', session'[v]) /\ ScanFits(db', session'[v], scan'[v])
  <2>1. ASSUME NEW v \in Workers, v # w
        PROVE  SessionFits(db', session'[v]) /\ ScanFits(db', session'[v], scan'[v])
    <3>1. session'[v] = session[v] /\ scan'[v] = scan[v]
      BY <1>4, <2>1
    <3>2. SessionFits(db, session[v]) /\ ScanFits(db, session[v], scan[v])
      BY <1>2
    <3>3. Kept(db) \subseteq Kept(db')
      BY <1>6
    <3>4. SessionFits(db', session[v]) /\ ScanFits(db', session[v], scan[v])
      BY <3>2, <3>3, MoreKept
    <3>5. QED
      BY <3>1, <3>4
  <2>2. SessionFits(db', session'[w]) /\ ScanFits(db', session'[w], scan'[w])
    BY <1>4, <1>7, ClosedFits
  <2>3. QED
    BY <2>1, <2>2
<1>9. Apart(db', session')
  <2>1. CommitRows(session'[w].inserted) = {}
    BY <1>4, ClosedFits DEF CommitRows
  <2>2. ASSUME NEW v \in Workers, v # w
        PROVE  CommitRows(session'[v].inserted) \cap DOMAIN db' = {}
    <3>1. /\ CommitRows(session[v].inserted) \cap DOMAIN db = {}
          /\ CommitRows(session[v].inserted) \cap CommitRows(s.inserted) = {}
      BY <1>2, <2>2 DEF Apart
    <3>2. session'[v] = session[v]
      BY <1>4, <2>2
    <3>3. CommitRows(session[v].inserted) \cap DOMAIN db' \subseteq CommitRows(DOMAIN db')
      BY DEF CommitRows
    <3>4. CommitRows(DOMAIN db) \subseteq DOMAIN db
      BY DEF CommitRows
    <3> HIDE DEF s
    <3>5. QED
      BY <1>6, <3>1, <3>2, <3>3, <3>4
  <2>3. ASSUME NEW u \in Workers, NEW v \in Workers, v # u
        PROVE  CommitRows(session'[u].inserted) \cap CommitRows(session'[v].inserted) = {}
    <3>1. CASE u = w \/ v = w
      BY <2>1, <3>1
    <3>2. CASE u # w /\ v # w
      BY <1>2, <1>4, <2>3, <3>2 DEF Apart
    <3>3. QED
      BY <3>1, <3>2
  <2>4. CommitRows(session'[w].inserted) \cap DOMAIN db' = {}
    BY <2>1
  <2>5. QED
    BY <2>2, <2>3, <2>4 DEF Apart
<1>10. extracted + SumFunctionOnSet(Counts(scan'), Workers) <= Cardinality(CommitRows(DOMAIN db'))
  <2>1. /\ \A v \in Workers : scan[v].commits \in Nat
        /\ y.commits \in Nat /\ x.commits \in Nat
    BY <1>2, <1>7 DEF ScanFits
  <2>2. /\ SumFunctionOnSet(Counts(scan'), Workers) + scan[w].commits
              = SumFunctionOnSet(Counts(scan), Workers) + scan'[w].commits
        /\ SumFunctionOnSet(Counts(scan), Workers) \in Nat
        /\ SumFunctionOnSet(Counts(scan'), Workers) \in Nat
    <3>1. \A v \in Workers : v # w => scan'[v] = scan[v]
      BY <1>4
    <3>2. scan'[w].commits \in Nat
      BY <2>1
    <3>3. QED
      BY <2>1, <3>1, <3>2, CountsChange
  <2>6. scan[w].commits = x.commits /\ scan'[w].commits = y.commits
    OBVIOUS
  <2>3. n \in Nat
    BY <1>2, InsertedFinite
  <2>4. Cardinality(CommitRows(DOMAIN db)) \in Nat
    BY <1>1, CountsType
  <2>7. /\ extracted \in Nat /\ extracted' = extracted
        /\ extracted + SumFunctionOnSet(Counts(scan), Workers) <= Cardinality(CommitRows(DOMAIN db))
        /\ Cardinality(CommitRows(DOMAIN db')) = Cardinality(CommitRows(DOMAIN db)) + n
        /\ y.commits <= x.commits + n
    BY <1>2, <1>4, <1>6, <1>7
  <2> DEFINE before == SumFunctionOnSet(Counts(scan), Workers)
             after == SumFunctionOnSet(Counts(scan'), Workers)
             a == x.commits
             b == y.commits
             old == Cardinality(CommitRows(DOMAIN db))
             new == Cardinality(CommitRows(DOMAIN db'))
  <2>8. /\ after + a = before + b /\ before \in Nat /\ after \in Nat /\ a \in Nat /\ b \in Nat
        /\ b <= a + n /\ n \in Nat /\ old \in Nat /\ extracted + before <= old /\ new = old + n
        /\ extracted \in Nat
    BY <2>1, <2>2, <2>3, <2>4, <2>6, <2>7
  <2> HIDE DEF before, after, a, b, old, new, n
  <2>9. extracted + after <= new
    BY <2>8
  <2>10. QED
    BY <2>9 DEF after, new
<1>11. extracted' \in Nat /\ promised' \subseteq Kept(db')
  BY <1>2, <1>4, <1>6
<1>12. Holds(db', session', scan', extracted', promised')
  BY <1>4, <1>6, <1>8, <1>9, <1>10, <1>11 DEF Holds
<1>13. QED
  BY <1>12 DEF ContentInvariant

LEMMA FinishScanStep ==
  ASSUME ContentInvariant, NEW w \in Workers, FinishScan(w)
  PROVE  ContentInvariant'
<1> DEFINE x == scan[w]
<1>1. Holds(db, session, scan, extracted, promised)
  BY DEF ContentInvariant
<1>2. /\ session = [v \in Workers |-> session[v]] /\ scan = [v \in Workers |-> scan[v]]
      /\ StoreFits(db) /\ Apart(db, session)
      /\ \A v \in Workers : SessionFits(db, session[v]) /\ ScanFits(db, session[v], scan[v])
      /\ extracted \in Nat /\ promised \subseteq Kept(db)
      /\ extracted + SumFunctionOnSet(Counts(scan), Workers) <= Cardinality(CommitRows(DOMAIN db))
  BY <1>1 DEF Holds
<1>3. /\ x.at = "finish"
      /\ extracted' = extracted + x.commits
      /\ promised' = (IF x.lost = 0 THEN promised \cup x.asked ELSE promised)
      /\ scan' = [v \in Workers |-> scan'[v]]
      /\ \A v \in Workers : v # w => scan'[v] = scan[v]
      /\ scan'[w] = Idle
      /\ UNCHANGED <<db, session>>
  BY <1>2 DEF FinishScan
<1>4. session[w] = Closed /\ x.commits \in Nat /\ (x.lost = 0 => x.asked \subseteq Kept(db))
  BY <1>2, <1>3 DEF ScanFits
<1>5. \A v \in Workers : ScanFits(db, session[v], scan'[v])
  BY <1>2, <1>3, <1>4, IdleFits
<1>6. extracted' + SumFunctionOnSet(Counts(scan'), Workers) <= Cardinality(CommitRows(DOMAIN db))
  <2>1. /\ \A v \in Workers : scan[v].commits \in Nat
        /\ scan'[w].commits = 0
    BY <1>2, <1>3, IdleFits DEF ScanFits
  <2>2. scan'[w].commits \in Nat
    BY <2>1
  <2>3. /\ SumFunctionOnSet(Counts(scan'), Workers) + x.commits
              = SumFunctionOnSet(Counts(scan), Workers) + scan'[w].commits
        /\ SumFunctionOnSet(Counts(scan), Workers) \in Nat
        /\ SumFunctionOnSet(Counts(scan'), Workers) \in Nat
    BY <1>3, <2>1, <2>2, CountsChange
  <2>4. Cardinality(CommitRows(DOMAIN db)) \in Nat
    BY <1>1, CountsType
  <2> HIDE DEF x
  <2>5. QED
    BY <1>2, <1>3, <1>4, <2>1, <2>3, <2>4
<1>7. extracted' \in Nat /\ promised' \subseteq Kept(db)
  BY <1>2, <1>3, <1>4
<1>8. Holds(db, session, scan', extracted', promised')
  BY <1>2, <1>3, <1>5, <1>6, <1>7 DEF Holds
<1>9. QED
  BY <1>3, <1>8 DEF ContentInvariant

-----------------------------------------------------------------------------
(* The invariant is one.                                                   *)

LEMMA ContentInitially == Init => ContentInvariant
<1> SUFFICES ASSUME Init PROVE ContentInvariant
  OBVIOUS
<1>1. /\ db = <<>> /\ session = [w \in Workers |-> Closed] /\ scan = [w \in Workers |-> Idle]
      /\ extracted = 0 /\ promised = {}
  BY DEF Init, NoRows
<1>2. DOMAIN <<>> = {} /\ <<>> = [k \in DOMAIN <<>> |-> <<>>[k]]
  OBVIOUS
<1>3. StoreFits(db)
  BY <1>1, <1>2, FS_EmptySet DEF StoreFits
<1>4. \A w \in Workers : /\ session[w] = Closed /\ scan[w] = Idle
                         /\ SessionFits(db, session[w]) /\ ScanFits(db, session[w], scan[w])
  BY <1>1, ClosedFits, IdleFits
<1>5. CommitRows(Closed.inserted) = {} /\ CommitRows(DOMAIN db) = {}
  BY <1>1, <1>2, ClosedFits DEF CommitRows
<1>6. Apart(db, session)
  BY <1>4, <1>5 DEF Apart
<1>7. SumFunctionOnSet(Counts(scan), Workers) = 0
  <2>1. \A w \in Workers : Counts(scan)[w] \in Nat /\ ~(Counts(scan)[w] > 0)
    BY <1>4, IdleFits DEF Counts
  <2>2. IsFiniteSet(Workers)
    BY ContentAssumption
  <2>3. /\ SumFunctionOnSet(Counts(scan), Workers) \in Nat
        /\ ~(SumFunctionOnSet(Counts(scan), Workers) > 0)
    BY <2>1, <2>2, SumType, SumPositive
  <2>4. QED
    BY <2>3
<1>8. Cardinality(CommitRows(DOMAIN db)) = 0
  BY <1>5, FS_EmptySet
<1>9. Holds(db, session, scan, extracted, promised)
  BY <1>1, <1>3, <1>4, <1>6, <1>7, <1>8 DEF Holds
<1>10. QED
  BY <1>9 DEF ContentInvariant

LEMMA ContentStep == ContentInvariant /\ [Next]_vars => ContentInvariant'
<1> SUFFICES ASSUME ContentInvariant, [Next]_vars PROVE ContentInvariant'
  OBVIOUS
<1>1. ASSUME NEW w \in Workers, NEW r \in Repos, BeginScan(w, r) PROVE ContentInvariant'
  BY <1>1, BeginScanStep
<1>2. ASSUME NEW w \in Workers, Fetch(w) PROVE ContentInvariant'
  BY <1>2, FetchStep
<1>3. ASSUME NEW w \in Workers, Lookup(w) PROVE ContentInvariant'
  BY <1>3, LookupStep
<1>4. ASSUME NEW w \in Workers, AddRow(w) PROVE ContentInvariant'
  BY <1>4, AddRowStep
<1>5. ASSUME NEW w \in Workers, SetRow(w) PROVE ContentInvariant'
  BY <1>5, SetRowStep
<1>6. ASSUME NEW w \in Workers, ReplaceVulnerabilities(w) PROVE ContentInvariant'
  BY <1>6, ReplaceStep
<1>7. ASSUME NEW w \in Workers, LinkReadme(w) PROVE ContentInvariant'
  BY <1>7, LinkReadmeStep
<1>8. ASSUME NEW w \in Workers, InsertRow(w) PROVE ContentInvariant'
  BY <1>8, InsertRowStep
<1>9. ASSUME NEW w \in Workers, Commit(w) PROVE ContentInvariant'
  BY <1>9, CommitStep
<1>10. ASSUME NEW w \in Workers, FinishScan(w) PROVE ContentInvariant'
  BY <1>10, FinishScanStep
<1>11. ASSUME NEW w \in Workers, RaiseError(w) \/ Conflict(w) PROVE ContentInvariant'
  <2>1. LoseBatch(w) /\ scan[w].at = "open"
    BY <1>11 DEF RaiseError, Conflict, Calls, Inserts
  <2>2. QED
    BY <2>1, LoseBatchStep
<1>12. ASSUME NEW w \in Workers, Deadlocked(w) PROVE ContentInvariant'
  <2>1. LoseBatch(w)
    BY <1>12 DEF Deadlocked
  <2>2. PICK ring \in SUBSET Workers : w \in ring /\ \A v \in ring : \E u \in ring : WaitsFor(v, u)
    BY <1>12 DEF Deadlocked
  <2>3. scan[w].at = "open"
    BY <2>2 DEF WaitsFor, Inserts
  <2>4. QED
    BY <2>1, <2>3, LoseBatchStep
<1>13. ASSUME NEW w \in Workers, CallFails(w) PROVE ContentInvariant'
  <2>1. LoseBatch(w) /\ scan[w].at = "fetch"
    BY <1>13 DEF CallFails
  <2>2. QED
    BY <2>1, LoseBatchStep
<1>14. ASSUME NEW w \in Workers, SoftLimit(w) PROVE ContentInvariant'
  BY <1>14, SoftLimitStep
<1>15. ASSUME NEW w \in Workers, Kill(w) PROVE ContentInvariant'
  BY <1>15, KillStep
<1>16. CASE UNCHANGED vars
  BY <1>16 DEF vars, ContentInvariant
<1>17. QED
  BY <1>1, <1>2, <1>3, <1>4, <1>5, <1>6, <1>7, <1>8, <1>9, <1>10, <1>11, <1>12, <1>13, <1>14, <1>15,
     <1>16 DEF Next, WorkerStep

\* However the extractions of workers interleave, and whatever fails, what an
\* open session has left to do makes known all that it promises.
THEOREM ContentHolds == Spec => []ContentInvariant
<1>1. QED
  BY ContentInitially, ContentStep, PTL DEF Spec

\* commits_extracted counts no commit twice and none that was rolled back,
\* for any number of workers and repositories and whatever the platform
\* lists: a commit is counted where it is added, and of two sessions that
\* add it one is made to wait and then to lose its batch.
THEOREM CommitsAddUp == Spec => []NoCommitCountedTwice
<1>1. ContentInvariant => NoCommitCountedTwice
  <2> SUFFICES ASSUME ContentInvariant PROVE NoCommitCountedTwice
    OBVIOUS
  <2>1. extracted + SumFunctionOnSet(Counts(scan), Workers) <= Cardinality(CommitRows(DOMAIN db))
    BY DEF ContentInvariant, Holds
  <2>2. RowsOf("commits") = CommitRows(DOMAIN db)
    BY DEF RowsOf, CommitRows
  <2>3. SumFunction([w \in Workers |-> scan[w].commits]) = SumFunctionOnSet(Counts(scan), Workers)
    BY DEF SumFunction, Counts
  <2>4. QED
    BY <2>1, <2>2, <2>3 DEF NoCommitCountedTwice
<1>2. QED
  BY <1>1, ContentHolds, PTL

\* No row refers to a row that is not committed, although a batch is flushed
\* piece by piece and may be lost between any two pieces.
THEOREM RowsReferToRows == Spec => []ReferencesHold
<1>1. ContentInvariant => ReferencesHold
  BY DEF ContentInvariant, Holds, StoreFits, Kept, ReferencesHold
<1>2. QED
  BY <1>1, ContentHolds, PTL

\* What an extraction that lost no batch was told of is stored when it has
\* finished, by itself or by whoever came first.
THEOREM AllListedIsStored == Spec => []ListedIsStored
<1>1. ContentInvariant => ListedIsStored
  BY DEF ContentInvariant, Holds, Kept, ListedIsStored
<1>2. QED
  BY <1>1, ContentHolds, PTL

-----------------------------------------------------------------------------
(* What lasts.                                                             *)

RowsStay == \A k \in DOMAIN db : Lasting(k) => k \in DOMAIN db'

\* A committed row is never removed, but for the vulnerabilities of a package,
\* which every scan that finds the package replaces.  A row may therefore be
\* looked up in one transaction and referred to in another, as the steps of
\* an extraction do with the project and the repository.
THEOREM RowsLast == Spec => [][RowsStay]_vars
<1>1. ASSUME ContentInvariant, NEW w \in Workers, Commit(w) PROVE RowsStay
  <2>1. \A k \in session[w].deleted : ~Lasting(k)
    BY <1>1 DEF ContentInvariant, Holds, SessionFits
  <2>2. DOMAIN db' = (DOMAIN db \ session[w].deleted) \cup DOMAIN session[w].rows
    BY <1>1 DEF Commit
  <2>3. QED
    BY <2>1, <2>2 DEF RowsStay
<1>2. ASSUME UNCHANGED db PROVE RowsStay
  BY <1>2 DEF RowsStay
<1>3. ContentInvariant /\ [Next]_vars => [RowsStay]_vars
  <2> SUFFICES ASSUME ContentInvariant, [Next]_vars PROVE RowsStay \/ UNCHANGED vars
    OBVIOUS
  <2>1. CASE \E w \in Workers : Commit(w)
    BY <1>1, <2>1
  <2>2. CASE ~\E w \in Workers : Commit(w)
    <3>1. CASE Next
      <4>1. \A w \in Workers : Lookup(w) \/ AddRow(w) \/ SetRow(w) \/ ReplaceVulnerabilities(w)
                               \/ LinkReadme(w) => UNCHANGED db
        BY DEF Lookup, AddRow, SetRow, ReplaceVulnerabilities, LinkReadme
      <4>2. \A w \in Workers : Fetch(w) \/ InsertRow(w) \/ FinishScan(w) \/ SoftLimit(w) \/ Kill(w)
                               \/ (\E r \in Repos : BeginScan(w, r)) => UNCHANGED db
        BY DEF Fetch, InsertRow, FinishScan, SoftLimit, Kill, BeginScan
      <4>3. \A w \in Workers : RaiseError(w) \/ Conflict(w) \/ Deadlocked(w) \/ CallFails(w)
                               => UNCHANGED db
        BY DEF RaiseError, Conflict, Deadlocked, CallFails, LoseBatch
      <4>4. UNCHANGED db
        BY <2>2, <3>1, <4>1, <4>2, <4>3 DEF Next, WorkerStep
      <4>5. RowsStay
        BY <1>2, <4>4
      <4>6. QED
        BY <4>5
    <3>2. QED
      BY <3>1
  <2>3. QED
    BY <2>1, <2>2
<1>4. QED
  BY <1>3, ContentHolds, PTL DEF Spec

-----------------------------------------------------------------------------
(* No technology is ever enriched.                                         *)

NothingIsEnriched == \A k \in DOMAIN db : k[1] # "technologies"

\* The session s of scan x has no technology among its rows, and has none to
\* come: an enrichment that has a call left has its exception left.
Spares(s, x) ==
  /\ \A k \in DOMAIN s.rows : k[1] # "technologies"
  /\ \A row \in ToSet(s.pending) : row[1][1] # "technologies"
  /\ x.at = "open" /\ StepOf(x) = "enrichment" => s.plan = <<>> \/ Head(s.plan).call = "raise"

NoTechnology == NothingIsEnriched /\ \A w \in Workers : Spares(session[w], scan[w])

LEMMA PlansSpared ==
  ASSUME NEW plan, NEW s, s = Session(plan), NEW x,
         x.at = "open" /\ StepOf(x) = "enrichment" => plan = <<>> \/ Head(plan).call = "raise"
  PROVE  Spares(s, x)
<1>1. s.rows = <<>> /\ s.pending = <<>> /\ s.plan = plan
  BY DEF Session, NoRows
<1>2. DOMAIN <<>> = {} /\ ToSet(<<>>) = {}
  BY DEF ToSet
<1>3. QED
  BY <1>1, <1>2 DEF Spares

LEMMA ClosedSpared == \A x : Spares(Closed, x)
<1>1. Closed = Session(<<>>)
  BY DEF Closed
<1>2. QED
  BY <1>1, PlansSpared

\* A call other than an exception is not made by an enrichment.
LEMMA CallSpared ==
  ASSUME ContentInvariant, NoTechnology, NEW w \in Workers, NEW name, name # "raise", Calls(w, name)
  PROVE  /\ StepOf(scan[w]) # "enrichment" /\ session = [v \in Workers |-> session[v]]
         /\ Head(session[w].plan).call = name /\ IsSession(session[w]) /\ IsList(session[w].pending)
         /\ CallFits(StepOf(scan[w]), Known(db, session[w]), Head(session[w].plan))
<1>1. /\ scan[w].at = "open" /\ session = [v \in Workers |-> session[v]]
      /\ Head(session[w].plan).call = name /\ IsSession(session[w]) /\ IsList(session[w].pending)
      /\ CallFits(StepOf(scan[w]), Known(db, session[w]), Head(session[w].plan))
  BY NextCall DEF SessionFits
<1>2. session[w].plan # <<>>
  BY DEF Calls
<1>3. QED
  BY <1>1, <1>2 DEF NoTechnology, Spares

\* A step of worker w.
LEMMA OneSpared ==
  ASSUME NoTechnology, NEW w \in Workers,
         \A v \in Workers : v # w => session'[v] = session[v] /\ scan'[v] = scan[v],
         Spares(session'[w], scan'[w]), NothingIsEnriched'
  PROVE  NoTechnology'
<1>1. ASSUME NEW v \in Workers PROVE Spares(session[v], scan[v])'
  <2>1. CASE v = w
    BY <2>1
  <2>2. CASE v # w
    <3>1. Spares(session[v], scan[v]) /\ session'[v] = session[v] /\ scan'[v] = scan[v]
      BY <2>2 DEF NoTechnology
    <3>2. QED
      BY <3>1
  <2>3. QED
    BY <2>1, <2>2
<1>2. QED
  BY <1>1 DEF NoTechnology

\* A session s becomes t: no technology joins its rows.
Joins(s, t) ==
  /\ \A k \in DOMAIN t.rows : k \in DOMAIN s.rows \/ k[1] # "technologies"
  /\ \A row \in ToSet(t.pending) : row \in ToSet(s.pending) \/ row[1][1] # "technologies"

\* A call of worker w that changes its rows and what it has added.
LEMMA CallSpares ==
  ASSUME ContentInvariant, NoTechnology, NEW w \in Workers, NEW name, name # "raise", Calls(w, name),
         UNCHANGED <<db, scan>>, \A v \in Workers : v # w => session'[v] = session[v],
         Joins(session[w], session'[w])
  PROVE  NoTechnology'
<1>1. StepOf(scan[w]) # "enrichment" /\ Spares(session[w], scan[w])
  BY CallSpared DEF NoTechnology
<1>2. Spares(session'[w], scan'[w])
  BY <1>1 DEF Spares, Joins
<1>3. NothingIsEnriched'
  BY DEF NoTechnology, NothingIsEnriched
<1>4. QED
  BY <1>2, <1>3, OneSpared

LEMMA LookupSpares ==
  ASSUME ContentInvariant, NoTechnology, NEW w \in Workers, Lookup(w)
  PROVE  NoTechnology'
<1>1. Calls(w, "lookup") /\ session = [v \in Workers |-> session[v]] /\ IsSession(session[w])
  BY CallSpared DEF Lookup
<1>2. /\ \A v \in Workers : v # w => session'[v] = session[v]
      /\ session'[w].rows = session[w].rows /\ session'[w].pending = session[w].pending
      /\ UNCHANGED <<db, scan>>
  BY <1>1 DEF Lookup, IsSession
<1>3. Joins(session[w], session'[w])
  BY <1>2 DEF Joins
<1>4. QED
  BY <1>1, <1>2, <1>3, CallSpares

LEMMA AddRowSpares ==
  ASSUME ContentInvariant, NoTechnology, NEW w \in Workers, AddRow(w)
  PROVE  NoTechnology'
<1> DEFINE s == session[w]
           c == Head(s.plan)
           e == <<c.key, c.value>>
           t == session'[w]
<1>0. Calls(w, "add")
  BY DEF AddRow
<1>1. /\ Calls(w, "add") /\ session = [v \in Workers |-> session[v]] /\ IsSession(s) /\ IsList(s.pending)
      /\ c.call = "add" /\ CallFits(StepOf(scan[w]), Known(db, s), c) /\ StepOf(scan[w]) # "enrichment"
  BY <1>0, CallSpared
<1>2. /\ \A v \in Workers : v # w => session'[v] = session[v]
      /\ t.rows = s.rows /\ t.pending = Queued(s.pending, e)
      /\ UNCHANGED <<db, scan>>
  BY <1>1 DEF AddRow, IsSession
<1>3. c.key[1] # "technologies"
  BY <1>1 DEF CallFits, Proper
<1>4. e[1] = c.key
  OBVIOUS
<1> HIDE DEF s, c, e, t
<1>5. ToSet(t.pending) = ToSet(s.pending) \cup {e}
  BY <1>1, <1>2, QueuedRows
<1>6. Joins(s, t)
  BY <1>2, <1>3, <1>4, <1>5 DEF Joins
<1>7. QED
  BY <1>1, <1>2, <1>6, CallSpares DEF s, t

LEMMA SetRowSpares ==
  ASSUME ContentInvariant, NoTechnology, NEW w \in Workers, SetRow(w)
  PROVE  NoTechnology'
<1> DEFINE s == session[w]
           c == Head(s.plan)
           t == session'[w]
<1>0. Calls(w, "set")
  BY DEF SetRow
<1>1. /\ Calls(w, "set") /\ session = [v \in Workers |-> session[v]] /\ IsSession(s)
      /\ c.call = "set" /\ CallFits(StepOf(scan[w]), Known(db, s), c) /\ StepOf(scan[w]) # "enrichment"
  BY <1>0, CallSpared
<1>2. /\ \A v \in Workers : v # w => session'[v] = session[v]
      /\ t.rows = With(s.rows, c.key, c.value) /\ t.pending = s.pending
      /\ UNCHANGED <<db, scan>>
  BY <1>1 DEF SetRow, IsSession
<1>3. c.key[1] # "technologies"
  BY <1>1 DEF CallFits, Proper
<1> HIDE DEF s, c, t
<1>4. DOMAIN t.rows = DOMAIN s.rows \cup {c.key}
  BY <1>2 DEF With
<1>5. Joins(s, t)
  BY <1>2, <1>3, <1>4 DEF Joins
<1>6. QED
  BY <1>1, <1>2, <1>5, CallSpares DEF s, t

LEMMA ReplaceSpares ==
  ASSUME ContentInvariant, NoTechnology, NEW w \in Workers, ReplaceVulnerabilities(w)
  PROVE  NoTechnology'
<1> DEFINE s == session[w]
           c == Head(s.plan)
           t == session'[w]
           n == Cardinality(c.cves)
           fresh == [v \in 1..n |-> <<VulnerabilityKey(c.package, SetToSeq(c.cves)[v], w),
                                      Of({PackageKey(c.package)})>>]
<1>0. Calls(w, "replace")
  BY DEF ReplaceVulnerabilities
<1>1. /\ Calls(w, "replace") /\ session = [v \in Workers |-> session[v]] /\ IsSession(s) /\ IsList(s.pending)
      /\ c.call = "replace" /\ CallFits(StepOf(scan[w]), Known(db, s), c)
  BY <1>0, CallSpared
<1>2. /\ \A v \in Workers : v # w => session'[v] = session[v]
      /\ t.rows = s.rows /\ t.pending = s.pending \o fresh
      /\ UNCHANGED <<db, scan>>
  BY <1>1 DEF ReplaceVulnerabilities, IsSession
<1>3. n \in Nat
  BY <1>1, FS_CardinalityType DEF CallFits
<1>4. \A v \in 1..n : fresh[v][1][1] # "technologies"
  BY DEF VulnerabilityKey
<1>5. IsList(fresh) /\ DOMAIN fresh = 1..n
  <2>1. fresh = [i \in 1..n |-> fresh[i]]
    OBVIOUS
  <2> HIDE DEF fresh, n
  <2>2. QED
    BY <1>3, <2>1, ListFunction
<1> HIDE DEF s, c, t, n, fresh
<1>6. \A row \in ToSet(fresh) : row[1][1] # "technologies"
  BY <1>4, <1>5 DEF ToSet
<1>7. ToSet(t.pending) = ToSet(s.pending) \cup ToSet(fresh)
  BY <1>1, <1>2, <1>5, Joined
<1>8. Joins(s, t)
  BY <1>2, <1>6, <1>7 DEF Joins
<1>9. QED
  BY <1>1, <1>2, <1>8, CallSpares DEF s, t

LEMMA LinkReadmeSpares ==
  ASSUME ContentInvariant, NoTechnology, NEW w \in Workers, LinkReadme(w)
  PROVE  NoTechnology'
<1> DEFINE s == session[w]
           c == Head(s.plan)
           t == session'[w]
           rows(path) == {k \in DOMAIN db \cup s.inserted :
                            k[1] = "readme_files" /\ k[2] = c.repo /\ k[3][1] = path}
           above == IF rows(c.readme.parent) = {} THEN {}
                    ELSE {CHOOSE k \in rows(c.readme.parent) : TRUE}
           row == Of({RepositoryKey(c.repo)} \cup above)
           old == rows(c.readme.path)
           stored == CHOOSE k \in old : TRUE
           new == ReadmeKey(c.repo, <<c.readme.path, w>>)
           e == <<new, row>>
<1>0. Calls(w, "link")
  BY DEF LinkReadme
<1>1. /\ Calls(w, "link") /\ session = [v \in Workers |-> session[v]] /\ IsSession(s) /\ IsList(s.pending)
  BY <1>0, CallSpared
<1>2. /\ \A v \in Workers : v # w => session'[v] = session[v]
      /\ t.rows = (IF old = {} THEN s.rows ELSE With(s.rows, stored, row))
      /\ t.pending = (IF old # {} THEN s.pending ELSE Append(s.pending, e))
      /\ UNCHANGED <<db, scan>>
  BY <1>1 DEF LinkReadme, IsSession
<1>3. e[1][1] = "readme_files"
  BY DEF ReadmeKey
<1>4. old # {} => stored[1] = "readme_files"
  <2>1. old # {} => stored \in old
    OBVIOUS
  <2>2. \A k \in old : k[1] = "readme_files"
    OBVIOUS
  <2> HIDE DEF old, stored
  <2>3. QED
    BY <2>1, <2>2
<1> HIDE DEF s, c, t, rows, above, row, old, stored, new, e
<1>5. ToSet(Append(s.pending, e)) = ToSet(s.pending) \cup {e}
  BY <1>1, Appended
<1>6. DOMAIN With(s.rows, stored, row) = DOMAIN s.rows \cup {stored}
  BY DEF With
<1>7. \A k \in DOMAIN t.rows : k \in DOMAIN s.rows \/ k[1] # "technologies"
  BY <1>2, <1>4, <1>6
<1>8. \A y \in ToSet(t.pending) : y \in ToSet(s.pending) \/ y[1][1] # "technologies"
  BY <1>2, <1>3, <1>5
<1>9. Joins(s, t)
  BY <1>7, <1>8 DEF Joins
<1>10. /\ Calls(w, "link") /\ UNCHANGED <<db, scan>>
       /\ \A v \in Workers : v # w => session'[v] = session[v]
  BY <1>0, <1>2
<1>11. Joins(session[w], session'[w])
  BY <1>9 DEF s, t
<1>12. QED
  BY <1>10, <1>11, CallSpares

LEMMA InsertRowSpares ==
  ASSUME ContentInvariant, NoTechnology, NEW w \in Workers, InsertRow(w)
  PROVE  NoTechnology'
<1> DEFINE s == session[w]
           t == session'[w]
           row == Head(s.pending)
<1>1. session = [v \in Workers |-> session[v]] /\ IsSession(s) /\ IsList(s.pending) /\ Spares(s, scan[w])
  BY DEF ContentInvariant, Holds, SessionFits, NoTechnology
<1>2. PICK j : /\ Inserts(w, j)
               /\ session' = [session EXCEPT
                               ![w].rows = With(@, j, Head(session[w].pending)[2]),
                               ![w].inserted = @ \cup {j},
                               ![w].pending = Tail(@),
                               ![w].flushing = @ /\ Len(session[w].pending) > 1]
  BY DEF InsertRow
<1>3. j = row[1] /\ s.pending # <<>>
  BY <1>2 DEF Inserts
<1>4. /\ \A v \in Workers : v # w => session'[v] = session[v]
      /\ t.plan = s.plan /\ t.rows = With(s.rows, row[1], row[2]) /\ t.pending = Tail(s.pending)
  <2>1. /\ \A v \in Workers : v # w => session'[v] = session[v]
        /\ t = [s EXCEPT !.rows = With(s.rows, j, row[2]), !.inserted = s.inserted \cup {j},
                         !.pending = Tail(s.pending),
                         !.flushing = s.flushing /\ Len(s.pending) > 1]
    BY <1>1, <1>2
  <2>2. IsSession(s) /\ j = row[1]
    BY <1>1, <1>3
  <2> HIDE DEF s, t, row
  <2>3. t.plan = s.plan /\ t.rows = With(s.rows, row[1], row[2]) /\ t.pending = Tail(s.pending)
    BY <2>1, <2>2 DEF IsSession
  <2>4. QED
    BY <2>1, <2>3
<1>5. UNCHANGED <<db, scan>>
  BY DEF InsertRow
<1> HIDE DEF s, t, row
<1>6. ToSet(s.pending) = ToSet(t.pending) \cup {row}
  BY <1>1, <1>3, <1>4, Behead DEF row
<1>7. DOMAIN t.rows = DOMAIN s.rows \cup {row[1]}
  BY <1>4 DEF With
<1>8. Spares(t, scan[w])
  BY <1>1, <1>4, <1>6, <1>7 DEF Spares
<1>9. NothingIsEnriched'
  BY <1>5 DEF NoTechnology, NothingIsEnriched
<1>10. QED
  BY <1>4, <1>5, <1>8, <1>9, OneSpared DEF t

LEMMA CommitSpares ==
  ASSUME ContentInvariant, NoTechnology, NEW w \in Workers, Commit(w)
  PROVE  NoTechnology'
<1>1. /\ session = [v \in Workers |-> session[v]] /\ scan = [v \in Workers |-> scan[v]]
      /\ Spares(session[w], scan[w])
  BY DEF ContentInvariant, Holds, NoTechnology
<1>2. /\ \A v \in Workers : v # w => session'[v] = session[v] /\ scan'[v] = scan[v]
      /\ session'[w] = Closed
      /\ DOMAIN db' = (DOMAIN db \ session[w].deleted) \cup DOMAIN session[w].rows
  BY <1>1 DEF Commit
<1>3. NothingIsEnriched'
  BY <1>1, <1>2 DEF NoTechnology, NothingIsEnriched, Spares
<1>4. QED
  BY <1>2, <1>3, ClosedSpared, OneSpared

LEMMA FetchSpares ==
  ASSUME ContentInvariant, NoTechnology, NEW w \in Workers, Fetch(w)
  PROVE  NoTechnology'
<1> DEFINE x == scan[w]
           r == x.repo
           step == StepOf(x)
           y == scan'[w]
           t == session'[w]
<1>0. Step(w) = step
  BY DEF Step, Steps, StepOf
<1>1. /\ session = [v \in Workers |-> session[v]] /\ scan = [v \in Workers |-> scan[v]]
      /\ IsScan(x) /\ IsList(x.entries)
  BY DEF ContentInvariant, Holds, ScanFits
<1>2. PICK items :
        /\ session' = [session EXCEPT ![w] = Session(Plan(r, step, items, x.entries))]
        /\ scan' = [scan EXCEPT ![w].at = "open",
                                ![w].asked = @ \cup Asked(r, step, items),
                                ![w].entries = IF step \in {"detections", "technologies"}
                                               THEN items ELSE @]
  BY <1>0 DEF Fetch
<1>3. /\ \A v \in Workers : v # w => session'[v] = session[v] /\ scan'[v] = scan[v]
      /\ t = Session(Plan(r, step, items, x.entries))
      /\ y.repo = r /\ y.step = x.step /\ UNCHANGED db
  BY <1>1, <1>2 DEF Fetch, IsScan
<1>4. StepOf(y) = step
  BY <1>3 DEF StepOf
<1> DEFINE plan == Plan(r, step, items, x.entries)
<1>5. step = "enrichment" => plan = <<>> \/ Head(plan).call = "raise"
  <2>1. ASSUME step = "enrichment" PROVE plan = ProcessEnrichment(x.entries)
    BY <2>1 DEF Plan, GitHubPlan, AzurePlan
  <2>2. Raise.call = "raise"
    BY DEF Raise
  <2>3. \A q : IsList(q) => Head(<<Raise>> \o q) = Raise
    BY OneList, ListConcat
  <2> HIDE DEF plan, x, step
  <2>4. QED
    BY <1>1, <2>1, <2>2, <2>3, EnrichmentIs
<1> HIDE DEF plan, x, y, t, r, step
<1>6. Spares(t, y)
  BY <1>3, <1>4, <1>5, PlansSpared DEF plan
<1>7. NothingIsEnriched'
  BY <1>3 DEF NoTechnology, NothingIsEnriched
<1>8. QED
  BY <1>3, <1>6, <1>7, OneSpared DEF t, y

\* The worker's session is closed, or it begins or ends an extraction.
LEMMA OutsideSpares ==
  ASSUME ContentInvariant, NoTechnology, NEW w \in Workers,
         \/ \E r \in Repos : BeginScan(w, r)
         \/ FinishScan(w) \/ LoseBatch(w) \/ SoftLimit(w) \/ Kill(w)
  PROVE  NoTechnology'
<1>1. session = [v \in Workers |-> session[v]] /\ scan = [v \in Workers |-> scan[v]]
  BY DEF ContentInvariant, Holds
<1>2. UNCHANGED db
  BY DEF BeginScan, FinishScan, LoseBatch, SoftLimit, Kill
<1>3. \A v \in Workers : v # w => session'[v] = session[v] /\ scan'[v] = scan[v]
  BY <1>1 DEF BeginScan, FinishScan, LoseBatch, SoftLimit, Kill
<1>4. session'[w] = Closed
  <2>1. CASE LoseBatch(w) \/ SoftLimit(w) \/ Kill(w)
    BY <1>1, <2>1 DEF LoseBatch, SoftLimit, Kill
  <2>2. CASE FinishScan(w) \/ \E r \in Repos : BeginScan(w, r)
    <3>1. scan[w].at # "open" /\ UNCHANGED session
      BY <2>2 DEF FinishScan, BeginScan
    <3>2. QED
      BY <3>1 DEF ContentInvariant, Holds, ScanFits
  <2>3. QED
    BY <2>1, <2>2
<1>5. NothingIsEnriched'
  BY <1>2 DEF NoTechnology, NothingIsEnriched
<1>6. QED
  BY <1>3, <1>4, <1>5, ClosedSpared, OneSpared

LEMMA TechnologyStep == ContentInvariant /\ NoTechnology /\ [Next]_vars => NoTechnology'
<1> SUFFICES ASSUME ContentInvariant, NoTechnology, [Next]_vars PROVE NoTechnology'
  OBVIOUS
<1>1. ASSUME NEW w \in Workers, \/ \E r \in Repos : BeginScan(w, r)
                                \/ FinishScan(w) \/ LoseBatch(w) \/ SoftLimit(w) \/ Kill(w)
      PROVE  NoTechnology'
  BY <1>1, OutsideSpares
<1>2. ASSUME NEW w \in Workers, RaiseError(w) \/ Conflict(w) \/ Deadlocked(w) \/ CallFails(w)
      PROVE  LoseBatch(w)
  BY <1>2 DEF RaiseError, Conflict, Deadlocked, CallFails
<1>3. ASSUME NEW w \in Workers, Fetch(w) PROVE NoTechnology'
  BY <1>3, FetchSpares
<1>4. ASSUME NEW w \in Workers, Lookup(w) PROVE NoTechnology'
  BY <1>4, LookupSpares
<1>5. ASSUME NEW w \in Workers, AddRow(w) PROVE NoTechnology'
  BY <1>5, AddRowSpares
<1>6. ASSUME NEW w \in Workers, SetRow(w) PROVE NoTechnology'
  BY <1>6, SetRowSpares
<1>7. ASSUME NEW w \in Workers, ReplaceVulnerabilities(w) PROVE NoTechnology'
  BY <1>7, ReplaceSpares
<1>8. ASSUME NEW w \in Workers, LinkReadme(w) PROVE NoTechnology'
  BY <1>8, LinkReadmeSpares
<1>9. ASSUME NEW w \in Workers, InsertRow(w) PROVE NoTechnology'
  BY <1>9, InsertRowSpares
<1>10. ASSUME NEW w \in Workers, Commit(w) PROVE NoTechnology'
  BY <1>10, CommitSpares
<1>11. CASE UNCHANGED vars
  BY <1>11 DEF vars, NoTechnology, NothingIsEnriched
<1>12. QED
  BY <1>1, <1>2, <1>3, <1>4, <1>5, <1>6, <1>7, <1>8, <1>9, <1>10, <1>11 DEF Next, WorkerStep

\* The technologies detected in a repository never get their end-of-life
\* dates from an extraction, whatever is listed and whoever runs: the
\* enrichment reads the detections of a session that has closed and raises
\* before it stores anything.  (DetectedAreEnriched therefore fails wherever
\* anything is detected.)
THEOREM EnrichmentStoresNothing == Spec => []NothingIsEnriched
<1>1. Init => NoTechnology
  <2> SUFFICES ASSUME Init PROVE NoTechnology
    OBVIOUS
  <2>1. DOMAIN db = {}
    BY DEF Init, NoRows
  <2>2. \A w \in Workers : session[w] = Closed
    BY DEF Init
  <2>3. QED
    BY <2>1, <2>2, ClosedSpared DEF NoTechnology, NothingIsEnriched
<1>2. ContentInvariant /\ NoTechnology /\ [Next]_vars => NoTechnology'
  BY TechnologyStep
<1>3. NoTechnology => NothingIsEnriched
  BY DEF NoTechnology
<1>4. QED
  BY <1>1, <1>2, <1>3, ContentHolds, PTL DEF Spec

=============================================================================
