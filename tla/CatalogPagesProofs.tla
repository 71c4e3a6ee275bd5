-------------------------- MODULE CatalogPagesProofs --------------------------
(***************************************************************************)
(* Proofs about CatalogPages, for any number of clients, catalogs,         *)
(* policies, page sizes and cursors.                                       *)
(*                                                                         *)
(* What a client has listed is what the policy leaves of a beginning of    *)
(* its catalog, and whatever its cursor leads to continues there: a        *)
(* gateway cursor leads to a bridge cursor by its id, ids are never given  *)
(* twice, and a bridge cursor carries the catalog it was cut from.         *)
(***************************************************************************)
EXTENDS CatalogPages, FiniteSetTheorems, SequenceTheorems, WellFoundedInduction, TLAPS

(* Most leaves are first-order: Zenon takes them.  A leaf that needs       *)
(* arithmetic or the theory of functions and sequences cites SMT.          *)
USE Zenon

-------------------------------------------------------------------------------
(* What the loop over a page's models computes.  Induction is by a least   *)
(* counterexample.                                                         *)

LEMMA LeastNumber ==
  ASSUME NEW T, T \subseteq Nat, T # {}
  PROVE  \E n \in T : \A m \in T : n <= m
  <1> DEFINE R == OpToRel(<, Nat)
  <1>1. IsWellFoundedOn(R, Nat)
    BY NatLessThanWellFounded
  <1>2. \A x, y \in Nat : x < y => <<x, y>> \in R
    BY DEF OpToRel
  <1> HIDE DEF R
  <1>3. PICK x \in T : \A y \in T : ~(<<y, x>> \in R)
    BY <1>1, WFMin
  <1>4. \A y \in T : ~(y < x)
    BY <1>2, <1>3
  <1> QED
    BY <1>4, SMT

(* The loop has a step for every model. *)
Keeps(p, data, k, kept) ==
    kept = [n \in 0 .. k |-> IF n = 0 THEN <<>> ELSE Keep(p, kept[n - 1], data[n])]

LEMMA KeepsExists ==
  ASSUME NEW p, NEW data, NEW k \in Nat
  PROVE  \E kept : Keeps(p, data, k, kept)
  <1> DEFINE B == {m \in Nat : ~ \E kept : Keeps(p, data, m, kept)}
  <1> SUFFICES ASSUME B # {} PROVE FALSE
    OBVIOUS
  <1>1. PICK n \in B : \A m \in B : n <= m
    BY LeastNumber
  <1>2. n # 0
    <2>1. Keeps(p, data, 0, [m \in 0 .. 0 |-> <<>>])
      BY SMT DEF Keeps
    <2> QED
      BY <2>1
  <1>3. n - 1 \in Nat /\ ~(n <= n - 1)
    BY <1>2, SMT
  <1>4. PICK kept : Keeps(p, data, n - 1, kept)
    BY <1>1, <1>3
  <1> DEFINE more == [m \in 0 .. n |-> IF m < n THEN kept[m] ELSE Keep(p, kept[n - 1], data[n])]
  <1>5. Keeps(p, data, n, more)
    BY <1>3, <1>4, SMT DEF Keeps
  <1> QED
    BY <1>5

LEMMA AllowedIsKept ==
  ASSUME NEW p, NEW data, Len(data) \in Nat
  PROVE  \E kept : Keeps(p, data, Len(data), kept) /\ Allowed(p, data) = kept[Len(data)]
  <1>1. \E kept : Keeps(p, data, Len(data), kept)
    BY KeepsExists
  <1> QED
    BY <1>1 DEF Allowed, Keeps

LEMMA AllowedEmpty ==
  ASSUME NEW p
  PROVE  Allowed(p, <<>>) = <<>>
  <1>1. Len(<<>>) = 0
    BY SMT
  <1>2. PICK kept : Keeps(p, <<>>, 0, kept) /\ Allowed(p, <<>>) = kept[0]
    BY <1>1, AllowedIsKept, SMT
  <1> QED
    BY <1>2, SMT DEF Keeps

(* One more model is one more step. *)
LEMMA AllowedAppend ==
  ASSUME NEW p, NEW S, NEW data \in Seq(S), NEW m \in S
  PROVE  Allowed(p, Append(data, m)) = Keep(p, Allowed(p, data), m)
  <1> DEFINE long == Append(data, m)
             k == Len(data)
  <1>1. k \in Nat /\ Len(long) = k + 1 /\ long[k + 1] = m /\ k <= k + 1 /\ k + 1 \in Nat
    BY SMT
  <1>2. \A i \in 1 .. k : data[i] = long[i]
    BY SMT
  <1> HIDE DEF long, k
  <1>3. PICK f : Keeps(p, data, k, f) /\ Allowed(p, data) = f[k]
    BY <1>1, AllowedIsKept DEF k
  <1>4. PICK g : Keeps(p, long, k + 1, g) /\ Allowed(p, long) = g[k + 1]
    BY <1>1, AllowedIsKept
  <1>5. f[k] = g[k]
    <2> DEFINE B == {i \in 0 .. k : f[i] # g[i]}
    <2> SUFFICES ASSUME B # {} PROVE FALSE
      BY <1>1, SMT
    <2>1. B \subseteq Nat
      BY <1>1, SMT
    <2>2. PICK n \in B : \A i \in B : n <= i
      BY <2>1, LeastNumber
    <2>3. n # 0
      BY <1>1, <1>3, <1>4, SMT DEF Keeps
    <2>4. n - 1 \in 0 .. k /\ n \in 1 .. k /\ n \in 0 .. k + 1 /\ ~(n <= n - 1)
      BY <1>1, <2>3, SMT
    <2>5. f[n - 1] = g[n - 1] /\ data[n] = long[n]
      BY <1>2, <2>2, <2>4
    <2>6. f[n] = Keep(p, f[n - 1], data[n])
      BY <1>3, <2>3 DEF Keeps
    <2>7. g[n] = Keep(p, g[n - 1], long[n])
      BY <1>4, <2>3, <2>4 DEF Keeps
    <2> QED
      BY <2>5, <2>6, <2>7
  <1>6. g[k + 1] = Keep(p, g[k], m)
    <2>1. k + 1 \in 0 .. k + 1 /\ k + 1 # 0 /\ (k + 1) - 1 = k
      BY <1>1, SMT
    <2>2. g[k + 1] = Keep(p, g[(k + 1) - 1], long[k + 1])
      BY <2>1, <1>4 DEF Keeps
    <2> QED
      BY <2>1, <2>2, <1>1
  <1> QED
    BY <1>3, <1>4, <1>5, <1>6 DEF long

(* What a policy may leave of the models of S. *)
Shown(p, S) == {Restricted(p, m) : m \in S}

LEMMA KeepFacts ==
  ASSUME NEW p, NEW S, NEW m \in S, NEW models \in Seq(Shown(p, S))
  PROVE  /\ Keep(p, models, m) \in Seq(Shown(p, S))
         /\ Range(Keep(p, models, m)) =
                Range(models) \cup {x \in {Restricted(p, m)} : x.efforts # {}}
  <1> DEFINE r == Restricted(p, m)
             T == Shown(p, S)
  <1>1. r \in T
    BY DEF Shown
  <1>2. Keep(p, models, m) = IF r.efforts = {} THEN models ELSE Append(models, r)
    BY DEF Keep
  <1> HIDE DEF r, T
  <1>3. Append(models, r) \in Seq(T)
    BY <1>1, SMT DEF T
  <1>4. Range(Append(models, r)) = Range(models) \cup {r}
    <2>1. /\ DOMAIN models = 1 .. Len(models) /\ Len(models) \in Nat
          /\ DOMAIN Append(models, r) = 1 .. Len(models) + 1
          /\ \A i \in 1 .. Len(models) : Append(models, r)[i] = models[i]
          /\ Append(models, r)[Len(models) + 1] = r
      BY <1>1, SMT DEF T
    <2>2. \A i \in 1 .. Len(models) + 1 : i \in 1 .. Len(models) \/ i = Len(models) + 1
      BY <2>1, SMT
    <2>3. \A i \in 1 .. Len(models) : i \in 1 .. Len(models) + 1
      BY <2>1, SMT
    <2>4. Len(models) + 1 \in 1 .. Len(models) + 1
      BY <2>1, SMT
    <2> QED
      BY <2>1, <2>2, <2>3, <2>4 DEF Range
  <1>5. CASE r.efforts = {}
    <2>1. {x \in {r} : x.efforts # {}} = {}
      BY <1>5
    <2> QED
      BY <2>1, <1>2, <1>5 DEF T, r
  <1>6. CASE r.efforts # {}
    <2>1. {x \in {r} : x.efforts # {}} = {r}
      BY <1>6
    <2> QED
      BY <2>1, <1>2, <1>3, <1>4, <1>6 DEF T, r
  <1> QED
    BY <1>5, <1>6

LEMMA KeepConcat ==
  ASSUME NEW p, NEW S, NEW m \in S,
         NEW first \in Seq(Shown(p, S)), NEW models \in Seq(Shown(p, S))
  PROVE  Keep(p, first \o models, m) = first \o Keep(p, models, m)
  <1> DEFINE r == Restricted(p, m)
             T == Shown(p, S)
  <1>1. r \in T
    BY DEF Shown
  <1>2. \A x : Keep(p, x, m) = IF r.efforts = {} THEN x ELSE Append(x, r)
    BY DEF Keep
  <1> HIDE DEF r, T
  <1>3. Append(first \o models, r) = first \o Append(models, r)
    BY <1>1, SMT DEF T
  <1> QED
    BY <1>2, <1>3

LEMMA SubSeqStep ==
  ASSUME NEW S, NEW data \in Seq(S), NEW k \in 0 .. Len(data), NEW j \in k + 1 .. Len(data)
  PROVE  /\ SubSeq(data, k + 1, j) = Append(SubSeq(data, k + 1, j - 1), data[j])
         /\ SubSeq(data, k + 1, j - 1) \in Seq(S) /\ data[j] \in S
         /\ j - 1 \in k .. Len(data) /\ ~(j <= j - 1)
  <1>1. SubSeq(data, k + 1, j - 1) \in Seq(S) /\ data[j] \in S
    BY SMT
  <1>2. SubSeq(data, k + 1, j) = Append(SubSeq(data, k + 1, j - 1), data[j])
    BY SMT
  <1>3. j - 1 \in k .. Len(data) /\ ~(j <= j - 1)
    BY SMT
  <1> QED
    BY <1>1, <1>2, <1>3

Surviving(p, data, k, j) ==
    {x \in {Restricted(p, data[i]) : i \in k .. j} : x.efforts # {}}

(* What the policy leaves of a page are the models of the page that keep   *)
(* an effort.                                                              *)
LEMMA AllowedFacts ==
  ASSUME NEW p, NEW S, NEW data \in Seq(S), NEW k \in 0 .. Len(data), NEW j \in k .. Len(data)
  PROVE  /\ Allowed(p, SubSeq(data, k + 1, j)) \in Seq(Shown(p, S))
         /\ Range(Allowed(p, SubSeq(data, k + 1, j))) = Surviving(p, data, k + 1, j)
  <1> DEFINE Good(n) ==
                /\ Allowed(p, SubSeq(data, k + 1, n)) \in Seq(Shown(p, S))
                /\ Range(Allowed(p, SubSeq(data, k + 1, n))) = Surviving(p, data, k + 1, n)
             B == {n \in k .. Len(data) : ~Good(n)}
  <1> SUFFICES ASSUME B # {} PROVE FALSE
    OBVIOUS
  <1> HIDE DEF Good
  <1>1. Len(data) \in Nat /\ k \in Nat /\ B \subseteq Nat
    BY SMT
  <1>2. PICK n \in B : \A m \in B : n <= m
    BY <1>1, LeastNumber
  <1>3. n # k
    <2>1. SubSeq(data, k + 1, k) = <<>> /\ k + 1 .. k = {}
      BY SMT
    <2>2. <<>> \in Seq(Shown(p, S)) /\ Range(<<>>) = {}
      <3>1. <<>> \in Seq(Shown(p, S)) /\ DOMAIN <<>> = {}
        BY SMT
      <3> QED
        BY <3>1 DEF Range
    <2>3. Good(k)
      BY <2>1, <2>2, AllowedEmpty DEF Good, Surviving
    <2> QED
      BY <2>3
  <1>4. n \in k + 1 .. Len(data)
    BY <1>1, <1>3, SMT
  <1> DEFINE page == SubSeq(data, k + 1, n - 1)
  <1>5. /\ SubSeq(data, k + 1, n) = Append(page, data[n])
        /\ page \in Seq(S) /\ data[n] \in S
        /\ n - 1 \in k .. Len(data) /\ ~(n <= n - 1)
    BY <1>4, SubSeqStep
  <1>6. Good(n - 1)
    BY <1>2, <1>5
  <1> HIDE DEF page
  <1>7. Allowed(p, SubSeq(data, k + 1, n)) = Keep(p, Allowed(p, page), data[n])
    <2>1. Allowed(p, Append(page, data[n])) = Keep(p, Allowed(p, page), data[n])
      BY <1>5, AllowedAppend
    <2> QED
      BY <2>1, <1>5
  <1>8. /\ Keep(p, Allowed(p, page), data[n]) \in Seq(Shown(p, S))
        /\ Range(Keep(p, Allowed(p, page), data[n])) =
                Range(Allowed(p, page)) \cup {x \in {Restricted(p, data[n])} : x.efforts # {}}
    BY <1>5, <1>6, KeepFacts DEF Good, page
  <1>9. k + 1 .. n = (k + 1 .. n - 1) \cup {n}
    BY <1>1, <1>4, SMT
  <1>10. Good(n)
    <2>1. Range(Allowed(p, page)) = Surviving(p, data, k + 1, n - 1)
      BY <1>6 DEF Good, page
    <2>2. Surviving(p, data, k + 1, n) =
            Surviving(p, data, k + 1, n - 1)
            \cup {x \in {Restricted(p, data[n])} : x.efforts # {}}
      BY <1>9 DEF Surviving
    <2> QED
      BY <2>1, <2>2, <1>7, <1>8 DEF Good
  <1> QED
    BY <1>10

LEMMA AllowedBeginning ==
  ASSUME NEW p, NEW S, NEW data \in Seq(S), NEW j \in 0 .. Len(data)
  PROVE  /\ Allowed(p, SubSeq(data, 1, j)) \in Seq(Shown(p, S))
         /\ Range(Allowed(p, SubSeq(data, 1, j))) = Surviving(p, data, 1, j)
  <1>1. 0 \in 0 .. Len(data) /\ 0 + 1 = 1
    BY SMT
  <1>2. /\ Allowed(p, SubSeq(data, 0 + 1, j)) \in Seq(Shown(p, S))
        /\ Range(Allowed(p, SubSeq(data, 0 + 1, j))) = Surviving(p, data, 0 + 1, j)
    BY <1>1, AllowedFacts
  <1> QED
    BY <1>1, <1>2

(* A page more: what the policy leaves of two adjacent pieces of a catalog *)
(* is, together, what it leaves of both.                                   *)
LEMMA AllowedAdjacent ==
  ASSUME NEW p, NEW S, NEW data \in Seq(S), NEW k \in 0 .. Len(data), NEW j \in k .. Len(data)
  PROVE  Allowed(p, SubSeq(data, 1, j)) =
            Allowed(p, SubSeq(data, 1, k)) \o Allowed(p, SubSeq(data, k + 1, j))
  <1> DEFINE Good(n) == Allowed(p, SubSeq(data, 1, n)) =
                Allowed(p, SubSeq(data, 1, k)) \o Allowed(p, SubSeq(data, k + 1, n))
             B == {n \in k .. Len(data) : ~Good(n)}
  <1> SUFFICES ASSUME B # {} PROVE FALSE
    OBVIOUS
  <1> HIDE DEF Good
  <1>1. /\ Len(data) \in Nat /\ k \in Nat /\ B \subseteq Nat
        /\ 0 \in 0 .. Len(data) /\ 0 + 1 = 1 /\ k \in 0 .. Len(data)
    BY SMT
  <1>2. PICK n \in B : \A m \in B : n <= m
    BY <1>1, LeastNumber
  <1>3. Allowed(p, SubSeq(data, 1, k)) \in Seq(Shown(p, S))
    BY <1>1, AllowedBeginning
  <1>4. n # k
    <2>1. SubSeq(data, k + 1, k) = <<>>
      BY SMT
    <2>2. Allowed(p, SubSeq(data, 1, k)) \o <<>> = Allowed(p, SubSeq(data, 1, k))
      BY <1>3, SMT
    <2>3. Good(k)
      BY <2>1, <2>2, AllowedEmpty DEF Good
    <2> QED
      BY <2>3
  <1>5. n \in k + 1 .. Len(data) /\ n \in 0 + 1 .. Len(data)
    BY <1>1, <1>4, SMT
  <1> DEFINE page == SubSeq(data, k + 1, n - 1)
             begin == SubSeq(data, 1, n - 1)
  <1>6. /\ SubSeq(data, k + 1, n) = Append(page, data[n])
        /\ page \in Seq(S) /\ data[n] \in S
        /\ n - 1 \in k .. Len(data) /\ ~(n <= n - 1)
    BY <1>5, SubSeqStep
  <1>7. SubSeq(data, 1, n) = Append(begin, data[n]) /\ begin \in Seq(S)
    BY <1>1, <1>5, SubSeqStep
  <1>8. Good(n - 1)
    BY <1>2, <1>6
  <1>9. Allowed(p, page) \in Seq(Shown(p, S))
    BY <1>6, AllowedFacts
  <1> HIDE DEF page, begin
  <1>10. /\ Allowed(p, Append(page, data[n])) = Keep(p, Allowed(p, page), data[n])
         /\ Allowed(p, Append(begin, data[n])) = Keep(p, Allowed(p, begin), data[n])
    <2>1. page \in Seq(S) /\ begin \in Seq(S) /\ data[n] \in S
      BY <1>6, <1>7
    <2>2. Allowed(p, Append(page, data[n])) = Keep(p, Allowed(p, page), data[n])
      BY <2>1, AllowedAppend
    <2>3. Allowed(p, Append(begin, data[n])) = Keep(p, Allowed(p, begin), data[n])
      BY <2>1, AllowedAppend
    <2> QED
      BY <2>2, <2>3
  <1>11. Keep(p, Allowed(p, SubSeq(data, 1, k)) \o Allowed(p, page), data[n]) =
            Allowed(p, SubSeq(data, 1, k)) \o Keep(p, Allowed(p, page), data[n])
    <2> DEFINE a == Allowed(p, SubSeq(data, 1, k))
               b == Allowed(p, page)
               m == data[n]
    <2>1. m \in S /\ a \in Seq(Shown(p, S)) /\ b \in Seq(Shown(p, S))
      BY <1>3, <1>6, <1>9
    <2> HIDE DEF a, b, m
    <2>2. Keep(p, a \o b, m) = a \o Keep(p, b, m)
      BY <2>1, KeepConcat, SMT
    <2> QED
      BY <2>2 DEF a, b, m
  <1>12. Allowed(p, begin) = Allowed(p, SubSeq(data, 1, k)) \o Allowed(p, page)
    BY <1>8 DEF Good, begin, page
  <1>13. Good(n)
    <2>1. /\ SubSeq(data, k + 1, n) = Append(page, data[n])
          /\ SubSeq(data, 1, n) = Append(begin, data[n])
      BY <1>6, <1>7
    <2> QED
      BY <2>1, <1>10, <1>11, <1>12 DEF Good
  <1> QED
    BY <1>13

-------------------------------------------------------------------------------
(* The maps.                                                               *)

LEMMA ImageFinite ==
  ASSUME NEW S, IsFiniteSet(S), NEW f
  PROVE  IsFiniteSet({f[x] : x \in S})
  <1> DEFINE T == {f[x] : x \in S}
             g == [x \in S |-> f[x]]
  <1>1. g \in Surjection(S, T)
    BY DEF Surjection
  <1> HIDE DEF g, T
  <1>2. IsFiniteSet(T)
    BY <1>1, FS_Surjection
  <1> QED
    BY <1>2 DEF T

(* There is always an id that is not in use. *)
LEMMA FreshUnused ==
  ASSUME NEW used, IsFiniteSet(used)
  PROVE  Fresh(used) \in Nat \ used
  <1> DEFINE n == Cardinality(used)
             ids == 1 .. n + 1
  <1>1. n \in Nat
    BY FS_CardinalityType
  <1>2. 1 \in Int /\ n + 1 \in Int
    BY <1>1, SMT
  <1>3. Cardinality(ids) = n + 1
    <2>1. \A b \in Int : Cardinality(1 .. b) = IF 1 > b THEN 0 ELSE b - 1 + 1
      BY <1>2, FS_Interval
    <2>2. Cardinality(ids) = IF 1 > n + 1 THEN 0 ELSE (n + 1) - 1 + 1
      BY <2>1, <1>2
    <2> HIDE DEF ids, n
    <2> QED
      BY <2>2, <1>1, SMT
  <1>4. ~(ids \subseteq used)
    <2> SUFFICES ASSUME ids \in SUBSET used PROVE FALSE
      OBVIOUS
    <2>1. Cardinality(ids) <= n
      BY FS_Subset
    <2> QED
      BY <2>1, <1>1, <1>3, SMT
  <1>5. ids \subseteq Nat
    BY <1>1, SMT
  <1>6. \E id \in ids : id \notin used
    BY <1>4
  <1>7. Fresh(used) \in ids /\ Fresh(used) \notin used
    BY <1>6 DEF Fresh
  <1> QED
    BY <1>5, <1>7

(* An insertion leaves a map within its bound, and under another id at     *)
(* most what was there.                                                    *)
LEMMA InsertedFacts ==
  ASSUME NEW map, IsFiniteSet(map), Cardinality(map) <= MaxCursors, NEW entry,
         NEW after \in Inserted(map, entry)
  PROVE  /\ IsFiniteSet(after) /\ Cardinality(after) <= MaxCursors
         /\ after \subseteq map \cup {entry}
         /\ \A id : id # entry.id => Entry(after, id) \subseteq Entry(map, id)
  <1>1. Cardinality(map) \in Nat /\ MaxCursors \in Nat \ {0}
    BY FS_CardinalityType, CatalogAssumption
  <1>2. after \subseteq map \cup {entry}
    BY DEF Inserted
  <1>3. \A id : id # entry.id => Entry(after, id) \subseteq Entry(map, id)
    BY <1>2 DEF Entry
  <1>4. CASE Cardinality(map) >= MaxCursors
    <2>1. PICK old \in map : after = (map \ {old}) \cup {entry}
      BY <1>4 DEF Inserted
    <2> DEFINE rest == map \ {old}
    <2>2. IsFiniteSet(rest) /\ Cardinality(rest) = Cardinality(map) - 1
      BY FS_RemoveElement
    <2> HIDE DEF rest
    <2>3. /\ IsFiniteSet(rest \cup {entry})
          /\ Cardinality(rest \cup {entry}) =
                IF entry \in rest THEN Cardinality(rest) ELSE Cardinality(rest) + 1
      BY <2>2, FS_AddElement
    <2>4. Cardinality(rest \cup {entry}) <= MaxCursors
      BY <2>2, <2>3, <1>1, SMT
    <2> QED
      BY <2>1, <2>3, <2>4, <1>2, <1>3 DEF rest
  <1>5. CASE ~(Cardinality(map) >= MaxCursors)
    <2>1. after = map \cup {entry}
      BY <1>5 DEF Inserted
    <2>2. /\ IsFiniteSet(map \cup {entry})
          /\ Cardinality(map \cup {entry}) =
                IF entry \in map THEN Cardinality(map) ELSE Cardinality(map) + 1
      BY FS_AddElement
    <2>3. Cardinality(map \cup {entry}) <= MaxCursors
      BY <2>2, <1>1, <1>5, SMT
    <2> QED
      BY <2>1, <2>2, <2>3, <1>2, <1>3
  <1> QED
    BY <1>4, <1>5

-------------------------------------------------------------------------------
(* The inductive invariant.                                                *)

Cursor == [id : Nat, catalog : Catalogs, offset : Nat]
Page == [catalog : Catalogs, data : Seq(Described), next : Nat \cup {None}]
Request == [phase : {"idle", "fetching", "answering"}, limit : Nat,
            resume : Cursor \cup {None}, page : Page \cup {None}]
Listing == [cursor : Nat \cup {None}, models : Seq(UNION {Shown(p, Described) : p \in Policies}),
            catalog : Catalogs \cup {None}, policy : Policies \cup {None}, complete : BOOLEAN]

TypeInv ==
    /\ upstream \in Catalogs /\ policy \in Policies
    /\ bridge \subseteq Cursor
    /\ gateway \subseteq [id : Nat, revision : Nat, provider : Nat]
    /\ IsFiniteSet(bridge) /\ Cardinality(bridge) <= MaxCursors
    /\ IsFiniteSet(gateway) /\ Cardinality(gateway) <= MaxCursors
    /\ asking \in [Clients -> Request]
    /\ listing \in [Clients -> Listing]

(* The defaults of the first k models were checked. *)
Checked(data, k) == \A i \in 1 .. k : DefaultListed(data[i])

(* A bridge cursor continues a listing: the same catalog, and exactly the  *)
(* models before its offset.                                               *)
Continues(l, r) ==
    /\ r.catalog = l.catalog
    /\ r.offset < Len(r.catalog.data)
    /\ Checked(r.catalog.data, r.offset)
    /\ l.models = Allowed(l.policy, SubSeq(r.catalog.data, 1, r.offset))

(* A listing has a beginning of one catalog, and all of it when complete. *)
ListInv(l) ==
    /\ l.catalog = None => l = NoListing
    /\ l.catalog # None =>
        /\ l.policy \in Policies /\ l.catalog.revision = l.policy.revision
        /\ \E k \in 0 .. Len(l.catalog.data) :
            /\ l.models = Allowed(l.policy, SubSeq(l.catalog.data, 1, k))
            /\ l.complete => k = Len(l.catalog.data)
            /\ Checked(l.catalog.data, k)

(* A page goes from the request's offset to some end, where its cursor, if *)
(* the map still has it, continues.                                        *)
EndsAt(a, end) ==
    /\ a.page.data = SubSeq(a.page.catalog.data, Offset(a.resume) + 1, end)
    /\ a.page.next = None => end = Len(a.page.catalog.data)
    /\ a.page.next # None => end < Len(a.page.catalog.data)
    /\ \A b \in Entry(bridge, a.page.next) : b.catalog = a.page.catalog /\ b.offset = end

AskInv(c) ==
    /\ asking[c].phase # "idle" /\ asking[c].resume # None =>
        listing[c].policy = policy /\ Continues(listing[c], asking[c].resume)
    /\ asking[c].phase = "answering" =>
        /\ asking[c].page \in Page
        /\ asking[c].resume # None => asking[c].page.catalog = asking[c].resume.catalog
        /\ \E end \in Offset(asking[c].resume) .. Len(asking[c].page.catalog.data) :
            EndsAt(asking[c], end)

(* Where a client's cursor leads, its listing continues. *)
CursorInv(c) ==
    \A g \in Entry(gateway, listing[c].cursor) :
        /\ listing[c].policy = policy
        /\ \A b \in Entry(bridge, g.provider) : Continues(listing[c], b)

ListingInv ==
    /\ TypeInv
    /\ \A c \in Clients : ListInv(listing[c]) /\ AskInv(c) /\ CursorInv(c)

LEMMA EmptyTypes ==
  /\ NoRequest \in Request /\ NoListing \in Listing
  /\ IsFiniteSet({}) /\ Cardinality({}) <= MaxCursors
  <1>1. NoRequest \in Request
    <2>1. 0 \in Nat
      BY SMT
    <2> QED
      BY <2>1 DEF NoRequest, Request
  <1>2. NoListing \in Listing
    <2>1. <<>> \in Seq(UNION {Shown(p, Described) : p \in Policies})
      BY SMT
    <2> QED
      BY <2>1 DEF NoListing, Listing
  <1>3. IsFiniteSet({}) /\ Cardinality({}) <= MaxCursors
    <2>1. IsFiniteSet({}) /\ Cardinality({}) = 0
      BY FS_EmptySet
    <2> QED
      BY <2>1, CatalogAssumption, SMT
  <1> QED
    BY <1>1, <1>2, <1>3

LEMMA ListingInit == Init => ListingInv
  <1> SUFFICES ASSUME Init PROVE ListingInv
    OBVIOUS
  <1>1. TypeInv
    BY EmptyTypes DEF Init, TypeInv
  <1>2. ASSUME NEW c \in Clients
        PROVE  ListInv(listing[c]) /\ AskInv(c) /\ CursorInv(c)
    <2>1. listing[c] = NoListing /\ asking[c].phase = "idle" /\ gateway = {}
      BY DEF Init, NoRequest
    <2>2. NoListing.catalog = None
      BY DEF NoListing
    <2> QED
      BY <2>1, <2>2 DEF ListInv, AskInv, CursorInv, Entry
  <1> QED
    BY <1>1, <1>2 DEF ListingInv

(* A client whose listing and cursor entries stay, *)
LEMMA CursorStays ==
  ASSUME NEW c \in Clients, CursorInv(c),
         listing'[c] = listing[c], policy' = policy,
         Entry(gateway', listing[c].cursor) \subseteq Entry(gateway, listing[c].cursor),
         \A g \in gateway : Entry(bridge', g.provider) \subseteq Entry(bridge, g.provider)
  PROVE  CursorInv(c)'
  <1> SUFFICES ASSUME NEW g \in Entry(gateway', listing[c].cursor)
               PROVE  /\ listing[c].policy = policy
                      /\ \A b \in Entry(bridge', g.provider) : Continues(listing[c], b)
    BY DEF CursorInv, Continues
  <1>1. g \in gateway /\ g \in Entry(gateway, listing[c].cursor)
    BY DEF Entry
  <1> QED
    BY <1>1 DEF CursorInv

(* one whose request stays, *)
LEMMA RequestStays ==
  ASSUME NEW c \in Clients, AskInv(c),
         asking'[c] = asking[c], listing'[c] = listing[c], policy' = policy,
         asking[c].phase = "answering" =>
            Entry(bridge', asking[c].page.next) \subseteq Entry(bridge, asking[c].page.next)
  PROVE  AskInv(c)'
  <1>1. ASSUME asking[c].phase = "answering", NEW end, EndsAt(asking[c], end)
        PROVE  EndsAt(asking[c], end)'
    BY <1>1 DEF EndsAt
  <1>2. asking[c].phase = "answering" =>
            \E end \in Offset(asking[c].resume) .. Len(asking[c].page.catalog.data) :
                EndsAt(asking[c], end)'
    BY <1>1 DEF AskInv
  <1> QED
    BY <1>2 DEF AskInv, Continues

(* and one that starts again. *)
LEMMA StartsAgain ==
  ASSUME NEW c \in Clients, TypeInv,
         listing'[c] = NoListing, asking'[c].phase = "idle", gateway' = gateway
  PROVE  ListInv(listing[c])' /\ AskInv(c)' /\ CursorInv(c)'
  <1>1. NoListing.catalog = None /\ NoListing.cursor = None
    BY DEF NoListing
  <1>2. Entry(gateway, None) = {}
    BY CatalogAssumption DEF TypeInv, Entry
  <1> QED
    BY <1>1, <1>2 DEF ListInv, AskInv, CursorInv, Entry

(* Ids are new. *)
LEMMA FreshBridge ==
  ASSUME TypeInv
  PROVE  /\ FreshBridgeId \in Nat
         /\ \A e \in bridge : e.id # FreshBridgeId
         /\ \A e \in gateway : e.provider # FreshBridgeId
         /\ \A c \in Clients : asking[c].phase = "answering" => asking[c].page.next # FreshBridgeId
  <1> DEFINE waiting == {d \in Clients : asking[d].phase = "answering"}
             ids == {e.id : e \in bridge}
             providers == {e.provider : e \in gateway}
             nexts == {asking[c].page.next : c \in waiting}
  <1>1. IsFiniteSet(ids)
    <2> DEFINE f == [e \in bridge |-> e.id]
    <2>1. {f[e] : e \in bridge} = ids
      OBVIOUS
    <2> HIDE DEF f
    <2>2. IsFiniteSet({f[e] : e \in bridge})
      BY ImageFinite DEF TypeInv
    <2> QED
      BY <2>1, <2>2
  <1>2. IsFiniteSet(providers)
    <2> DEFINE f == [e \in gateway |-> e.provider]
    <2>1. {f[e] : e \in gateway} = providers
      OBVIOUS
    <2> HIDE DEF f
    <2>2. IsFiniteSet({f[e] : e \in gateway})
      BY ImageFinite DEF TypeInv
    <2> QED
      BY <2>1, <2>2
  <1>3. IsFiniteSet(nexts)
    <2> DEFINE f == [c \in waiting |-> asking[c].page.next]
    <2>1. IsFiniteSet(waiting)
      BY FS_Subset, CatalogAssumption
    <2>2. {f[c] : c \in waiting} = nexts
      OBVIOUS
    <2> HIDE DEF f, waiting
    <2>3. IsFiniteSet({f[c] : c \in waiting})
      BY <2>1, ImageFinite
    <2> QED
      BY <2>2, <2>3
  <1>4. FreshBridgeId = Fresh(ids \cup providers \cup nexts)
    BY DEF FreshBridgeId
  <1> DEFINE id == FreshBridgeId
  <1>5. id \in Nat \ (ids \cup providers \cup nexts)
    <2> HIDE DEF ids, providers, nexts
    <2>1. IsFiniteSet(ids \cup providers \cup nexts)
      BY <1>1, <1>2, <1>3, FS_Union
    <2> QED
      BY <2>1, <1>4, FreshUnused
  <1> HIDE DEF id
  <1>6. /\ id \in Nat
        /\ \A e \in bridge : e.id # id
        /\ \A e \in gateway : e.provider # id
        /\ \A c \in Clients : asking[c].phase = "answering" => asking[c].page.next # id
    BY <1>5
  <1> QED
    BY <1>6 DEF id

LEMMA FreshGateway ==
  ASSUME TypeInv
  PROVE  /\ FreshGatewayId \in Nat
         /\ \A e \in gateway : e.id # FreshGatewayId
         /\ \A c \in Clients : listing[c].cursor # FreshGatewayId
  <1> DEFINE ids == {e.id : e \in gateway}
             cursors == {listing[c].cursor : c \in Clients}
  <1>1. IsFiniteSet(ids)
    <2> DEFINE f == [e \in gateway |-> e.id]
    <2>1. {f[e] : e \in gateway} = ids
      OBVIOUS
    <2> HIDE DEF f
    <2>2. IsFiniteSet({f[e] : e \in gateway})
      BY ImageFinite DEF TypeInv
    <2> QED
      BY <2>1, <2>2
  <1>2. IsFiniteSet(cursors)
    <2> DEFINE f == [c \in Clients |-> listing[c].cursor]
    <2>1. {f[c] : c \in Clients} = cursors
      OBVIOUS
    <2> HIDE DEF f
    <2>2. IsFiniteSet(Clients)
      BY CatalogAssumption
    <2>3. IsFiniteSet({f[c] : c \in Clients})
      BY <2>2, ImageFinite
    <2> QED
      BY <2>1, <2>3
  <1>3. FreshGatewayId = Fresh(ids \cup cursors)
    BY DEF FreshGatewayId
  <1> DEFINE id == FreshGatewayId
  <1>4. id \in Nat \ (ids \cup cursors)
    <2> HIDE DEF ids, cursors
    <2>1. IsFiniteSet(ids \cup cursors)
      BY <1>1, <1>2, FS_Union
    <2> QED
      BY <2>1, <1>3, FreshUnused
  <1> HIDE DEF id
  <1>5. /\ id \in Nat
        /\ \A e \in gateway : e.id # id
        /\ \A c \in Clients : listing[c].cursor # id
    BY <1>4
  <1> QED
    BY <1>5 DEF id

-------------------------------------------------------------------------------
(* One lemma per action.                                                   *)

LEMMA AskStep ==
  ASSUME ListingInv, NEW c \in Clients, Ask(c)
  PROVE  ListingInv'
  <1>1. PICK limit \in Limits, resume \in IF listing[c].cursor = None THEN {None} ELSE Resumes(c) :
            asking' = [asking EXCEPT ![c] = [NoRequest EXCEPT
                        !.phase = "fetching", !.limit = limit, !.resume = resume]]
    BY DEF Ask
  <1>2. UNCHANGED <<upstream, policy, bridge, gateway, listing>>
    BY DEF Ask
  <1> DEFINE new == [NoRequest EXCEPT !.phase = "fetching", !.limit = limit, !.resume = resume]
  <1>3. new.phase = "fetching" /\ new.resume = resume
    BY DEF NoRequest
  <1>4. resume \in Cursor \cup {None}
    BY DEF ListingInv, TypeInv, Resumes, Entry
  <1>5. new \in Request
    <2>1. limit \in Nat
      BY CatalogAssumption
    <2> QED
      BY <2>1, <1>4 DEF NoRequest, Request
  <1>6. resume # None => listing[c].policy = policy /\ Continues(listing[c], resume)
    <2> SUFFICES ASSUME resume # None
                 PROVE  listing[c].policy = policy /\ Continues(listing[c], resume)
      OBVIOUS
    <2>1. resume \in Resumes(c)
      BY DEF ListingInv
    <2>2. PICK g \in Entry(gateway, listing[c].cursor) : resume \in Entry(bridge, g.provider)
      BY <2>1 DEF Resumes
    <2> QED
      BY <2>2 DEF ListingInv, CursorInv
  <1> HIDE DEF new
  <1>7. asking' = [asking EXCEPT ![c] = new]
    BY <1>1 DEF new
  <1>8. asking \in [Clients -> Request]
    BY DEF ListingInv, TypeInv
  <1>9. asking'[c] = new /\ \A d \in Clients \ {c} : asking'[d] = asking[d]
    BY <1>7, <1>8
  <1>10. TypeInv'
    BY <1>2, <1>5, <1>7, <1>8 DEF ListingInv, TypeInv
  <1>11. ASSUME NEW d \in Clients
         PROVE  (ListInv(listing[d]) /\ AskInv(d) /\ CursorInv(d))'
    <2>1. ListInv(listing[d]) /\ AskInv(d) /\ CursorInv(d)
      BY DEF ListingInv
    <2>2. ListInv(listing[d])' /\ CursorInv(d)'
      BY <2>1, <1>2, CursorStays DEF ListInv
    <2>3. CASE d # c
      BY <2>1, <2>2, <2>3, <1>2, <1>9, RequestStays
    <2>4. CASE d = c
      <3>1. AskInv(c)'
        BY <1>2, <1>3, <1>6, <1>9 DEF AskInv, Continues
      <3> QED
        BY <3>1, <2>2, <2>4
    <2> QED
      BY <2>3, <2>4
  <1> QED
    BY <1>10, <1>11 DEF ListingInv

(* The client has to start again: its cursor is unknown or stale, or it    *)
(* wants to.                                                               *)
LEMMA AgainStep ==
  ASSUME ListingInv, NEW c \in Clients, AskRefused(c) \/ FetchStale(c) \/ StartOver(c)
  PROVE  ListingInv'
  <1>1. UNCHANGED <<upstream, policy, bridge, gateway>>
    BY DEF AskRefused, FetchStale, StartOver
  <1>2. listing' = [listing EXCEPT ![c] = NoListing]
    BY DEF AskRefused, FetchStale, StartOver
  <1>3. /\ asking' \in [Clients -> Request] /\ asking'[c].phase = "idle"
        /\ \A d \in Clients \ {c} : asking'[d] = asking[d]
    <2>1. asking \in [Clients -> Request] /\ NoRequest.phase = "idle"
      BY DEF ListingInv, TypeInv, NoRequest
    <2> QED
      BY <2>1, EmptyTypes DEF AskRefused, FetchStale, StartOver
  <1>4. listing \in [Clients -> Listing]
    BY DEF ListingInv, TypeInv
  <1>5. /\ listing' \in [Clients -> Listing] /\ listing'[c] = NoListing
        /\ \A d \in Clients \ {c} : listing'[d] = listing[d]
    BY <1>2, <1>4, EmptyTypes
  <1>6. TypeInv'
    BY <1>1, <1>3, <1>5 DEF ListingInv, TypeInv
  <1>7. ASSUME NEW d \in Clients
        PROVE  (ListInv(listing[d]) /\ AskInv(d) /\ CursorInv(d))'
    <2>1. ListInv(listing[d]) /\ AskInv(d) /\ CursorInv(d)
      BY DEF ListingInv
    <2>2. CASE d # c
      <3>1. listing'[d] = listing[d] /\ asking'[d] = asking[d]
        BY <2>2, <1>3, <1>5
      <3>2. ListInv(listing[d])'
        BY <2>1, <3>1 DEF ListInv
      <3> QED
        BY <2>1, <3>1, <3>2, <1>1, RequestStays, CursorStays
    <2>3. CASE d = c
      BY <2>3, <1>1, <1>3, <1>5, StartsAgain DEF ListingInv
    <2> QED
      BY <2>2, <2>3
  <1> QED
    BY <1>6, <1>7 DEF ListingInv

(* The request is over and the listing stays. *)
LEMMA OverStep ==
  ASSUME ListingInv, NEW c \in Clients, FetchFails(c) \/ AnswerInvalid(c)
  PROVE  ListingInv'
  <1>1. UNCHANGED <<upstream, policy, bridge, gateway, listing>>
    BY DEF FetchFails, AnswerInvalid
  <1>2. asking' = [asking EXCEPT ![c] = NoRequest]
    BY DEF FetchFails, AnswerInvalid
  <1>3. asking \in [Clients -> Request] /\ NoRequest.phase = "idle"
    BY DEF ListingInv, TypeInv, NoRequest
  <1>4. /\ asking' \in [Clients -> Request] /\ asking'[c].phase = "idle"
        /\ \A d \in Clients \ {c} : asking'[d] = asking[d]
    BY <1>2, <1>3, EmptyTypes
  <1>5. TypeInv'
    BY <1>1, <1>4 DEF ListingInv, TypeInv
  <1>6. ASSUME NEW d \in Clients
        PROVE  (ListInv(listing[d]) /\ AskInv(d) /\ CursorInv(d))'
    <2>1. ListInv(listing[d]) /\ AskInv(d) /\ CursorInv(d)
      BY DEF ListingInv
    <2>2. ListInv(listing[d])' /\ CursorInv(d)'
      BY <2>1, <1>1, CursorStays DEF ListInv
    <2>3. CASE d # c
      BY <2>1, <2>2, <2>3, <1>1, <1>4, RequestStays
    <2>4. CASE d = c
      BY <2>2, <2>4, <1>4 DEF AskInv
    <2> QED
      BY <2>3, <2>4
  <1> QED
    BY <1>5, <1>6 DEF ListingInv

LEMMA UpstreamStep ==
  ASSUME ListingInv, UpstreamChanges \/ UNCHANGED vars
  PROVE  ListingInv'
  <1>1. UNCHANGED <<policy, bridge, gateway, asking, listing>>
    BY DEF UpstreamChanges, vars
  <1>2. TypeInv'
    BY <1>1 DEF ListingInv, TypeInv, UpstreamChanges, vars
  <1>3. ASSUME NEW d \in Clients
        PROVE  (ListInv(listing[d]) /\ AskInv(d) /\ CursorInv(d))'
    <2>1. ListInv(listing[d]) /\ AskInv(d) /\ CursorInv(d)
      BY DEF ListingInv
    <2>2. ListInv(listing[d])'
      BY <2>1, <1>1 DEF ListInv
    <2> QED
      BY <2>1, <2>2, <1>1, CursorStays, RequestStays
  <1> QED
    BY <1>2, <1>3 DEF ListingInv

LEMMA RestartStep ==
  ASSUME ListingInv, Restart
  PROVE  ListingInv'
  <1>1. /\ policy' \in Policies /\ bridge' = {} /\ gateway' = {}
        /\ asking' = [c \in Clients |-> NoRequest]
        /\ upstream' = upstream /\ listing' = listing
    BY DEF Restart
  <1>2. TypeInv'
    BY <1>1, EmptyTypes DEF ListingInv, TypeInv
  <1>3. ASSUME NEW d \in Clients
        PROVE  (ListInv(listing[d]) /\ AskInv(d) /\ CursorInv(d))'
    <2>1. ListInv(listing[d])'
      BY <1>1 DEF ListingInv, ListInv
    <2>2. asking'[d].phase = "idle"
      BY <1>1 DEF NoRequest
    <2> QED
      BY <2>1, <2>2, <1>1 DEF AskInv, CursorInv, Entry
  <1> QED
    BY <1>2, <1>3 DEF ListingInv

(* The end of a page. *)
LEMMA PageEnd ==
  ASSUME ListingInv, NEW c \in Clients, asking[c].phase = "fetching",
         SameCatalog(asking[c].resume)
  PROVE  LET from == Offset(asking[c].resume)
             end == Smaller(from + asking[c].limit, Len(upstream.data))
         IN  /\ from \in 0 .. Len(upstream.data)
             /\ end \in from .. Len(upstream.data)
             /\ end \in Nat
             /\ SubSeq(upstream.data, from + 1, end) \in Seq(Described)
  <1> DEFINE from == Offset(asking[c].resume)
             data == upstream.data
             limit == asking[c].limit
             end == Smaller(from + limit, Len(data))
  <1>1. asking[c] \in Request /\ upstream \in Catalogs
    BY DEF ListingInv, TypeInv
  <1>2. data \in Seq(Described) /\ limit \in Nat
    BY <1>1, CatalogAssumption DEF Request
  <1> HIDE DEF data, limit
  <1>3. Len(data) \in Nat
    BY <1>2, SMT
  <1>4. from \in Nat /\ from <= Len(data)
    <2>1. CASE asking[c].resume = None
      BY <2>1, <1>3, SMT DEF Offset
    <2>2. CASE asking[c].resume # None
      <3>1. asking[c].resume \in Cursor
        BY <2>2, <1>1 DEF Request
      <3>2. asking[c].resume.offset \in Nat
        BY <3>1 DEF Cursor
      <3>3. asking[c].resume.offset < Len(data)
        BY <2>2 DEF SameCatalog, ListingInv, AskInv, Continues, data
      <3>4. from = asking[c].resume.offset
        BY <2>2 DEF Offset
      <3> HIDE DEF from
      <3> QED
        BY <3>2, <3>3, <3>4, <1>3, SMT
    <2> QED
      BY <2>1, <2>2
  <1> HIDE DEF from
  <1>5. from \in 0 .. Len(data) /\ end \in from .. Len(data) /\ end \in Nat
    BY <1>2, <1>3, <1>4, SMT DEF Smaller
  <1> HIDE DEF end
  <1>6. SubSeq(data, from + 1, end) \in Seq(Described)
    BY <1>2, <1>5, SMT
  <1> QED
    BY <1>5, <1>6 DEF from, end, data, limit

LEMMA FetchStep ==
  ASSUME ListingInv, NEW c \in Clients, Fetch(c)
  PROVE  ListingInv'
  <1> DEFINE resume == asking[c].resume
             from == Offset(resume)
             end == Smaller(from + asking[c].limit, Len(upstream.data))
             data == SubSeq(upstream.data, from + 1, end)
             entry == [id |-> FreshBridgeId, catalog |-> upstream, offset |-> end]
             page(next) == [catalog |-> upstream, data |-> data, next |-> next]
             answered(next) ==
                [asking EXCEPT ![c].phase = "answering", ![c].page = page(next)]
  <1>1. asking[c].phase = "fetching" /\ SameCatalog(resume)
    BY DEF Fetch
  <1>2. UNCHANGED <<upstream, policy, gateway, listing>>
    BY DEF Fetch
  <1>3. /\ from \in 0 .. Len(upstream.data) /\ end \in from .. Len(upstream.data)
        /\ end \in Nat /\ data \in Seq(Described)
    BY <1>1, PageEnd
  <1>4. \/ end < Len(upstream.data) /\ bridge' \in Inserted(bridge, entry)
            /\ asking' = answered(FreshBridgeId)
        \/ ~(end < Len(upstream.data)) /\ bridge' = bridge /\ asking' = answered(None)
    BY DEF Fetch, HasNext
  <1>5. end < Len(upstream.data) \/ end = Len(upstream.data)
    <2>1. upstream.data \in Seq(Described)
      BY CatalogAssumption DEF ListingInv, TypeInv
    <2>2. Len(upstream.data) \in Nat
      BY <2>1, SMT
    <2> HIDE DEF end, from
    <2> QED
      BY <2>2, <1>3, SMT
  <1>6. TypeInv /\ asking \in [Clients -> Request] /\ None \notin Nat
    BY CatalogAssumption DEF ListingInv, TypeInv
  <1> HIDE DEF end, data, from
  <1>7. ASSUME NEW next \in Nat \cup {None}, asking' = answered(next)
        PROVE  /\ asking' \in [Clients -> Request]
               /\ asking'[c].phase = "answering" /\ asking'[c].resume = resume
               /\ asking'[c].page = page(next) /\ page(next) \in Page
               /\ \A d \in Clients \ {c} : asking'[d] = asking[d]
    <2>1. page(next) \in Page
      BY <1>3, <1>6 DEF TypeInv, Page
    <2> HIDE DEF page
    <2>2. \A q \in Request :
            /\ [q EXCEPT !.phase = "answering", !.page = page(next)] \in Request
            /\ [q EXCEPT !.phase = "answering", !.page = page(next)].phase = "answering"
            /\ [q EXCEPT !.phase = "answering", !.page = page(next)].page = page(next)
            /\ [q EXCEPT !.phase = "answering", !.page = page(next)].resume = q.resume
      BY <2>1 DEF Request
    <2>3. asking' = [asking EXCEPT ![c] =
                        [asking[c] EXCEPT !.phase = "answering", !.page = page(next)]]
      BY <1>6, <1>7
    <2>4. asking[c] \in Request
      BY <1>6
    <2> QED
      BY <2>1, <2>2, <2>3, <2>4, <1>6
  <1>8. PICK next \in Nat \cup {None} :
            /\ asking' = answered(next)
            /\ next = None => end = Len(upstream.data)
            /\ next # None => end < Len(upstream.data)
            /\ bridge' \subseteq Cursor /\ IsFiniteSet(bridge')
            /\ Cardinality(bridge') <= MaxCursors
            /\ \A b \in Entry(bridge', next) : b.catalog = upstream /\ b.offset = end
            /\ \A g \in gateway : Entry(bridge', g.provider) \subseteq Entry(bridge, g.provider)
            /\ \A d \in Clients : asking[d].phase = "answering" =>
                Entry(bridge', asking[d].page.next) \subseteq Entry(bridge, asking[d].page.next)
    <2>1. CASE end < Len(upstream.data) /\ bridge' \in Inserted(bridge, entry)
               /\ asking' = answered(FreshBridgeId)
      <3> DEFINE id == FreshBridgeId
      <3>1. /\ id \in Nat
            /\ \A e \in bridge : e.id # id
            /\ \A e \in gateway : e.provider # id
            /\ \A d \in Clients : asking[d].phase = "answering" => asking[d].page.next # id
        BY <1>6, FreshBridge
      <3>2. /\ entry.id = id /\ entry.catalog = upstream /\ entry.offset = end
            /\ entry \in Cursor
        BY <3>1, <1>3, <1>6 DEF TypeInv, Cursor
      <3> HIDE DEF entry, id, answered
      <3>3. /\ IsFiniteSet(bridge') /\ Cardinality(bridge') <= MaxCursors
            /\ bridge' \subseteq bridge \cup {entry}
            /\ \A i : i # entry.id => Entry(bridge', i) \subseteq Entry(bridge, i)
        BY <2>1, <1>6, InsertedFacts DEF TypeInv
      <3>4. bridge' \subseteq Cursor
        BY <3>2, <3>3, <1>6 DEF TypeInv
      <3>5. \A b \in Entry(bridge', id) : b.catalog = upstream /\ b.offset = end
        BY <3>1, <3>2, <3>3 DEF Entry
      <3>6. id # None
        BY <3>1, <1>6
      <3> QED
        BY <2>1, <3>1, <3>2, <3>3, <3>4, <3>5, <3>6 DEF id
    <2>2. CASE ~(end < Len(upstream.data)) /\ bridge' = bridge /\ asking' = answered(None)
      <3>1. Entry(bridge, None) = {}
        BY <1>6 DEF TypeInv, Entry, Cursor
      <3> HIDE DEF answered
      <3> QED
        BY <3>1, <2>2, <1>5, <1>6 DEF TypeInv
    <2> QED
      BY <2>1, <2>2, <1>4
  <1>9. /\ asking' \in [Clients -> Request]
        /\ asking'[c].phase = "answering" /\ asking'[c].resume = resume
        /\ asking'[c].page = page(next) /\ page(next) \in Page
        /\ \A d \in Clients \ {c} : asking'[d] = asking[d]
    BY <1>7, <1>8
  <1>10. TypeInv'
    BY <1>2, <1>6, <1>8, <1>9 DEF TypeInv
  <1>11. AskInv(c)'
    <2>1. resume # None => listing[c].policy = policy /\ Continues(listing[c], resume)
      BY <1>1 DEF ListingInv, AskInv
    <2>2. resume # None => upstream = resume.catalog
      BY <1>1 DEF SameCatalog
    <2> DEFINE a == asking'[c]
    <2>3. /\ a.phase = "answering" /\ a.resume = resume /\ a.page \in Page
          /\ a.page.catalog = upstream /\ a.page.data = data /\ a.page.next = next
      <3>1. /\ page(next).catalog = upstream /\ page(next).data = data
            /\ page(next).next = next
        OBVIOUS
      <3> HIDE DEF page
      <3> QED
        BY <3>1, <1>9
    <2>4. Offset(a.resume) = from
      BY <2>3 DEF from
    <2> HIDE DEF a, resume
    <2>5. PICK stop : stop = end
      OBVIOUS
    <2>6. /\ a.page.data = SubSeq(a.page.catalog.data, Offset(a.resume) + 1, stop)
          /\ a.page.next = None => stop = Len(a.page.catalog.data)
          /\ a.page.next # None => stop < Len(a.page.catalog.data)
          /\ \A b \in Entry(bridge', a.page.next) : b.catalog = a.page.catalog /\ b.offset = stop
      BY <2>3, <2>4, <2>5, <1>8 DEF data
    <2>7. stop \in Offset(a.resume) .. Len(a.page.catalog.data)
      BY <2>3, <2>4, <2>5, <1>3
    <2>8. EndsAt(asking[c], stop)'
      BY <2>6 DEF EndsAt, Entry, Offset, a
    <2> QED
      BY <2>1, <2>2, <2>3, <2>7, <2>8, <1>2 DEF AskInv, Continues, Offset, a
  <1>12. ASSUME NEW d \in Clients
         PROVE  (ListInv(listing[d]) /\ AskInv(d) /\ CursorInv(d))'
    <2>1. ListInv(listing[d]) /\ AskInv(d) /\ CursorInv(d)
      BY DEF ListingInv
    <2>2. ListInv(listing[d])'
      BY <2>1, <1>2 DEF ListInv
    <2>3. CursorInv(d)'
      BY <2>1, <1>2, <1>8, CursorStays
    <2>4. CASE d # c
      BY <2>1, <2>2, <2>3, <2>4, <1>2, <1>8, <1>9, RequestStays
    <2>5. CASE d = c
      BY <2>2, <2>3, <2>5, <1>11
    <2> QED
      BY <2>4, <2>5
  <1> QED
    BY <1>10, <1>12 DEF ListingInv

LEMMA RestrictedFields ==
  ASSUME NEW p, NEW m \in Described
  PROVE  /\ Restricted(p, m).id = m.id
         /\ Restricted(p, m).efforts = {e \in m.efforts : Permits(p, m.id, e)}
         /\ Restricted(p, m).default = IF Permits(p, m.id, m.default) THEN m.default ELSE None
  <1>1. DOMAIN m = {"id", "efforts", "default"}
    BY CatalogAssumption
  <1> QED
    BY <1>1 DEF Restricted

(* A client that gets the answer has the beginning of the catalog up to    *)
(* the end of the page.                                                    *)
LEMMA ExtendedFacts ==
  ASSUME ListingInv, NEW c \in Clients, NEW id \in Nat \cup {None},
         asking[c].phase = "answering", ValidPage(asking[c].page),
         NEW end \in Offset(asking[c].resume) .. Len(asking[c].page.catalog.data),
         EndsAt(asking[c], end)
  PROVE  LET page == asking[c].page
             new == Extended(c, id)
         IN  /\ new \in Listing
             /\ new.cursor = id /\ new.complete = (id = None)
             /\ new.catalog = page.catalog /\ new.policy = policy
             /\ end \in 0 .. Len(page.catalog.data)
             /\ new.models = Allowed(policy, SubSeq(page.catalog.data, 1, end))
             /\ Checked(page.catalog.data, end)
  <1> DEFINE page == asking[c].page
             resume == asking[c].resume
             from == Offset(resume)
             data == page.catalog.data
             l == listing[c]
             new == Extended(c, id)
             Any == UNION {Shown(p, Described) : p \in Policies}
  <1>1. /\ page \in Page /\ l \in Listing /\ asking[c] \in Request /\ policy \in Policies
        /\ resume # None => page.catalog = resume.catalog
    BY DEF ListingInv, TypeInv, AskInv
  <1>2. page.catalog \in Catalogs /\ data \in Seq(Described)
    BY <1>1, CatalogAssumption DEF Page
  <1>3. page.data = SubSeq(data, from + 1, end)
    BY DEF EndsAt
  <1>4. resume # None =>
            /\ resume \in Cursor /\ from = resume.offset /\ l.policy = policy
            /\ l.catalog = page.catalog /\ l.models = Allowed(policy, SubSeq(data, 1, from))
            /\ Checked(data, from)
    <2>1. resume # None => resume \in Cursor /\ from = resume.offset
      BY <1>1 DEF Request, Offset
    <2>2. resume # None => l.policy = policy /\ Continues(l, resume)
      BY DEF ListingInv, AskInv
    <2> HIDE DEF l, resume, page, from
    <2> QED
      BY <2>1, <2>2, <1>1 DEF Continues
  <1>5. from \in Nat /\ Len(data) \in Nat
    <2>1. resume = None => from = 0
      BY DEF Offset
    <2>2. resume # None => from \in Nat
      BY <1>4 DEF Cursor
    <2> HIDE DEF from, data, resume
    <2> QED
      BY <2>1, <2>2, <1>2, SMT
  <1>6. end \in from .. Len(data)
    OBVIOUS
  <1> HIDE DEF data, from
  <1>7. from \in 0 .. Len(data) /\ end \in 0 .. Len(data) /\ 0 \in 0 .. Len(data) /\ 0 + 1 = 1
    BY <1>5, <1>6, SMT
  <1> DEFINE models == Allowed(policy, SubSeq(data, 1, end))
  <1>8. models = IF resume = None THEN Allowed(policy, page.data)
                 ELSE l.models \o Allowed(policy, page.data)
    <2>1. CASE resume = None
      <3>1. from = 0
        BY <2>1 DEF from, Offset
      <3> QED
        BY <3>1, <2>1, <1>3, <1>7
    <2>2. CASE resume # None
      <3>1. Allowed(policy, SubSeq(data, 1, end)) =
                Allowed(policy, SubSeq(data, 1, from))
                \o Allowed(policy, SubSeq(data, from + 1, end))
        <4>1. data \in Seq(Described) /\ from \in 0 .. Len(data) /\ end \in from .. Len(data)
          BY <1>2, <1>6, <1>7
        <4> QED
          BY <4>1, AllowedAdjacent
      <3> QED
        BY <3>1, <2>2, <1>3, <1>4
    <2> QED
      BY <2>1, <2>2
  <1>9. models \in Seq(Any)
    <2>1. models \in Seq(Shown(policy, Described))
      BY <1>2, <1>7, AllowedBeginning
    <2>2. Shown(policy, Described) \subseteq Any
      BY <1>1
    <2> HIDE DEF models, Any
    <2> QED
      BY <2>1, <2>2, SMT
  <1> HIDE DEF models
  <1>10. /\ new \in Listing
         /\ new.cursor = id /\ new.complete = (id = None)
         /\ new.catalog = page.catalog /\ new.policy = policy
         /\ new.models = models
    <2>1. (id = None) \in BOOLEAN
      OBVIOUS
    <2>2. CASE resume = None
      <3>1. new = [cursor |-> id, models |-> models, catalog |-> page.catalog,
                   policy |-> policy, complete |-> id = None]
        BY <2>2, <1>8 DEF Extended
      <3> QED
        <4>1. page.catalog \in Catalogs \cup {None} /\ policy \in Policies \cup {None}
          BY <1>1, <1>2
        <4> HIDE DEF Any, new, page
        <4>2. [cursor |-> id, models |-> models, catalog |-> page.catalog,
               policy |-> policy, complete |-> id = None] \in Listing
          BY <4>1, <2>1, <1>9 DEF Listing, Any
        <4> QED
          BY <4>2, <3>1
    <2>3. CASE resume # None
      <3>1. new = [l EXCEPT !.cursor = id, !.models = models, !.complete = id = None]
        BY <2>3, <1>8 DEF Extended
      <3>2. \A q \in Listing :
                LET n == [q EXCEPT !.cursor = id, !.models = models, !.complete = id = None]
                IN  /\ n \in Listing
                    /\ n.cursor = id /\ n.complete = (id = None) /\ n.models = models
                    /\ n.catalog = q.catalog /\ n.policy = q.policy
        BY <2>1, <1>9 DEF Listing
      <3> QED
        BY <3>1, <3>2, <2>3, <1>1, <1>4
    <2> QED
      BY <2>2, <2>3
  <1>11. Checked(data, end)
    <2> SUFFICES ASSUME NEW i \in 1 .. end
                 PROVE  DefaultListed(data[i])
      BY DEF Checked
    <2>1. CASE i <= from
      <3>1. resume # None
        <4>1. resume = None => from = 0
          BY DEF from, Offset
        <4> HIDE DEF resume
        <4> QED
          BY <4>1, <2>1, <1>7, SMT
      <3>2. i \in 1 .. from
        BY <2>1, <1>5, <1>7, SMT
      <3> QED
        BY <3>1, <3>2, <1>4 DEF Checked
    <2>2. CASE ~(i <= from)
      <3>1. i - from \in DOMAIN page.data /\ page.data[i - from] = data[i]
        <4>1. i - from \in DOMAIN SubSeq(data, from + 1, end)
          BY <2>2, <1>2, <1>5, <1>6, <1>7, SMT
        <4>2. SubSeq(data, from + 1, end)[i - from] = data[i]
          BY <2>2, <1>2, <1>5, <1>6, <1>7, SMT
        <4> QED
          BY <4>1, <4>2, <1>3
      <3> QED
        BY <3>1 DEF ValidPage
    <2> QED
      BY <2>1, <2>2
  <1> QED
    BY <1>7, <1>10, <1>11 DEF models, data

LEMMA AnswerStep ==
  ASSUME ListingInv, NEW c \in Clients, Answer(c)
  PROVE  ListingInv'
  <1> DEFINE page == asking[c].page
             entry == [id |-> FreshGatewayId, revision |-> policy.revision, provider |-> page.next]
  <1>1. /\ asking[c].phase = "answering" /\ ValidPage(page)
        /\ asking' = [asking EXCEPT ![c] = NoRequest]
        /\ upstream' = upstream /\ policy' = policy /\ bridge' = bridge
    BY DEF Answer
  <1>2. TypeInv /\ page \in Page /\ None \notin Nat
    BY <1>1, CatalogAssumption DEF ListingInv, AskInv
  <1>3. PICK end \in Offset(asking[c].resume) .. Len(page.catalog.data) :
            EndsAt(asking[c], end)
    BY <1>1 DEF ListingInv, AskInv
  <1>4. PICK id \in Nat \cup {None} :
            /\ listing' \in {listing, [listing EXCEPT ![c] = Extended(c, id)]}
            /\ id = None <=> page.next = None
            /\ gateway' \subseteq [id : Nat, revision : Nat, provider : Nat]
            /\ IsFiniteSet(gateway') /\ Cardinality(gateway') <= MaxCursors
            /\ \A d \in Clients :
                Entry(gateway', listing[d].cursor) \subseteq Entry(gateway, listing[d].cursor)
            /\ \A g \in Entry(gateway', id) : g.provider = page.next /\ page.next # None
    <2>1. CASE page.next = None
      <3>1. gateway' = gateway /\ listing' \in {listing, [listing EXCEPT ![c] = Extended(c, None)]}
        BY <2>1 DEF Answer
      <3>2. Entry(gateway, None) = {}
        BY <1>2 DEF TypeInv, Entry
      <3> HIDE DEF page
      <3> QED
        BY <3>1, <3>2, <2>1, <1>2 DEF TypeInv
    <2>2. CASE page.next # None
      <3> DEFINE id == FreshGatewayId
      <3>1. /\ id \in Nat
            /\ \A e \in gateway : e.id # id
            /\ \A d \in Clients : listing[d].cursor # id
        BY <1>2, FreshGateway
      <3>2. id # None
        BY <3>1, <1>2
      <3>3. /\ gateway' \in Inserted(gateway, entry)
            /\ listing' \in {listing, [listing EXCEPT ![c] = Extended(c, id)]}
        BY <2>2, <3>2 DEF Answer
      <3>4. /\ entry.id = id /\ entry.provider = page.next
            /\ entry \in [id : Nat, revision : Nat, provider : Nat]
        <4>1. policy.revision \in Nat /\ page.next \in Nat
          BY <2>2, <1>2, CatalogAssumption DEF TypeInv, Page
        <4> QED
          BY <4>1, <3>1
      <3> HIDE DEF id, entry, page
      <3>5. /\ IsFiniteSet(gateway') /\ Cardinality(gateway') <= MaxCursors
            /\ gateway' \subseteq gateway \cup {entry}
            /\ \A i : i # entry.id => Entry(gateway', i) \subseteq Entry(gateway, i)
        BY <3>3, <1>2, InsertedFacts DEF TypeInv
      <3>6. gateway' \subseteq [id : Nat, revision : Nat, provider : Nat]
        BY <3>4, <3>5, <1>2 DEF TypeInv
      <3>7. \A g \in Entry(gateway', id) : g.provider = page.next
        BY <3>1, <3>4, <3>5 DEF Entry
      <3> QED
        BY <2>2, <3>1, <3>2, <3>3, <3>4, <3>5, <3>6, <3>7
    <2> QED
      BY <2>1, <2>2
  <1>5. /\ asking' \in [Clients -> Request] /\ asking'[c].phase = "idle"
        /\ \A d \in Clients \ {c} : asking'[d] = asking[d]
    <2>1. asking \in [Clients -> Request] /\ NoRequest.phase = "idle"
      BY <1>2 DEF TypeInv, NoRequest
    <2> QED
      BY <2>1, <1>1, EmptyTypes
  <1>6. AskInv(c)'
    BY <1>5 DEF AskInv
  <1>7. ASSUME NEW d \in Clients, listing'[d] = listing[d]
        PROVE  (ListInv(listing[d]) /\ AskInv(d) /\ CursorInv(d))'
    <2>1. ListInv(listing[d]) /\ AskInv(d) /\ CursorInv(d)
      BY DEF ListingInv
    <2>2. ListInv(listing[d])'
      BY <2>1, <1>7 DEF ListInv
    <2>3. CursorInv(d)'
      BY <2>1, <1>1, <1>4, <1>7, CursorStays
    <2>4. d # c => AskInv(d)'
      BY <2>1, <1>1, <1>5, <1>7, RequestStays
    <2> QED
      BY <2>2, <2>3, <2>4, <1>6
  <1>8. CASE listing' = listing
    <2>1. TypeInv'
      BY <1>1, <1>2, <1>4, <1>5, <1>8 DEF TypeInv
    <2> QED
      BY <2>1, <1>7, <1>8 DEF ListingInv
  <1>9. CASE listing' = [listing EXCEPT ![c] = Extended(c, id)]
    <2>1. /\ Extended(c, id) \in Listing
          /\ Extended(c, id).cursor = id /\ Extended(c, id).complete = (id = None)
          /\ Extended(c, id).catalog = page.catalog /\ Extended(c, id).policy = policy
          /\ end \in 0 .. Len(page.catalog.data)
          /\ Extended(c, id).models = Allowed(policy, SubSeq(page.catalog.data, 1, end))
          /\ Checked(page.catalog.data, end)
      BY <1>1, <1>3, ExtendedFacts
    <2> DEFINE new == Extended(c, id)
    <2>2. /\ listing' \in [Clients -> Listing] /\ listing'[c] = new
          /\ \A d \in Clients \ {c} : listing'[d] = listing[d]
      BY <2>1, <1>2, <1>9 DEF TypeInv
    <2>3. TypeInv'
      BY <2>2, <1>1, <1>2, <1>4, <1>5 DEF TypeInv
    <2> DEFINE l == listing'[c]
    <2>4. /\ l.cursor = id /\ l.complete = (id = None)
          /\ l.catalog = page.catalog /\ l.policy = policy
          /\ l.models = Allowed(policy, SubSeq(page.catalog.data, 1, end))
      BY <2>1, <2>2
    <2>5. page.catalog \in Catalogs /\ page.catalog # None /\ policy \in Policies
      BY <1>2, CatalogAssumption DEF Page, TypeInv
    <2>6. /\ page.next = None => end = Len(page.catalog.data)
          /\ page.next # None => end < Len(page.catalog.data)
          /\ \A b \in Entry(bridge, page.next) : b.catalog = page.catalog /\ b.offset = end
      BY <1>3 DEF EndsAt
    <2>7. page.catalog.revision = policy.revision
      BY <1>1 DEF ValidPage
    <2> HIDE DEF page, l, new
    <2>8. ListInv(l)
      BY <2>1, <2>4, <2>5, <2>6, <2>7, <1>4 DEF ListInv
    <2>9. \A g \in Entry(gateway', l.cursor) :
            /\ l.policy = policy
            /\ \A b \in Entry(bridge, g.provider) : Continues(l, b)
      BY <2>1, <2>4, <2>6, <1>4 DEF Continues
    <2>10. ListInv(listing[c])' /\ CursorInv(c)'
      BY <2>8, <2>9, <1>1 DEF ListInv, CursorInv, Continues, l
    <2>11. ASSUME NEW d \in Clients
           PROVE  (ListInv(listing[d]) /\ AskInv(d) /\ CursorInv(d))'
      BY <2>2, <2>10, <1>6, <1>7
    <2> QED
      BY <2>3, <2>11 DEF ListingInv
  <1> QED
    BY <1>4, <1>8, <1>9

LEMMA ListingStep == ListingInv /\ [Next]_vars => ListingInv'
  BY AskStep, AgainStep, OverStep, FetchStep, AnswerStep, UpstreamStep, RestartStep DEF Next

THEOREM ListingInvHolds == Spec => []ListingInv
  BY ListingInit, ListingStep, PTL DEF Spec

-------------------------------------------------------------------------------
(* What a client may rely on.                                              *)

(* The cursor maps of CatalogBridge and ConversationIntegration never      *)
(* outgrow their bound, and requests and listings have their types, for    *)
(* any number of clients and any bound.                                    *)
THEOREM CatalogTyped == Spec => []TypeOK
  <1>1. ListingInv => TypeOK
    BY DEF ListingInv, TypeInv, TypeOK, Cursor, Request, Listing
  <1> QED
    BY <1>1, ListingInvHolds, PTL

(* Whoever follows the cursors lists one catalog, in order, with nothing   *)
(* left out or shown twice, and a cursor always brings at least one more   *)
(* model, for any catalogs, page sizes, policies and number of clients,    *)
(* whatever the maps evict and the upstream serves (page, models).         *)
THEOREM PagesAlwaysOfOneCatalog == Spec => []PagesOfOneCatalog
  <1>1. ASSUME ListingInv PROVE PagesOfOneCatalog
    <2> SUFFICES ASSUME NEW c \in Clients, listing[c].catalog # None
                 PROVE  /\ Covered(c) # {}
                        /\ listing[c].complete => Len(listing[c].catalog.data) \in Covered(c)
                        /\ \A r \in Resumes(c) :
                            r.offset \in Covered(c) /\ r.offset < Len(r.catalog.data)
      BY DEF PagesOfOneCatalog
    <2> DEFINE l == listing[c]
    <2>1. PICK k \in 0 .. Len(l.catalog.data) :
            /\ l.models = Allowed(l.policy, SubSeq(l.catalog.data, 1, k))
            /\ l.complete => k = Len(l.catalog.data)
      BY <1>1 DEF ListingInv, ListInv
    <2>2. k \in Covered(c)
      BY <2>1 DEF Covered
    <2>3. ASSUME NEW r \in Resumes(c)
          PROVE  r.offset \in Covered(c) /\ r.offset < Len(r.catalog.data)
      <3>1. PICK g \in Entry(gateway, l.cursor) : r \in Entry(bridge, g.provider)
        BY <2>3 DEF Resumes
      <3>2. Continues(l, r)
        BY <3>1, <1>1 DEF ListingInv, CursorInv
      <3>3. r.offset \in Nat /\ r.catalog.data \in Seq(Described)
        BY <3>1, <1>1, CatalogAssumption DEF ListingInv, TypeInv, Entry, Cursor
      <3> HIDE DEF l
      <3>4. r.offset < Len(r.catalog.data) /\ r.catalog = l.catalog
        BY <3>2 DEF Continues
      <3>5. r.offset \in 0 .. Len(l.catalog.data)
        BY <3>3, <3>4, SMT
      <3> QED
        BY <3>2, <3>4, <3>5 DEF Covered, Continues, l
    <2> QED
      BY <2>1, <2>2, <2>3
  <1> QED
    BY <1>1, ListingInvHolds, PTL

(* What a completed listing shows is exactly what a turn may choose from   *)
(* its catalog under its policy, and a default it shows can be chosen, for *)
(* any catalogs and policies (models, resolve_settings,                    *)
(* validate_catalog_selection).                                            *)
THEOREM ListedAlwaysSelectable == Spec => []ListedIsSelectable
  <1>1. ASSUME ListingInv PROVE ListedIsSelectable
    <2> SUFFICES ASSUME NEW c \in Clients,
                        listing[c].complete, Distinct(listing[c].catalog.data)
                 PROVE  LET shown == Range(listing[c].models)
                        IN  /\ \A m \in Models, e \in Efforts :
                                (\E x \in shown : x.id = m /\ e \in x.efforts)
                                <=> Selectable(listing[c].policy, listing[c].catalog, m, e)
                            /\ \A x \in shown : DefaultListed(x)
      BY DEF ListedIsSelectable
    <2> DEFINE l == listing[c]
               p == l.policy
               data == l.catalog.data
    <2>1. l \in Listing /\ ListInv(l)
      BY <1>1 DEF ListingInv, TypeInv
    <2>2. l.catalog # None
      <3>1. NoListing.complete = FALSE
        BY DEF NoListing
      <3> QED
        BY <3>1, <2>1 DEF ListInv
    <2>3. /\ l.models = Allowed(p, SubSeq(data, 1, Len(data)))
          /\ l.catalog.revision = p.revision
          /\ Checked(data, Len(data))
      BY <2>1, <2>2 DEF ListInv
    <2>4. data \in Seq(Described)
      BY <2>1, <2>2, CatalogAssumption DEF Listing
    <2>5. Distinct(data)
      OBVIOUS
    <2> HIDE DEF l, p, data
    <2>6. /\ Len(data) \in 0 .. Len(data) /\ DOMAIN data = 1 .. Len(data)
          /\ \A i \in 1 .. Len(data) : data[i] \in Described
      BY <2>4, SMT
    <2>7. Range(l.models) = Surviving(p, data, 1, Len(data))
      BY <2>3, <2>4, <2>6, AllowedBeginning
    <2>8. ASSUME NEW m, NEW e
          PROVE  (\E x \in Range(l.models) : x.id = m /\ e \in x.efforts)
                 <=> Selectable(p, l.catalog, m, e)
      <3>1. ASSUME NEW x \in Range(l.models), x.id = m, e \in x.efforts
            PROVE  Selectable(p, l.catalog, m, e)
        <4>1. PICK i \in 1 .. Len(data) : x = Restricted(p, data[i])
          BY <2>7, <3>1 DEF Surviving
        <4> DEFINE d == data[i]
        <4>2. d \in Described /\ x = Restricted(p, d)
          BY <4>1, <2>6
        <4> HIDE DEF d
        <4>3. x.id = d.id /\ x.efforts = {f \in d.efforts : Permits(p, d.id, f)}
          BY <4>2, RestrictedFields
        <4>4. Permits(p, m, e) /\ d.id = m /\ e \in d.efforts
          BY <4>3, <3>1
        <4> QED
          BY <4>4, <2>3, <2>5, <2>6 DEF Selectable, Checked, data, d
      <3>2. ASSUME Selectable(p, l.catalog, m, e)
            PROVE  \E x \in Range(l.models) : x.id = m /\ e \in x.efforts
        <4>1. PICK i \in 1 .. Len(data) :
                data[i].id = m /\ e \in data[i].efforts /\ Permits(p, m, e)
          BY <3>2, <2>6 DEF Selectable, data
        <4> DEFINE d == data[i]
                   x == Restricted(p, d)
        <4>2. /\ d \in Described /\ d.id = m /\ e \in d.efforts /\ Permits(p, m, e)
          BY <4>1, <2>6
        <4> HIDE DEF d
        <4>3. x.id = d.id /\ x.efforts = {f \in d.efforts : Permits(p, d.id, f)}
          BY <4>2, RestrictedFields
        <4> HIDE DEF x
        <4>4. x.id = m /\ e \in x.efforts
          BY <4>2, <4>3
        <4>5. x \in Range(l.models)
          BY <4>4, <2>7 DEF Surviving, d, x
        <4> QED
          BY <4>4, <4>5
      <3> QED
        BY <3>1, <3>2
    <2>9. ASSUME NEW x \in Range(l.models) PROVE DefaultListed(x)
      <3>1. PICK i \in 1 .. Len(data) : x = Restricted(p, data[i])
        BY <2>7 DEF Surviving
      <3> DEFINE d == data[i]
      <3>2. d \in Described /\ x = Restricted(p, d) /\ DefaultListed(d)
        BY <3>1, <2>3, <2>6 DEF Checked
      <3> HIDE DEF d
      <3>3. /\ x.efforts = {e \in d.efforts : Permits(p, d.id, e)}
            /\ x.default = IF Permits(p, d.id, d.default) THEN d.default ELSE None
        BY <3>2, RestrictedFields
      <3> QED
        BY <3>2, <3>3 DEF DefaultListed
    <2> QED
      BY <2>8, <2>9 DEF l, p
  <1> QED
    BY <1>1, ListingInvHolds, PTL
===============================================================================
