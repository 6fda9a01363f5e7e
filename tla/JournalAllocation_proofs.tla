------------------------ MODULE JournalAllocation_proofs ------------------------
(***************************************************************************)
(* Proofs about JournalAllocation, for any number of versions, facts,        *)
(* targets and transactions.  The argument is that of two-phase locking: what *)
(* a transaction has written it holds the locks of, and nobody else commits   *)
(* a change of what it saw under them.  That the lines of a version sum up to *)
(* its postings rests on facts about finite sums, which are proved first.     *)
(***************************************************************************)
EXTENDS MCLedger, PersonalMessage_proofs, SequenceTheorems, FiniteSetTheorems, TLAPS

-----------------------------------------------------------------------------
(* The inductive invariant. *)

\* The locks on which the conditions of a statement rest.
Needed(s) ==
    CASE s.kind \in {"post", "leave"} -> {Version(s.version)}
      [] s.kind = "open" -> {FactLock(s.fact), Version(VersionOf[s.fact]), Version(s.version)}
      [] s.kind = "allocate" -> {SetRow(s.fact, s.version), FactLock(s.fact),
                                 Version(s.version)}
      [] s.kind = "balance" -> {SetRow(s.fact, s.version), FactLock(s.fact),
                                Version(VersionOf[s.fact]), Version(s.version)}

\* What is common to the statements and to what is left of them.
WellFormed(s) ==
    /\ s \in StatementType /\ s.need # <<>>
    /\ s.kind # "leave" => s.fact \in Facts
    /\ s.kind = "post" => s.version = VersionOf[s.fact]
    /\ s.kind \in {"open", "allocate", "balance"} => s.version \in DerivedFrom(s.fact)
    /\ s.kind = "allocate" => s.part \in Targets
    /\ s.kind = "open" => s.need[Len(s.need)] \in VersionRows

\* A statement still has to take the locks it does not hold.
UnderWay(t, s) ==
    WellFormed(s) /\ \A l \in Needed(s) : holder[l] = t \/ \E i \in 1..Len(s.need) : s.need[i] = l

TablesOK ==
    /\ DOMAIN committed = Rows /\ DOMAIN writes = Txns /\ DOMAIN statement = Txns
    /\ holder \in [Locks -> Txns \cup {None}]
    /\ \A v \in Versions : committed[Version(v)] \in {"draft", "validating"}
    /\ \A f \in Facts : committed[Posting(f)] \in {"none", "entry", "line", "fact"}
    /\ \A f \in Facts : \A v \in DerivedFrom(f) :
          committed[SetRow(f, v)] \in {"none", "draft", "balanced"}

HoldsDraft(t, v) == holder[Version(v)] = t /\ committed[Version(v)] = "draft"

\* What a transaction has written is under its locks, and in drafts.
RowOK(t, r, value) ==
    \/ \E v \in Versions : r = Version(v) /\ holder[r] = t /\ value = "validating"
    \/ \E f \in Facts :
          /\ r = Posting(f) /\ HoldsDraft(t, VersionOf[f])
          /\ committed[r] # "fact" /\ value \in {"entry", "line", "fact"}
    \/ \E f \in Facts : \E v \in DerivedFrom(f) :
          /\ r = SetRow(f, v) /\ holder[FactLock(f)] = t
          /\ HoldsDraft(t, VersionOf[f]) /\ HoldsDraft(t, v) /\ value \in {"draft", "balanced"}
    \/ \E f \in Facts : \E v \in DerivedFrom(f) : \E g \in Targets :
          r = Part(f, v, g) /\ holder[FactLock(f)] = t /\ HoldsDraft(t, v)

WritesOK(t) == \A r \in DOMAIN writes[t] : RowOK(t, r, writes[t][r])

StatementsOK == \A t \in Txns : \A s \in {statement[t]} : s # None => UnderWay(t, s)

\* Locks belong to transactions under way.
LocksOK ==
    \A l \in Locks : holder[l] # None =>
        writes[holder[l]] # Empty \/ statement[holder[l]] # None

\* A set reconciles in what is committed and in what any transaction sees.
SetOK(db, f, v) ==
    /\ \A g \in Targets : db[Part(f, v, g)] \in Nat
    /\ Total(db, f, v) <= Amount[f]
    /\ db[SetRow(f, v)] = "balanced" => Total(db, f, v) = Amount[f]
    /\ db[SetRow(f, v)] # "none" => db[Posting(f)] = "fact"

SetsOK(db) == \A f \in Facts : \A v \in DerivedFrom(f) : SetOK(db, f, v)

LedgerInv ==
    /\ TablesOK /\ StatementsOK /\ LocksOK
    /\ \A t \in Txns : WritesOK(t) /\ SetsOK(Sees(t))
    /\ SetsOK(committed)

-----------------------------------------------------------------------------
(* Sums over finite sets.  The library's induction takes a predicate; its        *)
(* well-foundedness is a fact about sets, and so is the induction below.         *)

\* Induction over the subsets of a finite set, as a fact about a set of sets.
LEMMA SubsetInduction ==
    ASSUME NEW S, IsFiniteSet(S), NEW Good,
           ASSUME NEW T \in SUBSET S, \A U \in (SUBSET T) \ {T} : U \in Good
           PROVE  T \in Good
    PROVE  \A T \in SUBSET S : T \in Good
<1> SUFFICES ASSUME (SUBSET S) \ Good # {}
             PROVE  FALSE
  OBVIOUS
<1> DEFINE R == StrictSubsetOrdering(S)
           F == FiniteSubsetsOf(S)
           Bad == (SUBSET S) \ Good
<1>1. IsWellFoundedOn(R, F)
  BY FS_StrictSubsetOrderingWellFounded
<1>2. Bad \subseteq F /\ Bad # {}
  BY FS_Subset DEF FiniteSubsetsOf
<1>3. PICK T \in Bad : \A U \in Bad : ~ (<<U, T>> \in R)
  <2> HIDE DEF R, F, Bad
  <2> QED BY <1>1, <1>2, WFMin
<1>4. ASSUME NEW U \in (SUBSET T) \ {T} PROVE U \in Good
  BY <1>3 DEF R, StrictSubsetOrdering
<1> QED BY <1>3, <1>4

\* The element a sum begins with.
Chosen(s) == CHOOSE x \in s : TRUE

LEMMA ChosenIn == ASSUME NEW s, s # {} PROVE Chosen(s) \in s
  BY DEF Chosen

\* g holds the sums of f over the subsets of S.
SumsOf(g, f, S) ==
    g = [s \in SUBSET S |-> IF s = {} THEN 0 ELSE f[Chosen(s)] + g[s \ {Chosen(s)}]]

\* The sum of f over S.
SumOver(f, S) == (CHOOSE g : SumsOf(g, f, S))[S]

\* Two such functions agree where both are defined.
LEMMA SumsAgree ==
    ASSUME NEW S, IsFiniteSet(S), NEW T, NEW f, NEW g, NEW h, SumsOf(g, f, S), SumsOf(h, f, T)
    PROVE  \A w \in SUBSET S : w \subseteq T => g[w] = h[w]
<1> DEFINE Good == {w \in SUBSET S : w \subseteq T => g[w] = h[w]}
<1>1. ASSUME NEW w \in SUBSET S, \A u \in (SUBSET w) \ {w} : u \in Good
      PROVE  w \in Good
  <2> SUFFICES ASSUME w \subseteq T PROVE g[w] = h[w]
    OBVIOUS
  <2>1. /\ g[w] = IF w = {} THEN 0 ELSE f[Chosen(w)] + g[w \ {Chosen(w)}]
        /\ h[w] = IF w = {} THEN 0 ELSE f[Chosen(w)] + h[w \ {Chosen(w)}]
    BY DEF SumsOf
  <2>2. w # {} => g[w \ {Chosen(w)}] = h[w \ {Chosen(w)}]
    BY <1>1, ChosenIn
  <2> QED BY <2>1, <2>2
<1> HIDE DEF Good
<1>2. \A w \in SUBSET S : w \in Good
  BY <1>1, SubsetInduction
<1> QED BY <1>2 DEF Good

\* There is one for every finite set.
LEMMA SumsExist ==
    ASSUME NEW S, IsFiniteSet(S), NEW f PROVE \E g : SumsOf(g, f, S)
<1> DEFINE Good == {T \in SUBSET S : \E g : SumsOf(g, f, T)}
<1>1. ASSUME NEW T \in SUBSET S, \A U \in (SUBSET T) \ {T} : U \in Good
      PROVE  T \in Good
  <2> DEFINE G(U) == CHOOSE g : SumsOf(g, f, U)
             h == [s \in SUBSET T |-> IF s = {} THEN 0
                                      ELSE f[Chosen(s)] + G(s \ {Chosen(s)})[s \ {Chosen(s)}]]
  <2>1. ASSUME NEW U \in (SUBSET T) \ {T} PROVE SumsOf(G(U), f, U) /\ IsFiniteSet(U)
    BY <1>1, FS_Subset
  <2> HIDE DEF G
  <2>2. ASSUME NEW u \in (SUBSET T) \ {T} PROVE h[u] = G(u)[u]
    <3>1. G(u)[u] = IF u = {} THEN 0 ELSE f[Chosen(u)] + G(u)[u \ {Chosen(u)}]
      BY <2>1 DEF SumsOf
    <3>2. ASSUME u # {}, NEW w, w = u \ {Chosen(u)} PROVE G(u)[w] = G(w)[w]
      <4>1. w \in (SUBSET T) \ {T} /\ w \subseteq u
        BY <3>2, ChosenIn
      <4> QED BY <2>1, <4>1, SumsAgree
    <3> QED BY <3>1, <3>2
  <2>3. SumsOf(h, f, T)
    <3>1. ASSUME NEW s \in SUBSET T, s # {} PROVE s \ {Chosen(s)} \in (SUBSET T) \ {T}
      BY <3>1, ChosenIn
    <3>2. \A s \in SUBSET T : h[s] = IF s = {} THEN 0 ELSE f[Chosen(s)] + h[s \ {Chosen(s)}]
      BY <2>2, <3>1
    <3> QED BY <3>2 DEF SumsOf
  <2> QED BY <2>3
<1> HIDE DEF Good
<1>2. \A T \in SUBSET S : T \in Good
  BY <1>1, SubsetInduction
<1> QED BY <1>2 DEF Good

\* The equation of the recursion.
LEMMA SumUnfolds ==
    ASSUME NEW S, IsFiniteSet(S), NEW f
    PROVE  SumOver(f, S) = IF S = {} THEN 0 ELSE f[Chosen(S)] + SumOver(f, S \ {Chosen(S)})
<1> DEFINE G(U) == CHOOSE g : SumsOf(g, f, U)
<1>1. \A U : IsFiniteSet(U) => SumsOf(G(U), f, U)
  BY SumsExist
<1>2. \A U : SumOver(f, U) = G(U)[U]
  BY DEF SumOver
<1> HIDE DEF G
<1>3. G(S)[S] = IF S = {} THEN 0 ELSE f[Chosen(S)] + G(S)[S \ {Chosen(S)}]
  BY <1>1 DEF SumsOf
<1>4. ASSUME S # {}, NEW w, w = S \ {Chosen(S)} PROVE G(S)[w] = G(w)[w]
  <2>1. w \subseteq S /\ IsFiniteSet(w)
    BY <1>4, FS_Subset
  <2> QED BY <1>1, <2>1, SumsAgree
<1> QED BY <1>2, <1>3, <1>4

\* Sums of numbers are numbers.
LEMMA SumIsNat ==
    ASSUME NEW S, IsFiniteSet(S), NEW f, \A x \in S : f[x] \in Nat
    PROVE  \A T \in SUBSET S : SumOver(f, T) \in Nat
<1> DEFINE Good == {T \in SUBSET S : SumOver(f, T) \in Nat}
<1>1. ASSUME NEW T \in SUBSET S, \A U \in (SUBSET T) \ {T} : U \in Good
      PROVE  T \in Good
  <2>1. SumOver(f, T) = IF T = {} THEN 0 ELSE f[Chosen(T)] + SumOver(f, T \ {Chosen(T)})
    BY SumUnfolds, FS_Subset
  <2> QED BY <1>1, <2>1, ChosenIn
<1> HIDE DEF Good
<1>2. \A T \in SUBSET S : T \in Good
  BY <1>1, SubsetInduction
<1> QED BY <1>2 DEF Good

\* The order in which the elements are added does not matter.
LEMMA SumOneMore ==
    ASSUME NEW S, IsFiniteSet(S), NEW f, \A x \in S : f[x] \in Nat
    PROVE  \A y \in S : SumOver(f, S) = f[y] + SumOver(f, S \ {y})
<1> DEFINE Good == {T \in SUBSET S : \A y \in T : SumOver(f, T) = f[y] + SumOver(f, T \ {y})}
<1>1. ASSUME NEW T \in SUBSET S, \A U \in (SUBSET T) \ {T} : U \in Good
      PROVE  T \in Good
  <2> SUFFICES ASSUME NEW y \in T, NEW c, c = Chosen(T)
               PROVE  SumOver(f, T) = f[y] + SumOver(f, T \ {y})
    OBVIOUS
  <2>1. c \in T /\ SumOver(f, T) = f[c] + SumOver(f, T \ {c})
    BY SumUnfolds, FS_Subset, ChosenIn
  <2>2. CASE y # c
    <3>1. y \in T \ {c} /\ T \ {c} \in (SUBSET T) \ {T} /\ c \in T \ {y} /\ T \ {y} \in (SUBSET T) \ {T}
      BY <2>1, <2>2
    <3>2. SumOver(f, T \ {c}) = f[y] + SumOver(f, (T \ {c}) \ {y})
      BY <1>1, <3>1
    <3>3. SumOver(f, T \ {y}) = f[c] + SumOver(f, (T \ {y}) \ {c})
      BY <1>1, <3>1
    <3>4. (T \ {y}) \ {c} = (T \ {c}) \ {y}
      OBVIOUS
    <3>5. SumOver(f, (T \ {c}) \ {y}) \in Nat /\ f[y] \in Nat /\ f[c] \in Nat
      BY <2>1, SumIsNat
    <3>6. \A a, b, d \in Nat : a + (b + d) = b + (a + d)
      OBVIOUS
    <3>7. f[c] + (f[y] + SumOver(f, (T \ {c}) \ {y})) = f[y] + (f[c] + SumOver(f, (T \ {c}) \ {y}))
      BY <3>5, <3>6
    <3> QED BY <2>1, <3>2, <3>3, <3>4, <3>7
  <2> QED BY <2>1, <2>2
<1> HIDE DEF Good
<1>2. \A T \in SUBSET S : T \in Good
  BY <1>1, SubsetInduction
<1> QED BY <1>2 DEF Good

\* Equal terms give equal sums.
LEMMA SumCongruent ==
    ASSUME NEW S, IsFiniteSet(S), NEW f, NEW h, \A x \in S : f[x] = h[x]
    PROVE  SumOver(f, S) = SumOver(h, S)
<1> DEFINE Good == {T \in SUBSET S : SumOver(f, T) = SumOver(h, T)}
<1>1. ASSUME NEW T \in SUBSET S, \A U \in (SUBSET T) \ {T} : U \in Good
      PROVE  T \in Good
  <2>1. /\ SumOver(f, T) = IF T = {} THEN 0 ELSE f[Chosen(T)] + SumOver(f, T \ {Chosen(T)})
        /\ SumOver(h, T) = IF T = {} THEN 0 ELSE h[Chosen(T)] + SumOver(h, T \ {Chosen(T)})
    BY SumUnfolds, FS_Subset
  <2>2. T # {} => SumOver(f, T \ {Chosen(T)}) = SumOver(h, T \ {Chosen(T)})
    BY <1>1, ChosenIn
  <2> QED BY <2>1, <2>2, ChosenIn
<1> HIDE DEF Good
<1>2. \A T \in SUBSET S : T \in Good
  BY <1>1, SubsetInduction
<1> QED BY <1>2 DEF Good

\* One term that was zero changes the sum by what it becomes.
LEMMA SumChanged ==
    ASSUME NEW S, IsFiniteSet(S), NEW f, NEW h, NEW y \in S,
           \A x \in S : f[x] \in Nat, h[y] \in Nat,
           f[y] = 0, \A x \in S : x # y => h[x] = f[x]
    PROVE  SumOver(h, S) = SumOver(f, S) + h[y]
<1>1. \A x \in S : h[x] \in Nat
  OBVIOUS
<1>2. SumOver(f, S) = 0 + SumOver(f, S \ {y}) /\ SumOver(h, S) = h[y] + SumOver(h, S \ {y})
  BY <1>1, SumOneMore
<1>3. SumOver(f, S \ {y}) = SumOver(h, S \ {y})
  BY SumCongruent, FS_RemoveElement
<1>4. SumOver(f, S \ {y}) \in Nat
  BY SumIsNat
<1> QED BY <1>2, <1>3, <1>4

\* Terms that are zero do not count.
LEMMA SumOfPositive ==
    ASSUME NEW S, IsFiniteSet(S), NEW f, \A x \in S : f[x] \in Nat
    PROVE  SumOver(f, S) = SumOver(f, {x \in S : f[x] > 0})
<1> DEFINE Good == {T \in SUBSET S : SumOver(f, T) = SumOver(f, {x \in T : f[x] > 0})}
<1>1. ASSUME NEW T \in SUBSET S, \A U \in (SUBSET T) \ {T} : U \in Good
      PROVE  T \in Good
  <2>1. CASE T = {}
    BY <2>1
  <2>2. ASSUME NEW y \in T, NEW R, R = T \ {y} PROVE T \in Good
    <3>1. IsFiniteSet(T) /\ IsFiniteSet({x \in T : f[x] > 0})
      BY FS_Subset
    <3>2. SumOver(f, T) = f[y] + SumOver(f, R)
      BY <2>2, <3>1, SumOneMore
    <3>3. SumOver(f, R) = SumOver(f, {x \in R : f[x] > 0}) /\ SumOver(f, R) \in Nat
      <4>1. R \in (SUBSET T) \ {T} /\ R \in SUBSET S
        BY <2>2
      <4> QED BY <1>1, <4>1, SumIsNat
    <3>4. CASE f[y] = 0
      <4>1. {x \in T : f[x] > 0} = {x \in R : f[x] > 0}
        BY <2>2, <3>4
      <4> QED BY <3>2, <3>3, <3>4, <4>1
    <3>5. CASE f[y] # 0
      <4>1. y \in {x \in T : f[x] > 0} /\ {x \in T : f[x] > 0} \ {y} = {x \in R : f[x] > 0}
        BY <2>2, <3>5
      <4>2. SumOver(f, {x \in T : f[x] > 0}) = f[y] + SumOver(f, {x \in R : f[x] > 0})
        BY <3>1, <4>1, SumOneMore
      <4> QED BY <3>2, <3>3, <4>2
    <3> QED BY <3>4, <3>5
  <2> QED BY <2>1, <2>2
<1> HIDE DEF Good
<1>2. \A T \in SUBSET S : T \in Good
  BY <1>1, SubsetInduction
<1> QED BY <1>2 DEF Good

\* The terms may be named by an injection.
LEMMA SumRenamed ==
    ASSUME NEW S, IsFiniteSet(S), NEW f, NEW h, NEW e,
           \A x \in S : f[x] \in Nat /\ h[e[x]] = f[x],
           \A x, y \in S : e[x] = e[y] => x = y
    PROVE  IsFiniteSet({e[x] : x \in S}) /\ SumOver(h, {e[x] : x \in S}) = SumOver(f, S)
<1> DEFINE Good == {T \in SUBSET S : /\ IsFiniteSet({e[x] : x \in T})
                                     /\ SumOver(h, {e[x] : x \in T}) = SumOver(f, T)}
<1>1. ASSUME NEW T \in SUBSET S, \A U \in (SUBSET T) \ {T} : U \in Good
      PROVE  T \in Good
  <2>1. CASE T = {}
    <3>1. {e[x] : x \in T} = {}
      BY <2>1
    <3> QED BY <2>1, <3>1, FS_EmptySet, SumUnfolds
  <2>2. ASSUME NEW y \in T, NEW R, R = T \ {y},
               NEW A, A = {e[x] : x \in T}, NEW B, B = {e[x] : x \in R}
        PROVE  T \in Good
    <3>1. IsFiniteSet(B) /\ SumOver(h, B) = SumOver(f, R)
      <4>1. R \in (SUBSET T) \ {T}
        BY <2>2
      <4> QED BY <1>1, <2>2, <4>1
    <3>2. A = B \cup {e[y]} /\ e[y] \notin B /\ B = A \ {e[y]} /\ e[y] \in A
      BY <2>2
    <3>3. IsFiniteSet(A)
      BY <3>1, <3>2, FS_AddElement
    <3>4. \A a \in A : h[a] \in Nat
      BY <2>2
    <3>5. SumOver(h, A) = h[e[y]] + SumOver(h, B)
      BY <3>2, <3>3, <3>4, SumOneMore
    <3>6. SumOver(f, T) = f[y] + SumOver(f, R)
      BY <2>2, FS_Subset, SumOneMore
    <3> QED BY <2>2, <3>1, <3>3, <3>5, <3>6
  <2> QED BY <2>1, <2>2
<1> HIDE DEF Good
<1>2. \A T \in SUBSET S : T \in Good
  BY <1>1, SubsetInduction
<1> QED BY <1>2 DEF Good

\* Disjoint sets add up.
LEMMA SumOfUnion ==
    ASSUME NEW S, IsFiniteSet(S), NEW T, IsFiniteSet(T), S \cap T = {},
           NEW f, \A x \in S \cup T : f[x] \in Nat
    PROVE  SumOver(f, S \cup T) = SumOver(f, S) + SumOver(f, T)
<1> DEFINE Good == {U \in SUBSET S : SumOver(f, U \cup T) = SumOver(f, U) + SumOver(f, T)}
<1>0. SumOver(f, T) \in Nat /\ \A U \in SUBSET S : SumOver(f, U) \in Nat
  BY SumIsNat
<1>1. ASSUME NEW U \in SUBSET S, \A W \in (SUBSET U) \ {U} : W \in Good
      PROVE  U \in Good
  <2>1. CASE U = {}
    <3>1. U \cup T = T /\ SumOver(f, U) = 0
      BY <2>1, FS_EmptySet, SumUnfolds
    <3> QED BY <1>0, <3>1
  <2>2. ASSUME NEW y \in U, NEW R, R = U \ {y} PROVE U \in Good
    <3>1. IsFiniteSet(U) /\ IsFiniteSet(U \cup T)
      BY FS_Subset, FS_Union
    <3>2. (U \cup T) \ {y} = R \cup T
      BY <2>2
    <3>3. SumOver(f, U \cup T) = f[y] + SumOver(f, R \cup T) /\ SumOver(f, U) = f[y] + SumOver(f, R)
      <4>1. /\ \A x \in U \cup T : f[x] \in Nat
            /\ \A x \in U : f[x] \in Nat
        OBVIOUS
      <4> QED BY <2>2, <3>1, <3>2, <4>1, SumOneMore
    <3>4. R \in (SUBSET U) \ {U} /\ R \in SUBSET S
      BY <2>2
    <3>5. SumOver(f, R \cup T) = SumOver(f, R) + SumOver(f, T)
      BY <1>1, <3>4
    <3>6. \A a, b, d \in Nat : a + (b + d) = (a + b) + d
      OBVIOUS
    <3>7. f[y] + (SumOver(f, R) + SumOver(f, T)) = (f[y] + SumOver(f, R)) + SumOver(f, T)
      BY <1>0, <2>2, <3>4, <3>6
    <3> QED BY <3>3, <3>5, <3>7
  <2> QED BY <2>1, <2>2
<1> HIDE DEF Good
<1>2. \A U \in SUBSET S : U \in Good
  BY <1>1, SubsetInduction
<1> QED BY <1>2 DEF Good

\* What is divided into disjoint groups is the sum of the groups.
LEMMA SumOfGroups ==
    ASSUME NEW S, IsFiniteSet(S), NEW amount, NEW group, NEW f, NEW all,
           \A x \in S : /\ IsFiniteSet(group[x]) /\ SumOver(f, group[x]) = amount[x]
                        /\ amount[x] \in Nat /\ \A z \in group[x] : f[z] \in Nat,
           \A x, y \in S : x # y => group[x] \cap group[y] = {},
           all = UNION {group[x] : x \in S}
    PROVE  IsFiniteSet(all) /\ SumOver(f, all) = SumOver(amount, S)
<1> DEFINE All(T) == UNION {group[x] : x \in T}
           Good == {T \in SUBSET S : IsFiniteSet(All(T)) /\ SumOver(f, All(T)) = SumOver(amount, T)}
<1>1. ASSUME NEW T \in SUBSET S, \A U \in (SUBSET T) \ {T} : U \in Good
      PROVE  T \in Good
  <2>1. CASE T = {}
    <3>1. All(T) = {}
      BY <2>1
    <3> QED BY <2>1, <3>1, FS_EmptySet, SumUnfolds
  <2>2. ASSUME NEW y \in T, NEW R, R = T \ {y} PROVE T \in Good
    <3>1. IsFiniteSet(All(R)) /\ SumOver(f, All(R)) = SumOver(amount, R)
      <4>1. R \in (SUBSET T) \ {T}
        BY <2>2
      <4> QED BY <1>1, <4>1
    <3>2. All(T) = group[y] \cup All(R)
      BY <2>2
    <3>3. group[y] \cap All(R) = {}
      BY <2>2
    <3>4. IsFiniteSet(group[y]) /\ \A z \in group[y] \cup All(R) : f[z] \in Nat
      BY <2>2
    <3> HIDE DEF All
    <3>5. IsFiniteSet(All(T))
      <4>1. ASSUME NEW A, NEW B, IsFiniteSet(A), IsFiniteSet(B) PROVE IsFiniteSet(A \cup B)
        BY <4>1, FS_Union
      <4>2. IsFiniteSet(group[y] \cup All(R))
        BY <3>1, <3>4, <4>1
      <4> QED BY <3>2, <4>2
    <3>6. SumOver(f, All(T)) = SumOver(f, group[y]) + SumOver(f, All(R))
      BY <3>1, <3>2, <3>3, <3>4, SumOfUnion
    <3>7. SumOver(amount, T) = amount[y] + SumOver(amount, R)
      BY <2>2, FS_Subset, SumOneMore
    <3> QED BY <3>1, <3>5, <3>6, <3>7
  <2> QED BY <2>1, <2>2
<1> HIDE DEF Good
<1>2. \A T \in SUBSET S : T \in Good
  BY <1>1, SubsetInduction
<1> QED BY <1>2 DEF Good

\* The sums of the ledger are such sums.
LEMMA TotalIsSum ==
    ASSUME NEW db, NEW f, NEW v
    PROVE  Total(db, f, v) = SumOver(Parts(db, f, v), Targets)
<1>1. DOMAIN Parts(db, f, v) = Targets
  BY DEF Parts
<1> QED BY <1>1 DEF Total, SumFunction, SumFunctionOnSet, FoldFunctionOnSet, MapThenFoldSet,
                    SumOver, SumsOf, Chosen

\* What was posted.
LEMMA AmountsAreSum ==
    ASSUME NEW F PROVE MapThenSumSet(LAMBDA f : Amount[f], F) = SumOver(Amount, F)
  BY DEF MapThenSumSet, MapThenFoldSet, SumOver, SumsOf, Chosen

\* What the lines show.
LEMMA LinesAreSum ==
    ASSUME NEW L, IsFiniteSet(L)
    PROVE  MapThenSumSet(LAMBDA line : line[3], L) = SumOver([l \in L |-> l[3]], L)
<1> DEFINE third == [l \in L |-> l[3]]
           LineSums(g) ==
             g = [s \in SUBSET L |-> IF s = {} THEN 0 ELSE Chosen(s)[3] + g[s \ {Chosen(s)}]]
           h == CHOOSE g : LineSums(g)
<1>1. MapThenSumSet(LAMBDA line : line[3], L) = h[L]
  BY DEF MapThenSumSet, MapThenFoldSet, Chosen
<1>2. \A s \in SUBSET L : s # {} => third[Chosen(s)] = Chosen(s)[3]
  BY ChosenIn
<1>3. ASSUME NEW g PROVE LineSums(g) <=> SumsOf(g, third, L)
  BY <1>2 DEF SumsOf
<1>4. PICK g : SumsOf(g, third, L)
  BY SumsExist
<1>5. LineSums(h)
  <2>1. LineSums(g)
    BY <1>3, <1>4
  <2> HIDE DEF LineSums
  <2> QED BY <2>1
<1>6. SumsOf(h, third, L)
  BY <1>3, <1>5
<1>7. SumsOf(CHOOSE k : SumsOf(k, third, L), third, L)
  BY <1>4
<1> HIDE DEF h, third, LineSums
<1>8. h[L] = SumOver(third, L)
  BY <1>6, <1>7, SumsAgree DEF SumOver
<1> QED BY <1>1, <1>8 DEF third

-----------------------------------------------------------------------------
(* Rows, locks and what a transaction sees. *)

\* Rows and locks of different kinds, or with different keys, are different.
LEMMA RowFacts ==
    /\ \A v, w : Version(v) = Version(w) => v = w
    /\ \A f, g : Posting(f) = Posting(g) => f = g
    /\ \A f, g, v, w : SetRow(f, v) = SetRow(g, w) => f = g /\ v = w
    /\ \A f, g, v, w, h, i : Part(f, v, h) = Part(g, w, i) => f = g /\ v = w /\ h = i
    /\ \A f, v : Version(v) # Posting(f) /\ Version(v) # FactLock(f)
    /\ \A f, v, w : Version(v) # SetRow(f, w)
    /\ \A f, v, w, h : Version(v) # Part(f, w, h)
    /\ \A f, g, v : Posting(f) # SetRow(g, v) /\ FactLock(f) # SetRow(g, v)
    /\ \A f, g, v, h : Posting(f) # Part(g, v, h)
    /\ \A f, g, v, w, h : SetRow(f, v) # Part(g, w, h)
    /\ \A f, g : FactLock(f) = FactLock(g) => f = g
  BY DEF Version, Posting, SetRow, Part, FactLock

LEMMA KnownRows ==
    /\ \A v \in Versions : Version(v) \in VersionRows /\ Version(v) \in Rows \cap Locks
    /\ \A f \in Facts :
          /\ VersionOf[f] \in Versions /\ VersionOf[f] \in DerivedFrom(f)
          /\ Posting(f) \in Rows /\ FactLock(f) \in Locks
    /\ \A f \in Facts : \A v \in DerivedFrom(f) :
          /\ v \in Versions /\ SetRow(f, v) \in Rows \cap Locks
          /\ \A g \in Targets : Part(f, v, g) \in Rows
<1>1. \A v \in Versions : Version(v) \in VersionRows /\ Version(v) \in Rows \cap Locks
  BY DEF VersionRows, Rows, Locks
<1>2. \A f \in Facts :
          /\ VersionOf[f] \in Versions /\ VersionOf[f] \in DerivedFrom(f)
          /\ Posting(f) \in Rows /\ FactLock(f) \in Locks
  BY LedgerAssumption DEF DerivedFrom, PostingRows, Rows, Locks
<1>3. ASSUME NEW f \in Facts, NEW v \in DerivedFrom(f)
      PROVE  /\ v \in Versions /\ SetRow(f, v) \in Rows \cap Locks
             /\ \A g \in Targets : Part(f, v, g) \in Rows
  <2>1. v \in Versions
    BY LedgerAssumption DEF DerivedFrom
  <2>2. SetRow(f, v) \in SetRows
    BY DEF SetRows
  <2>3. \A g \in Targets : Part(f, v, g) \in PartRows
    BY DEF PartRows
  <2> QED BY <2>1, <2>2, <2>3 DEF Rows, Locks
<1> QED BY <1>1, <1>2, <1>3

\* What a transaction that wrote a row holds.
LEMMA Wrote ==
    ASSUME NEW t \in Txns, WritesOK(t)
    PROVE  /\ DOMAIN writes[t] \subseteq Rows
           /\ \A v \in Versions : Version(v) \in DOMAIN writes[t] =>
                 holder[Version(v)] = t /\ writes[t][Version(v)] = "validating"
           /\ \A f \in Facts : Posting(f) \in DOMAIN writes[t] =>
                 /\ HoldsDraft(t, VersionOf[f]) /\ committed[Posting(f)] # "fact"
                 /\ writes[t][Posting(f)] \in {"entry", "line", "fact"}
           /\ \A f \in Facts : \A v \in DerivedFrom(f) :
                 /\ SetRow(f, v) \in DOMAIN writes[t] =>
                       /\ holder[FactLock(f)] = t
                       /\ HoldsDraft(t, VersionOf[f]) /\ HoldsDraft(t, v)
                       /\ writes[t][SetRow(f, v)] \in {"draft", "balanced"}
                 /\ \A g \in Targets : Part(f, v, g) \in DOMAIN writes[t] =>
                       holder[FactLock(f)] = t /\ HoldsDraft(t, v)
<1>1. DOMAIN writes[t] \subseteq Rows
  BY KnownRows DEF WritesOK, RowOK
<1>2. ASSUME NEW v \in Versions, Version(v) \in DOMAIN writes[t]
      PROVE  holder[Version(v)] = t /\ writes[t][Version(v)] = "validating"
  BY <1>2, RowFacts DEF WritesOK, RowOK
<1>3. ASSUME NEW f \in Facts, Posting(f) \in DOMAIN writes[t]
      PROVE  /\ HoldsDraft(t, VersionOf[f]) /\ committed[Posting(f)] # "fact"
             /\ writes[t][Posting(f)] \in {"entry", "line", "fact"}
  BY <1>3, RowFacts DEF WritesOK, RowOK
<1>4. ASSUME NEW f \in Facts, NEW v \in DerivedFrom(f), SetRow(f, v) \in DOMAIN writes[t]
      PROVE  /\ holder[FactLock(f)] = t
             /\ HoldsDraft(t, VersionOf[f]) /\ HoldsDraft(t, v)
             /\ writes[t][SetRow(f, v)] \in {"draft", "balanced"}
  BY <1>4, RowFacts DEF WritesOK, RowOK
<1>5. ASSUME NEW f \in Facts, NEW v \in DerivedFrom(f), NEW g \in Targets,
             Part(f, v, g) \in DOMAIN writes[t]
      PROVE  holder[FactLock(f)] = t /\ HoldsDraft(t, v)
  BY <1>5, RowFacts DEF WritesOK, RowOK
<1> QED BY <1>1, <1>2, <1>3, <1>4, <1>5

\* Who sees a version as a draft has not written it, and it is one.
LEMMA DraftSeen ==
    ASSUME NEW t \in Txns, WritesOK(t), NEW v \in Versions, IsDraft(Sees(t), v)
    PROVE  committed[Version(v)] = "draft"
  BY Wrote, KnownRows DEF IsDraft, Sees

\* The rows a transaction wrote stay under its locks.
LEMMA RowStays ==
    ASSUME NEW t \in Txns, NEW r, NEW value, RowOK(t, r, value),
           \A l \in Locks : holder[l] = t => holder'[l] = t,
           \A v \in Versions : holder[Version(v)] = t =>
               committed'[Version(v)] = committed[Version(v)],
           \A f \in Facts : holder[Version(VersionOf[f])] = t =>
               committed'[Posting(f)] = committed[Posting(f)]
    PROVE  RowOK(t, r, value)'
<1>1. \A v \in Versions : HoldsDraft(t, v) => HoldsDraft(t, v)'
  BY KnownRows DEF HoldsDraft
<1>2. CASE \E v \in Versions : r = Version(v) /\ holder[r] = t /\ value = "validating"
  BY <1>2, KnownRows DEF RowOK
<1>3. CASE \E f \in Facts :
              /\ r = Posting(f) /\ HoldsDraft(t, VersionOf[f])
              /\ committed[r] # "fact" /\ value \in {"entry", "line", "fact"}
  <2>1. PICK f \in Facts : /\ r = Posting(f) /\ HoldsDraft(t, VersionOf[f])
                           /\ committed[r] # "fact" /\ value \in {"entry", "line", "fact"}
    BY <1>3
  <2>2. HoldsDraft(t, VersionOf[f])' /\ committed'[r] # "fact"
    BY <1>1, <2>1, KnownRows DEF HoldsDraft
  <2> QED BY <2>1, <2>2 DEF RowOK
<1>4. CASE \E f \in Facts : \E v \in DerivedFrom(f) :
              /\ r = SetRow(f, v) /\ holder[FactLock(f)] = t
              /\ HoldsDraft(t, VersionOf[f]) /\ HoldsDraft(t, v) /\ value \in {"draft", "balanced"}
  <2>1. PICK f \in Facts : \E v \in DerivedFrom(f) :
              /\ r = SetRow(f, v) /\ holder[FactLock(f)] = t
              /\ HoldsDraft(t, VersionOf[f]) /\ HoldsDraft(t, v) /\ value \in {"draft", "balanced"}
    BY <1>4
  <2>2. PICK v \in DerivedFrom(f) :
              /\ r = SetRow(f, v) /\ holder[FactLock(f)] = t
              /\ HoldsDraft(t, VersionOf[f]) /\ HoldsDraft(t, v) /\ value \in {"draft", "balanced"}
    BY <2>1
  <2>3. holder'[FactLock(f)] = t /\ HoldsDraft(t, VersionOf[f])' /\ HoldsDraft(t, v)'
    BY <1>1, <2>2, KnownRows
  <2> QED BY <2>2, <2>3 DEF RowOK
<1>5. CASE \E f \in Facts : \E v \in DerivedFrom(f) : \E g \in Targets :
              r = Part(f, v, g) /\ holder[FactLock(f)] = t /\ HoldsDraft(t, v)
  <2>1. PICK f \in Facts : \E v \in DerivedFrom(f) : \E g \in Targets :
              r = Part(f, v, g) /\ holder[FactLock(f)] = t /\ HoldsDraft(t, v)
    BY <1>5
  <2>2. PICK v \in DerivedFrom(f) : \E g \in Targets :
              r = Part(f, v, g) /\ holder[FactLock(f)] = t /\ HoldsDraft(t, v)
    BY <2>1
  <2>3. holder'[FactLock(f)] = t /\ HoldsDraft(t, v)'
    BY <1>1, <2>2, KnownRows
  <2> QED BY <2>2, <2>3 DEF RowOK
<1> QED BY <1>2, <1>3, <1>4, <1>5 DEF RowOK

\* Whether a set reconciles is a matter of its row, its parts and its fact.
LEMMA SetStays ==
    ASSUME NEW db, NEW dc, NEW f \in Facts, NEW v \in DerivedFrom(f), SetOK(db, f, v),
           dc[SetRow(f, v)] = db[SetRow(f, v)],
           \A g \in Targets : dc[Part(f, v, g)] = db[Part(f, v, g)],
           db[Posting(f)] = "fact" => dc[Posting(f)] = "fact"
    PROVE  SetOK(dc, f, v)
<1>1. Parts(dc, f, v) = Parts(db, f, v)
  BY DEF Parts
<1>2. Total(dc, f, v) = Total(db, f, v)
  BY <1>1 DEF Total
<1> QED BY <1>2 DEF SetOK

-----------------------------------------------------------------------------
(* A statement takes its next lock. *)

\* A statement that starts has all its locks to take.
LEMMA StartedIsUnderWay ==
    ASSUME NEW t \in Txns, NEW s \in Statements PROVE UnderWay(t, s)
<1>1. CASE \E f \in Facts : s = PostFact(f)
  <2>1. PICK f \in Facts : s = PostFact(f)
    BY <1>1
  <2>2. s.need = <<Version(VersionOf[f])>> /\ s.need[1] = Version(VersionOf[f])
        /\ Len(s.need) = 1 /\ s.need \in Seq(Locks) /\ s.need # <<>>
    BY <2>1, KnownRows DEF PostFact
  <2>3. WellFormed(s)
    BY <2>1, <2>2, KnownRows DEF WellFormed, StatementType, PostFact
  <2>4. Needed(s) = {Version(VersionOf[f])}
    BY <2>1 DEF Needed, PostFact
  <2> QED BY <2>2, <2>3, <2>4 DEF UnderWay
<1>2. CASE \E v \in Versions : s = Leave(v)
  <2>1. PICK v \in Versions : s = Leave(v)
    BY <1>2
  <2>2. s.need = <<Version(v)>> /\ s.need[1] = Version(v)
        /\ Len(s.need) = 1 /\ s.need \in Seq(Locks) /\ s.need # <<>>
    BY <2>1, KnownRows DEF Leave
  <2>3. WellFormed(s)
    BY <2>1, <2>2, KnownRows DEF WellFormed, StatementType, Leave
  <2>4. Needed(s) = {Version(v)}
    BY <2>1 DEF Needed, Leave
  <2> QED BY <2>2, <2>3, <2>4 DEF UnderWay
<1>3. CASE \E f \in Facts : \E v \in DerivedFrom(f) : \E g \in Targets : \E n \in 1..Amount[f] :
              s = Allocate(f, v, g, n)
  <2>1. PICK f \in Facts, v \in Versions, g \in Targets, n \in Nat :
              v \in DerivedFrom(f) /\ s = Allocate(f, v, g, n)
    BY <1>3, KnownRows
  <2>2. /\ s.need[1] = SetRow(f, v) /\ s.need[2] = FactLock(f) /\ s.need[3] = Version(v)
        /\ Len(s.need) = 3 /\ s.need \in Seq(Locks) /\ s.need # <<>>
    BY <2>1, KnownRows DEF Allocate
  <2>3. WellFormed(s)
    BY <2>1, <2>2, KnownRows DEF WellFormed, StatementType, Allocate
  <2>4. Needed(s) = {SetRow(f, v), FactLock(f), Version(v)}
    BY <2>1 DEF Needed, Allocate
  <2> QED BY <2>2, <2>3, <2>4 DEF UnderWay
<1>4. ASSUME NEW f \in Facts, NEW v \in DerivedFrom(f)
      PROVE  LET o == Ordered(VersionOf[f], v)
             IN  /\ o \in Seq(Locks) /\ Len(o) \in {1, 2} /\ o[Len(o)] \in VersionRows
                 /\ \A w \in {VersionOf[f], v} : \E i \in 1..Len(o) : o[i] = Version(w)
  BY KnownRows DEF Ordered
<1>5. CASE \E f \in Facts : \E v \in DerivedFrom(f) : s = OpenSet(f, v)
  <2>1. PICK f \in Facts, v \in Versions : v \in DerivedFrom(f) /\ s = OpenSet(f, v)
    BY <1>5, KnownRows
  <2> DEFINE o == Ordered(VersionOf[f], v)
  <2>2. /\ o \in Seq(Locks) /\ Len(o) \in {1, 2} /\ o[Len(o)] \in VersionRows
        /\ \A w \in {VersionOf[f], v} : \E i \in 1..Len(o) : o[i] = Version(w)
    BY <1>4, <2>1
  <2>3. s.need = <<FactLock(f)>> \o o
    BY <2>1 DEF OpenSet
  <2> HIDE DEF o
  <2>4. /\ Len(s.need) = Len(o) + 1 /\ s.need[1] = FactLock(f) /\ s.need \in Seq(Locks)
        /\ s.need # <<>> /\ \A i \in 1..Len(o) : s.need[i + 1] = o[i]
    BY <2>2, <2>3, KnownRows
  <2>5. s.need[Len(s.need)] \in VersionRows
    BY <2>2, <2>4
  <2>6. WellFormed(s)
    BY <2>1, <2>4, <2>5, KnownRows DEF WellFormed, StatementType, OpenSet
  <2>7. Needed(s) = {FactLock(f), Version(VersionOf[f]), Version(v)}
    BY <2>1 DEF Needed, OpenSet
  <2> QED BY <2>2, <2>4, <2>6, <2>7 DEF UnderWay
<1>6. CASE \E f \in Facts : \E v \in DerivedFrom(f) : s = Balance(f, v)
  <2>1. PICK f \in Facts, v \in Versions : v \in DerivedFrom(f) /\ s = Balance(f, v)
    BY <1>6, KnownRows
  <2> DEFINE o == Ordered(VersionOf[f], v)
  <2>2. /\ o \in Seq(Locks) /\ Len(o) \in {1, 2}
        /\ \A w \in {VersionOf[f], v} : \E i \in 1..Len(o) : o[i] = Version(w)
    BY <1>4, <2>1
  <2>3. s.need = <<SetRow(f, v), FactLock(f)>> \o o
    BY <2>1 DEF Balance
  <2> HIDE DEF o
  <2>4. /\ Len(s.need) = Len(o) + 2 /\ s.need[1] = SetRow(f, v) /\ s.need[2] = FactLock(f)
        /\ s.need \in Seq(Locks) /\ s.need # <<>> /\ \A i \in 1..Len(o) : s.need[i + 2] = o[i]
    BY <2>1, <2>2, <2>3, KnownRows
  <2>5. WellFormed(s)
    BY <2>1, <2>4, KnownRows DEF WellFormed, StatementType, Balance
  <2>6. Needed(s) = {SetRow(f, v), FactLock(f), Version(VersionOf[f]), Version(v)}
    BY <2>1 DEF Needed, Balance
  <2>7. ASSUME NEW w \in {VersionOf[f], v} PROVE \E i \in 1..Len(s.need) : s.need[i] = Version(w)
    <3>1. PICK i \in 1..Len(o) : o[i] = Version(w)
      BY <2>2
    <3>2. i + 2 \in 1..Len(s.need) /\ s.need[i + 2] = Version(w)
      BY <2>2, <2>4, <3>1
    <3> QED BY <3>2
  <2>8. 1 \in 1..Len(s.need) /\ 2 \in 1..Len(s.need)
    BY <2>2, <2>4
  <2> QED BY <2>4, <2>5, <2>6, <2>7, <2>8 DEF UnderWay
<1> QED BY <1>1, <1>2, <1>3, <1>5, <1>6 DEF Statements

\* It takes it from nobody.
LEMMA Taken ==
    ASSUME TablesOK, NEW t \in Txns, NEW s, WellFormed(s), Advance(t, s)
    PROVE  /\ Len(s.need) \in Nat \ {0} /\ Head(s.need) = s.need[1] /\ s.need[1] \in Locks
           /\ holder' \in [Locks -> Txns \cup {None}]
           /\ \A l \in Locks : holder'[l] = IF l = s.need[1] THEN t ELSE holder[l]
           /\ \A u \in Txns, l \in Locks : holder[l] = u => holder'[l] = u
           /\ committed' = committed
<1>1. s.need \in Seq(Locks) /\ s.need # <<>>
  BY DEF WellFormed, StatementType
<1>2. Len(s.need) \in Nat \ {0} /\ Head(s.need) = s.need[1] /\ s.need[1] \in Locks
  BY <1>1, EmptySeq
<1>3. /\ holder[Head(s.need)] \in {t, None} /\ holder' = [holder EXCEPT ![Head(s.need)] = t]
      /\ committed' = committed
  BY DEF Advance
<1> QED BY <1>2, <1>3, LedgerAssumption DEF TablesOK

LEMMA LongTail ==
    ASSUME NEW q \in Seq(Locks), Len(q) > 1
    PROVE  /\ Tail(q) \in Seq(Locks) /\ Len(Tail(q)) = Len(q) - 1 /\ Tail(q) # <<>>
           /\ \A i \in 1..(Len(q) - 1) : Tail(q)[i] = q[i + 1]
<1>1. q # <<>> /\ Len(q) \in Nat
  OBVIOUS
<1>2. /\ Tail(q) \in Seq(Locks) /\ Len(Tail(q)) = Len(q) - 1
      /\ \A i \in 1..(Len(q) - 1) : Tail(q)[i] = q[i + 1]
  BY <1>1, HeadTailProperties
<1>3. Len(Tail(q)) # 0
  BY <1>1, <1>2
<1> QED BY <1>2, <1>3, EmptySeq

LEMMA NeededAreLocks == ASSUME NEW s, WellFormed(s) PROVE Needed(s) \subseteq Locks
  BY KnownRows DEF Needed, WellFormed, StatementType

\* What a transaction keeps keeps its statement under way.
LEMMA StatementStays ==
    ASSUME NEW t \in Txns, NEW s, UnderWay(t, s),
           \A l \in Locks : holder[l] = t => holder'[l] = t
    PROVE  UnderWay(t, s)'
  BY NeededAreLocks DEF UnderWay

\* A statement that waits for its next lock has written nothing yet.
LEMMA WaitKeepsInv ==
    ASSUME LedgerInv, NEW t \in Txns, NEW s, UnderWay(t, s), Advance(t, s), Len(s.need) > 1,
           statement' = [statement EXCEPT ![t] = [s EXCEPT !.need = Tail(@)]],
           UNCHANGED writes
    PROVE  LedgerInv'
<1> DEFINE rest == [s EXCEPT !.need = Tail(s.need)]
<1>1. /\ Len(s.need) \in Nat \ {0} /\ s.need[1] \in Locks
      /\ holder' \in [Locks -> Txns \cup {None}]
      /\ \A l \in Locks : holder'[l] = IF l = s.need[1] THEN t ELSE holder[l]
      /\ \A u \in Txns, l \in Locks : holder[l] = u => holder'[l] = u
      /\ committed' = committed
  BY Taken DEF LedgerInv, UnderWay
<1>2. s \in StatementType /\ s.need \in Seq(Locks)
  BY DEF UnderWay, WellFormed, StatementType
<1>3. /\ Tail(s.need) \in Seq(Locks) /\ Len(Tail(s.need)) = Len(s.need) - 1
      /\ \A i \in 1..(Len(s.need) - 1) : Tail(s.need)[i] = s.need[i + 1]
      /\ Tail(s.need) # <<>>
  BY <1>2, LongTail
<1>4. /\ rest \in StatementType /\ rest.need = Tail(s.need) /\ rest.kind = s.kind
      /\ rest.fact = s.fact /\ rest.version = s.version /\ rest.part = s.part
  BY <1>2, <1>3 DEF StatementType
<1>5. /\ statement'[t] = rest /\ rest # None /\ DOMAIN statement' = Txns
      /\ \A u \in Txns : u # t => statement'[u] = statement[u]
  BY <1>4, NoneIsNoStatement DEF LedgerInv, TablesOK
<1> HIDE DEF rest
<1>6. WellFormed(rest)
  <2>1. Tail(s.need)[Len(s.need) - 1] = s.need[Len(s.need)]
    BY <1>1, <1>3
  <2> QED BY <1>3, <1>4, <2>1 DEF UnderWay, WellFormed
<1>7. Needed(rest) = Needed(s) /\ Needed(s) \subseteq Locks
  BY <1>4, NeededAreLocks DEF Needed, UnderWay
<1>8. UnderWay(t, rest)'
  <2>1. ASSUME NEW l \in Needed(s)
        PROVE  holder'[l] = t \/ \E i \in 1..Len(rest.need) : rest.need[i] = l
    <3>1. CASE holder[l] = t
      BY <1>1, <1>7, <3>1
    <3>2. CASE l = s.need[1]
      BY <1>1, <3>2
    <3>3. CASE \E i \in 1..Len(s.need) : i # 1 /\ s.need[i] = l
      <4>1. PICK i \in 1..Len(s.need) : i # 1 /\ s.need[i] = l
        BY <3>3
      <4>2. i - 1 \in 1..Len(rest.need) /\ rest.need[i - 1] = l
        BY <1>1, <1>3, <1>4, <4>1
      <4> QED BY <4>2
    <3> QED BY <3>1, <3>2, <3>3 DEF UnderWay
  <2> QED BY <1>6, <1>7, <2>1 DEF UnderWay
<1>9. StatementsOK'
  <2>1. ASSUME NEW u \in Txns, NEW q, u # t, q = statement'[u], q # None
        PROVE  UnderWay(u, q)'
    BY <1>1, <1>5, <2>1, StatementStays DEF LedgerInv, StatementsOK
  <2>2. ASSUME NEW u \in Txns, NEW q, q = statement'[u], q # None PROVE UnderWay(u, q)'
    BY <1>5, <1>8, <2>1, <2>2
  <2> QED BY <2>2 DEF StatementsOK
<1>10. TablesOK'
  BY <1>1, <1>5 DEF LedgerInv, TablesOK
<1>11. LocksOK'
  <2> SUFFICES ASSUME NEW l \in Locks, holder'[l] # None
               PROVE  writes[holder'[l]] # Empty \/ statement'[holder'[l]] # None
    BY DEF LocksOK
  <2>1. CASE holder'[l] = t
    BY <1>5, <2>1
  <2>2. CASE holder'[l] # t
    BY <1>1, <1>5, <2>2 DEF LedgerInv, LocksOK, TablesOK
  <2> QED BY <2>1, <2>2
<1>12. ASSUME NEW u \in Txns PROVE WritesOK(u)' /\ SetsOK(Sees(u))'
  <2>1. ASSUME NEW r \in DOMAIN writes[u], NEW value, value = writes[u][r]
        PROVE  RowOK(u, r, value)'
    BY <1>1, <2>1, RowStays DEF LedgerInv, WritesOK
  <2>2. WritesOK(u)'
    BY <2>1 DEF WritesOK, RowOK, HoldsDraft
  <2>3. Sees(u)' = Sees(u)
    BY <1>1 DEF Sees
  <2> QED BY <2>2, <2>3 DEF LedgerInv, SetsOK, SetOK, Total, Parts
<1>13. SetsOK(committed)'
  <2>1. ASSUME NEW db, db = committed' PROVE SetsOK(db)
    BY <1>1, <2>1 DEF LedgerInv
  <2> QED BY <2>1 DEF SetsOK, SetOK, Total, Parts
<1> QED BY <1>9, <1>10, <1>11, <1>12, <1>13 DEF LedgerInv

-----------------------------------------------------------------------------
(* A statement passes with its last lock. *)

\* Its row is under its locks, and in drafts.
LEMMA PassedRow ==
    ASSUME NEW t \in Txns, WritesOK(t), TablesOK, NEW s, WellFormed(s), Passes(Sees(t), s),
           \A l \in Needed(s) : holder'[l] = t, committed' = committed,
           NEW mine, mine = RowOf(s), NEW value, value = NewValue(Sees(t), s)
    PROVE  mine \in Rows /\ RowOK(t, mine, value)'
<1>1. ASSUME NEW v \in Versions, IsDraft(Sees(t), v), holder'[Version(v)] = t
      PROVE  HoldsDraft(t, v)'
  BY <1>1, DraftSeen DEF HoldsDraft
<1>2. s.version \in Versions
  BY DEF WellFormed, StatementType
<1>3. CASE s.kind = "leave"
  <2>1. mine = Version(s.version) /\ value = "validating" /\ holder'[Version(s.version)] = t
    BY <1>3 DEF RowOf, NewValue, Needed
  <2> QED BY <1>2, <2>1, KnownRows DEF RowOK
<1>4. CASE s.kind = "post"
  <2> DEFINE f == s.fact
  <2>1. f \in Facts /\ mine = Posting(f) /\ value = NextStage(Sees(t)[Posting(f)])
    BY <1>4 DEF WellFormed, RowOf, NewValue
  <2>2. s.version = VersionOf[f] /\ holder'[Version(s.version)] = t /\ IsDraft(Sees(t), s.version)
    BY <1>4 DEF WellFormed, Needed, Passes
  <2>3. HoldsDraft(t, VersionOf[f])'
    BY <1>1, <1>2, <2>2
  <2>4. value \in {"entry", "line", "fact"}
    BY <2>1 DEF NextStage
  <2>5. committed[Posting(f)] # "fact"
    <3>1. Sees(t)[Posting(f)] # "fact"
      BY <1>4, <2>1 DEF Passes
    <3>2. CASE Posting(f) \in DOMAIN writes[t]
      BY <2>1, <3>2, Wrote
    <3>3. CASE Posting(f) \notin DOMAIN writes[t]
      BY <2>1, <3>1, <3>3, KnownRows DEF Sees
    <3> QED BY <3>2, <3>3
  <2> HIDE DEF f
  <2> QED BY <2>1, <2>3, <2>4, <2>5, KnownRows DEF RowOK
<1>5. ASSUME s.kind \in {"open", "balance"} PROVE mine \in Rows /\ RowOK(t, mine, value)'
  <2> DEFINE f == s.fact
             v == s.version
  <2>1. /\ f \in Facts /\ v \in DerivedFrom(f) /\ mine = SetRow(f, v)
        /\ value \in {"draft", "balanced"}
    BY <1>5 DEF WellFormed, RowOf, NewValue
  <2>2. /\ holder'[Version(v)] = t /\ holder'[Version(VersionOf[f])] = t
        /\ holder'[FactLock(f)] = t
    BY <1>5 DEF Needed
  <2>3. IsDraft(Sees(t), v) /\ IsDraft(Sees(t), VersionOf[f])
    BY <1>5 DEF Passes, SourceIsDraft
  <2> HIDE DEF f, v
  <2>4. HoldsDraft(t, v)' /\ HoldsDraft(t, VersionOf[f])'
    BY <1>1, <2>1, <2>2, <2>3, KnownRows
  <2> QED BY <2>1, <2>2, <2>4, KnownRows DEF RowOK
<1>6. CASE s.kind = "allocate"
  <2> DEFINE f == s.fact
             v == s.version
             g == s.part
  <2>1. f \in Facts /\ v \in DerivedFrom(f) /\ g \in Targets /\ mine = Part(f, v, g)
    BY <1>6 DEF WellFormed, RowOf
  <2>2. holder'[Version(v)] = t /\ holder'[FactLock(f)] = t /\ IsDraft(Sees(t), v)
    BY <1>6 DEF Needed, Passes
  <2> HIDE DEF f, v, g
  <2>3. HoldsDraft(t, v)'
    BY <1>1, <2>1, <2>2, KnownRows
  <2> QED BY <2>1, <2>2, <2>3, KnownRows DEF RowOK
<1> QED BY <1>3, <1>4, <1>5, <1>6 DEF WellFormed, StatementType

\* The sets still reconcile in what the transaction sees then.
LEMMA PassedSets ==
    ASSUME NEW t \in Txns, SetsOK(Sees(t)), NEW s, WellFormed(s), Len(s.need) = 1,
           FindsFact(t, s), Passes(Sees(t), s), NEW db,
           \A r \in Rows : db[r] = IF r = RowOf(s) THEN NewValue(Sees(t), s) ELSE Sees(t)[r]
    PROVE  SetsOK(db)
<1> SUFFICES ASSUME NEW f \in Facts, NEW v \in DerivedFrom(f) PROVE SetOK(db, f, v)
  BY DEF SetsOK
<1> DEFINE x == RowOf(s)
           seen == Sees(t)
<1>1. SetOK(seen, f, v)
  BY DEF SetsOK
<1>2. /\ SetRow(f, v) \in Rows /\ Posting(f) \in Rows
      /\ \A g \in Targets : Part(f, v, g) \in Rows
  BY KnownRows
<1>3. CASE s.kind = "leave"
  <2>1. x = Version(s.version)
    BY <1>3 DEF RowOf
  <2>2. /\ db[SetRow(f, v)] = seen[SetRow(f, v)] /\ db[Posting(f)] = seen[Posting(f)]
        /\ \A g \in Targets : db[Part(f, v, g)] = seen[Part(f, v, g)]
    BY <1>2, <2>1, RowFacts
  <2> QED BY <1>1, <2>2, SetStays
<1>4. CASE s.kind = "post"
  <2>1. x = Posting(s.fact) /\ seen[Posting(s.fact)] # "fact"
    BY <1>4 DEF RowOf, Passes
  <2>2. db[SetRow(f, v)] = seen[SetRow(f, v)]
        /\ \A g \in Targets : db[Part(f, v, g)] = seen[Part(f, v, g)]
    BY <1>2, <2>1, RowFacts
  <2>3. seen[Posting(f)] = "fact" => db[Posting(f)] = "fact"
    BY <1>2, <2>1
  <2> QED BY <1>1, <2>2, <2>3, SetStays
<1>5. ASSUME s.kind \in {"open", "allocate", "balance"} PROVE SetOK(db, f, v)
  <2>1. x \in {SetRow(s.fact, s.version), Part(s.fact, s.version, s.part)}
    BY <1>5 DEF RowOf
  <2>2. db[Posting(f)] = seen[Posting(f)]
    BY <1>2, <2>1, RowFacts
  <2>3. CASE ~ (s.fact = f /\ s.version = v)
    <3>1. db[SetRow(f, v)] = seen[SetRow(f, v)]
          /\ \A g \in Targets : db[Part(f, v, g)] = seen[Part(f, v, g)]
      BY <1>2, <2>1, <2>3, RowFacts
    <3> QED BY <1>1, <2>2, <3>1, SetStays
  <2>4. CASE s.fact = f /\ s.version = v /\ s.kind = "open"
    <3>1. db[SetRow(f, v)] = "draft" /\ \A g \in Targets : db[Part(f, v, g)] = seen[Part(f, v, g)]
      BY <1>2, <2>4, RowFacts DEF RowOf, NewValue
    <3>4. Parts(db, f, v) = Parts(seen, f, v)
      BY <3>1 DEF Parts
    <3>2. s.need \in Seq(Locks) /\ Head(s.need) \in VersionRows
      BY <2>4, EmptySeq DEF WellFormed, StatementType
    <3>3. seen[Posting(f)] = "fact"
      BY <2>4, <3>2 DEF FindsFact
    <3> QED BY <1>1, <2>2, <3>1, <3>3, <3>4 DEF SetOK, Total
  <2>5. CASE s.fact = f /\ s.version = v /\ s.kind = "allocate"
    <3>1. seen[SetRow(f, v)] = "draft" /\ db[SetRow(f, v)] = seen[SetRow(f, v)]
      BY <1>2, <2>5, RowFacts DEF RowOf, Passes
    <3> DEFINE g == s.part
    <3>2. g \in Targets /\ s.amount \in Nat
      BY <2>5 DEF WellFormed, StatementType
    <3>3. /\ db[Part(f, v, g)] = s.amount /\ seen[Part(f, v, g)] = 0
          /\ \A k \in Targets : k # g => db[Part(f, v, k)] = seen[Part(f, v, k)]
      BY <1>2, <2>5, <3>2, RowFacts DEF RowOf, NewValue, Passes
    <3>4. Total(seen, f, v) + s.amount <= Amount[f]
      BY <2>5 DEF Passes, WithinAmount
    <3> HIDE DEF g
    <3>5. /\ \A k \in Targets : Parts(seen, f, v)[k] \in Nat /\ Parts(db, f, v)[g] = s.amount
          /\ Parts(seen, f, v)[g] = 0
          /\ \A k \in Targets : k # g => Parts(db, f, v)[k] = Parts(seen, f, v)[k]
      BY <1>1, <3>2, <3>3 DEF SetOK, Parts
    <3>6. Total(db, f, v) = Total(seen, f, v) + s.amount
      BY <3>2, <3>5, SumChanged, TotalIsSum, LedgerAssumption
    <3>7. \A k \in Targets : db[Part(f, v, k)] \in Nat
      BY <1>1, <3>2, <3>3 DEF SetOK
    <3>8. Total(db, f, v) <= Amount[f]
      BY <3>4, <3>6
    <3>9. db[SetRow(f, v)] = "draft" /\ db[Posting(f)] = "fact"
      BY <1>1, <2>2, <3>1 DEF SetOK
    <3> QED BY <3>7, <3>8, <3>9 DEF SetOK
  <2>6. CASE s.fact = f /\ s.version = v /\ s.kind = "balance"
    <3>1. seen[SetRow(f, v)] = "draft" /\ Total(seen, f, v) = Amount[f]
      BY <2>6 DEF Passes, Reconciles
    <3>2. \A g \in Targets : db[Part(f, v, g)] = seen[Part(f, v, g)]
      BY <1>2, <2>6, RowFacts DEF RowOf
    <3>3. Parts(db, f, v) = Parts(seen, f, v)
      BY <3>2 DEF Parts
    <3>4. Total(db, f, v) = Total(seen, f, v)
      BY <3>3 DEF Total
    <3>5. /\ \A g \in Targets : db[Part(f, v, g)] \in Nat
          /\ Total(db, f, v) <= Amount[f] /\ db[Posting(f)] = "fact"
      BY <1>1, <2>2, <3>1, <3>2, <3>4 DEF SetOK
    <3> QED BY <3>1, <3>4, <3>5 DEF SetOK
  <2> QED BY <1>5, <2>3, <2>4, <2>5, <2>6
<1> QED BY <1>3, <1>4, <1>5 DEF WellFormed, StatementType

LEMMA PassKeepsInv ==
    ASSUME LedgerInv, NEW t \in Txns, NEW s, UnderWay(t, s), Advance(t, s), Len(s.need) = 1,
           Passes(Sees(t), s),
           writes' = [writes EXCEPT ![t] = Put(@, RowOf(s), NewValue(Sees(t), s))],
           statement' = [statement EXCEPT ![t] = None]
    PROVE  LedgerInv'
<1>1. PICK mine, value : mine = RowOf(s) /\ value = NewValue(Sees(t), s)
  OBVIOUS
<1>2. /\ s.need[1] \in Locks /\ committed' = committed
      /\ holder' \in [Locks -> Txns \cup {None}]
      /\ \A l \in Locks : holder'[l] = IF l = s.need[1] THEN t ELSE holder[l]
      /\ \A u \in Txns, l \in Locks : holder[l] = u => holder'[l] = u
  BY Taken DEF LedgerInv, UnderWay
<1>3. WellFormed(s) /\ \A l \in Needed(s) : holder'[l] = t
  BY <1>2, NeededAreLocks DEF UnderWay
<1>4. mine \in Rows /\ RowOK(t, mine, value)'
  BY <1>1, <1>2, <1>3, PassedRow DEF LedgerInv
<1>5. /\ DOMAIN writes' = Txns /\ \A u \in Txns : u # t => writes'[u] = writes[u]
      /\ DOMAIN writes'[t] = DOMAIN writes[t] \cup {mine}
      /\ \A r \in DOMAIN writes'[t] : writes'[t][r] = IF r = mine THEN value ELSE writes[t][r]
  BY <1>1 DEF LedgerInv, TablesOK, Put
<1>6. /\ DOMAIN statement' = Txns /\ statement'[t] = None
      /\ \A u \in Txns : u # t => statement'[u] = statement[u]
  BY DEF LedgerInv, TablesOK
<1>7. TablesOK'
  BY <1>2, <1>5, <1>6 DEF LedgerInv, TablesOK
<1>8. StatementsOK'
  <2>1. ASSUME NEW u \in Txns, NEW q, q = statement'[u], q # None PROVE UnderWay(u, q)'
    BY <1>2, <1>6, <2>1, StatementStays DEF LedgerInv, StatementsOK
  <2> QED BY <2>1 DEF StatementsOK
<1>9. LocksOK'
  <2> SUFFICES ASSUME NEW l \in Locks, holder'[l] # None
               PROVE  writes'[holder'[l]] # Empty \/ statement'[holder'[l]] # None
    BY DEF LocksOK, Empty
  <2>1. CASE holder'[l] = t
    <3>1. writes'[t] # Empty
      BY <1>5 DEF Empty
    <3> QED BY <2>1, <3>1
  <2>2. CASE holder'[l] # t
    BY <1>2, <1>5, <1>6, <2>2 DEF LedgerInv, LocksOK, TablesOK
  <2> QED BY <2>1, <2>2
<1>10. ASSUME NEW u \in Txns PROVE WritesOK(u)'
  <2>1. ASSUME NEW r \in DOMAIN writes[u], NEW old, old = writes[u][r]
        PROVE  RowOK(u, r, old)'
    BY <1>2, <2>1, RowStays DEF LedgerInv, WritesOK
  <2>2. ASSUME NEW r \in DOMAIN writes'[u], NEW new, new = writes'[u][r]
        PROVE  RowOK(u, r, new)'
    BY <1>4, <1>5, <2>1, <2>2
  <2> QED BY <2>2 DEF WritesOK, RowOK, HoldsDraft
<1>11. SetsOK(Sees(t)')
  <2> DEFINE db == Sees(t)'
  <2>1. \A r \in Rows : db[r] = IF r = mine THEN value ELSE Sees(t)[r]
    BY <1>2, <1>5 DEF Sees
  <2>2. FindsFact(t, s)
    BY DEF Advance
  <2> HIDE DEF db
  <2>3. SetsOK(db)
    BY <1>1, <1>3, <2>1, <2>2, PassedSets DEF LedgerInv
  <2> QED BY <2>3 DEF db
<1>12. ASSUME NEW u \in Txns PROVE SetsOK(Sees(u))'
  <2>1. CASE u = t
    BY <1>11, <2>1 DEF SetsOK, SetOK, Total, Parts
  <2>2. CASE u # t
    <3>1. Sees(u)' = Sees(u)
      BY <1>2, <1>5, <2>2 DEF Sees
    <3> QED BY <3>1 DEF LedgerInv, SetsOK, SetOK, Total, Parts
  <2> QED BY <2>1, <2>2
<1>13. SetsOK(committed)'
  BY <1>2 DEF LedgerInv, SetsOK, SetOK, Total, Parts
<1> QED BY <1>7, <1>8, <1>9, <1>10, <1>12, <1>13 DEF LedgerInv

LEMMA AdvanceKeepsInv ==
    ASSUME LedgerInv, NEW t \in Txns, NEW s, UnderWay(t, s), Advance(t, s) PROVE LedgerInv'
<1>1. CASE /\ Len(s.need) > 1
           /\ statement' = [statement EXCEPT ![t] = [s EXCEPT !.need = Tail(@)]]
           /\ UNCHANGED writes
  BY <1>1, WaitKeepsInv
<1>2. CASE /\ Len(s.need) = 1
           /\ Passes(Sees(t), s)
           /\ writes' = [writes EXCEPT ![t] = Put(@, RowOf(s), NewValue(Sees(t), s))]
           /\ statement' = [statement EXCEPT ![t] = None]
  BY <1>2, PassKeepsInv
<1> QED BY <1>1, <1>2 DEF Advance

-----------------------------------------------------------------------------
(* A transaction ends. *)

\* It gives its locks back, and nobody else's.
LEMMA Ended ==
    ASSUME LedgerInv, NEW t \in Txns, holder' = Released(t), statement'[t] = None,
           DOMAIN statement' = Txns, \A u \in Txns : u # t => statement'[u] = statement[u],
           writes' = [writes EXCEPT ![t] = Empty]
    PROVE  /\ holder' \in [Locks -> Txns \cup {None}]
           /\ \A l \in Locks : holder'[l] = IF holder[l] = t THEN None ELSE holder[l]
           /\ \A u \in Txns : u # t => \A l \in Locks : holder[l] = u => holder'[l] = u
           /\ DOMAIN writes' = Txns /\ DOMAIN writes'[t] = {}
           /\ \A u \in Txns : u # t => writes'[u] = writes[u]
           /\ StatementsOK' /\ LocksOK'
<1>1. /\ holder' \in [Locks -> Txns \cup {None}]
      /\ \A l \in Locks : holder'[l] = IF holder[l] = t THEN None ELSE holder[l]
      /\ \A u \in Txns : u # t => \A l \in Locks : holder[l] = u => holder'[l] = u
  BY DEF Released, LedgerInv, TablesOK
<1>2. /\ DOMAIN writes' = Txns /\ DOMAIN writes'[t] = {}
      /\ \A u \in Txns : u # t => writes'[u] = writes[u]
  BY DEF LedgerInv, TablesOK, Empty
<1>3. StatementsOK'
  <2>1. ASSUME NEW u \in Txns, NEW q, q = statement'[u], q # None PROVE UnderWay(u, q)'
    BY <1>1, <2>1, StatementStays DEF LedgerInv, StatementsOK
  <2> QED BY <2>1 DEF StatementsOK
<1>4. LocksOK'
  <2> SUFFICES ASSUME NEW l \in Locks, holder'[l] # None
               PROVE  writes'[holder'[l]] # Empty \/ statement'[holder'[l]] # None
    BY DEF LocksOK, Empty
  <2>1. holder'[l] = holder[l] /\ holder[l] # t /\ holder[l] \in Txns
    BY <1>1 DEF LedgerInv, TablesOK
  <2> QED BY <1>2, <2>1 DEF LedgerInv, LocksOK
<1> QED BY <1>1, <1>2, <1>3, <1>4

LEMMA RollbackKeepsInv ==
    ASSUME LedgerInv, NEW t \in Txns, Rollback(t) PROVE LedgerInv'
<1>1. /\ holder' = Released(t) /\ writes' = [writes EXCEPT ![t] = Empty]
      /\ statement'[t] = None /\ DOMAIN statement' = Txns /\ committed' = committed
      /\ \A u \in Txns : u # t => statement'[u] = statement[u]
  BY DEF Rollback, LedgerInv, TablesOK
<1>2. /\ holder' \in [Locks -> Txns \cup {None}]
      /\ \A u \in Txns : u # t => \A l \in Locks : holder[l] = u => holder'[l] = u
      /\ DOMAIN writes' = Txns /\ DOMAIN writes'[t] = {}
      /\ \A u \in Txns : u # t => writes'[u] = writes[u]
      /\ StatementsOK' /\ LocksOK'
  BY <1>1, Ended
<1>3. TablesOK'
  BY <1>1, <1>2 DEF LedgerInv, TablesOK
<1>4. ASSUME NEW u \in Txns PROVE WritesOK(u)'
  <2>1. ASSUME NEW r \in DOMAIN writes'[u], NEW value, value = writes'[u][r]
        PROVE  RowOK(u, r, value)'
    BY <1>1, <1>2, <2>1, RowStays DEF LedgerInv, WritesOK
  <2> QED BY <2>1 DEF WritesOK, RowOK, HoldsDraft
<1>5. SetsOK(committed)'
  BY <1>1 DEF LedgerInv, SetsOK, SetOK, Total, Parts
<1>6. ASSUME NEW u \in Txns, NEW db, db = Sees(u)' PROVE SetsOK(db)
  <2>1. CASE u # t
    BY <1>1, <1>2, <1>6, <2>1 DEF LedgerInv, Sees
  <2>2. CASE u = t
    <3>1. \A r \in Rows : db[r] = committed[r]
      BY <1>1, <1>2, <1>6, <2>2 DEF Sees
    <3>2. ASSUME NEW f \in Facts, NEW v \in DerivedFrom(f) PROVE SetOK(db, f, v)
      <4>1. /\ db[SetRow(f, v)] = committed[SetRow(f, v)]
            /\ db[Posting(f)] = committed[Posting(f)]
            /\ \A g \in Targets : db[Part(f, v, g)] = committed[Part(f, v, g)]
        BY <3>1, KnownRows
      <4> QED BY <4>1, SetStays DEF LedgerInv, SetsOK
    <3> QED BY <3>2 DEF SetsOK
  <2> QED BY <2>1, <2>2
<1>7. ASSUME NEW u \in Txns PROVE SetsOK(Sees(u))'
  BY <1>6 DEF SetsOK, SetOK, Total, Parts
<1> QED BY <1>2, <1>3, <1>4, <1>5, <1>7 DEF LedgerInv

\* What a commit changes was under the locks of the transaction, and in drafts.
LEMMA Committed ==
    ASSUME LedgerInv, NEW t \in Txns, Commit(t)
    PROVE  /\ DOMAIN committed' = Rows
           /\ \A r \in Rows : committed'[r] = IF r \in DOMAIN writes[t] THEN writes[t][r]
                                              ELSE committed[r]
           /\ \A v \in Versions : holder[Version(v)] # t =>
                 committed'[Version(v)] = committed[Version(v)]
           /\ \A f \in Facts :
                 ~ HoldsDraft(t, VersionOf[f]) => committed'[Posting(f)] = committed[Posting(f)]
           /\ \A f \in Facts : \A v \in DerivedFrom(f) :
                 /\ \/ holder[FactLock(f)] # t \/ ~ HoldsDraft(t, VersionOf[f])
                    \/ ~ HoldsDraft(t, v)
                    => committed'[SetRow(f, v)] = committed[SetRow(f, v)]
                 /\ \A g \in Targets :
                       holder[FactLock(f)] # t \/ ~ HoldsDraft(t, v) =>
                          committed'[Part(f, v, g)] = committed[Part(f, v, g)]
<1>1. /\ DOMAIN committed' = Rows
      /\ \A r \in Rows : committed'[r] = IF r \in DOMAIN writes[t] THEN writes[t][r]
                                         ELSE committed[r]
  BY DEF Commit, Sees
<1>2. WritesOK(t)
  BY DEF LedgerInv
<1>3. ASSUME NEW f \in Facts, NEW v \in DerivedFrom(f)
      PROVE  /\ SetRow(f, v) \notin DOMAIN writes[t] =>
                   committed'[SetRow(f, v)] = committed[SetRow(f, v)]
             /\ \A g \in Targets : Part(f, v, g) \notin DOMAIN writes[t] =>
                   committed'[Part(f, v, g)] = committed[Part(f, v, g)]
  BY <1>1, KnownRows
<1>4. ASSUME NEW v \in Versions, holder[Version(v)] # t
      PROVE  committed'[Version(v)] = committed[Version(v)]
  BY <1>1, <1>2, <1>4, Wrote, KnownRows
<1>5. ASSUME NEW f \in Facts, ~ HoldsDraft(t, VersionOf[f])
      PROVE  committed'[Posting(f)] = committed[Posting(f)]
  BY <1>1, <1>2, <1>5, Wrote, KnownRows
<1> QED BY <1>1, <1>2, <1>3, <1>4, <1>5, Wrote

\* What another transaction sees is its own, or now what this one saw.
LEMMA OthersSeeCommitted ==
    ASSUME LedgerInv, NEW t \in Txns, Commit(t), NEW u \in Txns, u # t, writes'[u] = writes[u],
           NEW f \in Facts, NEW v \in DerivedFrom(f), NEW db, db = Sees(u)'
    PROVE  SetOK(db, f, v)
<1>1. /\ SetRow(f, v) \in Rows /\ Posting(f) \in Rows
      /\ \A g \in Targets : Part(f, v, g) \in Rows
  BY KnownRows
<1>2. /\ \A r \in Rows : db[r] = IF r \in DOMAIN writes[u] THEN writes[u][r] ELSE committed'[r]
      /\ \A r \in Rows :
            Sees(u)[r] = IF r \in DOMAIN writes[u] THEN writes[u][r] ELSE committed[r]
      /\ \A r \in Rows : committed'[r] = Sees(t)[r]
  BY DEF Sees, Commit
<1>3. /\ WritesOK(t) /\ WritesOK(u)
      /\ SetOK(Sees(t), f, v) /\ SetOK(Sees(u), f, v)
  BY DEF LedgerInv, SetsOK
<1>4. CASE holder[FactLock(f)] = u
  <2>1. /\ committed'[SetRow(f, v)] = committed[SetRow(f, v)]
        /\ \A g \in Targets : committed'[Part(f, v, g)] = committed[Part(f, v, g)]
    BY <1>4, Committed
  <2>2. /\ db[SetRow(f, v)] = Sees(u)[SetRow(f, v)]
        /\ \A g \in Targets : db[Part(f, v, g)] = Sees(u)[Part(f, v, g)]
    BY <1>1, <1>2, <2>1
  <2>3. Sees(u)[Posting(f)] = "fact" => db[Posting(f)] = "fact"
    <3>1. CASE Posting(f) \in DOMAIN writes[u]
      BY <1>1, <1>2, <3>1
    <3>2. CASE Posting(f) \notin DOMAIN writes[u] /\ committed[Posting(f)] = "fact"
      <4>1. Posting(f) \notin DOMAIN writes[t]
        BY <1>3, <3>2, Wrote
      <4> QED BY <1>1, <1>2, <3>2, <4>1, Committed
    <3> QED BY <1>1, <1>2, <3>1, <3>2
  <2> QED BY <1>3, <2>2, <2>3, SetStays
<1>5. CASE holder[FactLock(f)] # u
  <2>1. /\ SetRow(f, v) \notin DOMAIN writes[u]
        /\ \A g \in Targets : Part(f, v, g) \notin DOMAIN writes[u]
    BY <1>3, <1>5, Wrote
  <2>2. /\ db[SetRow(f, v)] = Sees(t)[SetRow(f, v)]
        /\ \A g \in Targets : db[Part(f, v, g)] = Sees(t)[Part(f, v, g)]
    BY <1>1, <1>2, <2>1
  <2>3. ASSUME Sees(t)[Posting(f)] = "fact" PROVE db[Posting(f)] = "fact"
    <3>1. Posting(f) \notin DOMAIN writes[u]
      <4> SUFFICES ASSUME Posting(f) \in DOMAIN writes[u] PROVE FALSE
        OBVIOUS
      <4>1. holder[Version(VersionOf[f])] = u /\ committed[Posting(f)] # "fact"
        BY <1>3, Wrote DEF HoldsDraft
      <4>2. Posting(f) \in DOMAIN writes[t]
        BY <1>1, <2>3, <4>1 DEF Sees
      <4>3. holder[Version(VersionOf[f])] = t
        BY <1>3, <4>2, Wrote DEF HoldsDraft
      <4> QED BY <4>1, <4>3
    <3> QED BY <1>1, <1>2, <2>3, <3>1
  <2> QED BY <1>3, <2>2, <2>3, SetStays
<1> QED BY <1>4, <1>5

LEMMA CommitKeepsInv ==
    ASSUME LedgerInv, NEW t \in Txns, Commit(t) PROVE LedgerInv'
<1>1. /\ holder' = Released(t) /\ writes' = [writes EXCEPT ![t] = Empty]
      /\ statement'[t] = None /\ DOMAIN statement' = Txns
      /\ \A u \in Txns : u # t => statement'[u] = statement[u]
  BY DEF Commit, LedgerInv, TablesOK
<1>2. /\ holder' \in [Locks -> Txns \cup {None}]
      /\ \A u \in Txns : u # t => \A l \in Locks : holder[l] = u => holder'[l] = u
      /\ DOMAIN writes' = Txns /\ DOMAIN writes'[t] = {}
      /\ \A u \in Txns : u # t => writes'[u] = writes[u]
      /\ StatementsOK' /\ LocksOK'
  BY <1>1, Ended
<1>3. WritesOK(t)
  BY DEF LedgerInv
<1>4. TablesOK'
  <2>1. \A v \in Versions : committed'[Version(v)] \in {"draft", "validating"}
    BY <1>3, Committed, Wrote, KnownRows DEF LedgerInv, TablesOK
  <2>2. \A f \in Facts : committed'[Posting(f)] \in {"none", "entry", "line", "fact"}
    BY <1>3, Committed, Wrote, KnownRows DEF LedgerInv, TablesOK
  <2>3. \A f \in Facts : \A v \in DerivedFrom(f) :
          committed'[SetRow(f, v)] \in {"none", "draft", "balanced"}
    BY <1>3, Committed, Wrote, KnownRows DEF LedgerInv, TablesOK
  <2>4. DOMAIN committed' = Rows
    BY Committed
  <2> QED BY <1>1, <1>2, <2>1, <2>2, <2>3, <2>4 DEF TablesOK
<1>5. ASSUME NEW u \in Txns PROVE WritesOK(u)'
  <2>1. ASSUME u # t
        PROVE  /\ \A l \in Locks : holder[l] = u => holder'[l] = u
               /\ \A v \in Versions : holder[Version(v)] = u =>
                     committed'[Version(v)] = committed[Version(v)]
               /\ \A f \in Facts : holder[Version(VersionOf[f])] = u =>
                     committed'[Posting(f)] = committed[Posting(f)]
    BY <1>2, <2>1, Committed DEF HoldsDraft
  <2>2. ASSUME NEW r \in DOMAIN writes'[u], NEW value, value = writes'[u][r]
        PROVE  RowOK(u, r, value)'
    <3>1. u # t /\ r \in DOMAIN writes[u] /\ value = writes[u][r]
      BY <1>2, <2>2
    <3> QED BY <2>1, <3>1, RowStays DEF LedgerInv, WritesOK
  <2> QED BY <2>2 DEF WritesOK, RowOK, HoldsDraft
<1>6. ASSUME NEW u \in Txns, NEW db, db = Sees(u)' PROVE SetsOK(db)
  <2>1. CASE u # t
    BY <1>2, <1>6, <2>1, OthersSeeCommitted DEF SetsOK
  <2>2. CASE u = t
    <3>1. \A r \in Rows : db[r] = Sees(t)[r]
      BY <1>2, <1>6, <2>2 DEF Sees, Commit
    <3>2. ASSUME NEW f \in Facts, NEW v \in DerivedFrom(f) PROVE SetOK(db, f, v)
      <4>1. /\ db[SetRow(f, v)] = Sees(t)[SetRow(f, v)]
            /\ db[Posting(f)] = Sees(t)[Posting(f)]
            /\ \A g \in Targets : db[Part(f, v, g)] = Sees(t)[Part(f, v, g)]
        BY <3>1, KnownRows
      <4> QED BY <4>1, SetStays DEF LedgerInv, SetsOK
    <3> QED BY <3>2 DEF SetsOK
  <2> QED BY <2>1, <2>2
<1>7. ASSUME NEW u \in Txns PROVE SetsOK(Sees(u))'
  BY <1>6 DEF SetsOK, SetOK, Total, Parts
<1>8. SetsOK(committed)'
  <2>1. committed' = Sees(t)
    BY DEF Commit
  <2> QED BY <2>1 DEF LedgerInv, SetsOK, SetOK, Total, Parts
<1> QED BY <1>2, <1>4, <1>5, <1>7, <1>8 DEF LedgerInv

-----------------------------------------------------------------------------
(* Every step, and the theorems. *)

LEMMA StepKeepsInv == LedgerInv /\ [LedgerNext]_ledgerVars => LedgerInv'
<1> SUFFICES ASSUME LedgerInv, [LedgerNext]_ledgerVars PROVE LedgerInv'
  OBVIOUS
<1>1. ASSUME NEW t \in Txns, NEW s \in Statements, StartStatement(t, s) PROVE LedgerInv'
  BY <1>1, StartedIsUnderWay, AdvanceKeepsInv DEF StartStatement
<1>2. ASSUME NEW t \in Txns, Continue(t) PROVE LedgerInv'
  <2>1. PICK s : s = statement[t]
    OBVIOUS
  <2>2. UnderWay(t, s) /\ Advance(t, s)
    BY <1>2, <2>1 DEF Continue, LedgerInv, StatementsOK
  <2> QED BY <2>2, AdvanceKeepsInv
<1>3. ASSUME NEW t \in Txns, Commit(t) \/ Rollback(t) PROVE LedgerInv'
  BY <1>3, CommitKeepsInv, RollbackKeepsInv
<1>4. CASE UNCHANGED ledgerVars
  <2>1. TablesOK' /\ StatementsOK' /\ LocksOK' /\ \A t \in Txns : WritesOK(t)'
    BY <1>4 DEF ledgerVars, LedgerInv, TablesOK, StatementsOK, LocksOK, WritesOK, RowOK,
                HoldsDraft, UnderWay
  <2>2. ASSUME NEW t \in Txns, NEW db, db = Sees(t)' PROVE SetsOK(db)
    BY <1>4, <2>2 DEF ledgerVars, LedgerInv, Sees
  <2>3. \A t \in Txns : SetsOK(Sees(t))'
    BY <2>2 DEF SetsOK, SetOK, Total, Parts
  <2>4. ASSUME NEW db, db = committed' PROVE SetsOK(db)
    BY <1>4, <2>4 DEF ledgerVars, LedgerInv
  <2>5. SetsOK(committed)'
    BY <2>4 DEF SetsOK, SetOK, Total, Parts
  <2> QED BY <2>1, <2>3, <2>5 DEF LedgerInv
<1> QED BY <1>1, <1>2, <1>3, <1>4 DEF LedgerNext

\* The invariant holds from the empty ledger on, whatever statements interleave, wait
\* for each other, fail and commit.
THEOREM LedgerInvariant == LedgerSpec => []LedgerInv
<1>1. LedgerInit => LedgerInv
  <2> SUFFICES ASSUME LedgerInit PROVE LedgerInv
    OBVIOUS
  <2>1. /\ \A v \in Versions : committed[Version(v)] = "draft"
        /\ \A f \in Facts : committed[Posting(f)] = "none"
        /\ \A f \in Facts : \A v \in DerivedFrom(f) :
              committed[SetRow(f, v)] = "none" /\ \A g \in Targets : committed[Part(f, v, g)] = 0
    <3>1. ASSUME NEW v \in Versions PROVE committed[Version(v)] = "draft"
      <4>1. Version(v) \in VersionRows /\ Version(v) \notin PostingRows \cup SetRows
        BY KnownRows, RowFacts DEF PostingRows, SetRows
      <4> QED BY <4>1, KnownRows DEF LedgerInit
    <3>2. ASSUME NEW f \in Facts PROVE committed[Posting(f)] = "none"
      BY KnownRows, RowFacts DEF LedgerInit, PostingRows, VersionRows
    <3>3. ASSUME NEW f \in Facts, NEW v \in DerivedFrom(f)
          PROVE  committed[SetRow(f, v)] = "none" /\ \A g \in Targets : committed[Part(f, v, g)] = 0
      <4>1. SetRow(f, v) \in SetRows /\ SetRow(f, v) \notin VersionRows
        BY RowFacts DEF SetRows, VersionRows
      <4>2. \A g \in Targets : Part(f, v, g) \notin VersionRows \cup PostingRows \cup SetRows
        BY RowFacts DEF SetRows, VersionRows, PostingRows
      <4> QED BY <4>1, <4>2, KnownRows DEF LedgerInit
    <3> QED BY <3>1, <3>2, <3>3
  <2>2. TablesOK
    BY <2>1 DEF LedgerInit, TablesOK
  <2>3. /\ \A t \in Txns : DOMAIN writes[t] = {} /\ statement[t] = None
        /\ \A l \in Locks : holder[l] = None
    BY DEF LedgerInit, Empty
  <2>4. StatementsOK /\ LocksOK /\ \A t \in Txns : WritesOK(t)
    BY <2>3 DEF StatementsOK, LocksOK, WritesOK
  <2>5. ASSUME NEW db, NEW f \in Facts, NEW v \in DerivedFrom(f),
               db[SetRow(f, v)] = "none", \A g \in Targets : db[Part(f, v, g)] = 0
        PROVE  SetOK(db, f, v)
    <3>1. /\ \A g \in Targets : Parts(db, f, v)[g] = 0 /\ Parts(db, f, v)[g] \in Nat
          /\ {g \in Targets : Parts(db, f, v)[g] > 0} = {}
      BY <2>5 DEF Parts
    <3>2. Total(db, f, v) = SumOver(Parts(db, f, v), {})
      BY <3>1, TotalIsSum, SumOfPositive, LedgerAssumption
    <3>3. Total(db, f, v) = 0
      BY <3>2, SumUnfolds, FS_EmptySet
    <3> QED BY <2>5, <3>3, LedgerAssumption DEF SetOK
  <2>6. SetsOK(committed)
    BY <2>1, <2>5 DEF SetsOK
  <2>7. ASSUME NEW t \in Txns PROVE SetsOK(Sees(t))
    <3>1. \A f \in Facts : \A v \in DerivedFrom(f) :
            /\ Sees(t)[SetRow(f, v)] = "none"
            /\ \A g \in Targets : Sees(t)[Part(f, v, g)] = 0
      BY <2>1, <2>3, KnownRows DEF Sees
    <3> QED BY <2>5, <3>1 DEF SetsOK
  <2> QED BY <2>2, <2>4, <2>6, <2>7 DEF LedgerInv
<1> QED BY <1>1, StepKeepsInv, PTL DEF LedgerSpec

\* The types of the tables; no two transactions have written one row, and locks belong
\* to transactions under way.
THEOREM LedgerTypeCorrect == LedgerSpec => []LedgerTypeOK
<1>1. LedgerInv => LedgerTypeOK
  <2> SUFFICES ASSUME LedgerInv PROVE LedgerTypeOK
    OBVIOUS
  <2>1. \A t \in Txns : WritesOK(t) /\ DOMAIN writes[t] \subseteq Rows
    BY Wrote DEF LedgerInv
  <2>2. ASSUME NEW t \in Txns, NEW u \in Txns, t # u,
               NEW r \in DOMAIN writes[t], r \in DOMAIN writes[u]
        PROVE  FALSE
    <3>1. RowOK(t, r, writes[t][r]) /\ r \in DOMAIN writes[u] /\ WritesOK(u)
      BY <2>1, <2>2 DEF WritesOK
    <3> QED BY <2>2, <3>1, Wrote DEF RowOK, HoldsDraft
  <2>3. \A l \in Locks : holder[l] # None =>
          holder[l] \in Txns /\ (writes[holder[l]] # Empty \/ statement[holder[l]] # None)
    BY DEF LedgerInv, TablesOK, LocksOK
  <2> QED BY <2>1, <2>2, <2>3 DEF LedgerInv, TablesOK, LedgerTypeOK, VersionRows, PostingRows,
                                  SetRows
<1> QED BY <1>1, LedgerInvariant, PTL

\* What the version v shows of a fact: itself, or the parts of its balanced set.
FactLines(f, v) ==
    IF committed[SetRow(f, v)] = "balanced"
      THEN {<<f, g, committed[Part(f, v, g)]>> :
               g \in {h \in Targets : committed[Part(f, v, h)] > 0}}
      ELSE {<<f, None, Amount[f]>>}

\* Either way they sum up to the fact, since only parts of zero are left out.
LEMMA LinesOfFact ==
    ASSUME LedgerInv, NEW f \in Facts, NEW v \in DerivedFrom(f), NEW value,
           \A l \in FactLines(f, v) : value[l] = l[3]
    PROVE  /\ IsFiniteSet(FactLines(f, v)) /\ SumOver(value, FactLines(f, v)) = Amount[f]
           /\ \A l \in FactLines(f, v) : l[1] = f /\ value[l] \in Nat
<1> SUFFICES ASSUME NEW lines, lines = FactLines(f, v)
             PROVE  /\ IsFiniteSet(lines) /\ SumOver(value, lines) = Amount[f]
                    /\ \A l \in lines : l[1] = f /\ value[l] \in Nat
  OBVIOUS
<1>0. \A l \in lines : value[l] = l[3]
  OBVIOUS
<1>1. SetOK(committed, f, v) /\ Amount[f] \in Nat
  BY LedgerAssumption DEF LedgerInv, SetsOK
<1>2. CASE committed[SetRow(f, v)] # "balanced"
  <2>0. PICK line : line = <<f, None, Amount[f]>>
    OBVIOUS
  <2>1. line = <<f, None, Amount[f]>> /\ line[1] = f /\ line[3] = Amount[f]
    BY <2>0
  <2>2. lines = {line}
    BY <1>0, <1>2, <2>1 DEF FactLines
  <2>6. value[line] = Amount[f] /\ IsFiniteSet({line})
    BY <1>0, <2>1, <2>2, FS_Singleton
  <2>3. SumOver(value, {line}) = value[line] + SumOver(value, {line} \ {line})
    BY <1>1, <2>6, SumOneMore
  <2>4. {line} \ {line} = {} /\ SumOver(value, {}) = 0
    BY SumUnfolds, FS_EmptySet
  <2>5. SumOver(value, {line}) = Amount[f]
    <3>1. SumOver(value, {line}) = Amount[f] + SumOver(value, {})
      BY <2>3, <2>4, <2>6
    <3> QED BY <1>1, <2>4, <3>1
  <2>7. \A l \in lines : l[1] = f /\ value[l] \in Nat
    BY <1>1, <2>1, <2>2, <2>6
  <2> QED BY <2>2, <2>5, <2>6, <2>7
<1>3. CASE committed[SetRow(f, v)] = "balanced"
  <2> DEFINE parts == Parts(committed, f, v)
             P == {h \in Targets : parts[h] > 0}
             line == [g \in Targets |-> <<f, g, parts[g]>>]
  <2>1. \A g \in Targets : parts[g] = committed[Part(f, v, g)] /\ parts[g] \in Nat
    BY <1>1 DEF Parts, SetOK
  <2>2. lines = {line[g] : g \in P}
    BY <1>0, <1>3, <2>1 DEF FactLines
  <2>3. IsFiniteSet(P) /\ P \subseteq Targets
    BY LedgerAssumption, FS_Subset
  <2>4. \A g \in P : value[line[g]] = parts[g]
    BY <1>0, <2>2
  <2>5. \A g, h \in P : line[g] = line[h] => g = h
    OBVIOUS
  <2> HIDE DEF line, parts
  <2>6. IsFiniteSet(lines) /\ SumOver(value, lines) = SumOver(parts, P)
    <3>1. \A g \in P : parts[g] \in Nat /\ value[line[g]] = parts[g]
      BY <2>1, <2>3, <2>4
    <3> HIDE DEF P
    <3> QED BY <2>2, <2>3, <2>5, <3>1, SumRenamed
  <2>7. SumOver(parts, P) = SumOver(parts, Targets)
    BY <2>1, SumOfPositive, LedgerAssumption
  <2>8. SumOver(parts, Targets) = Amount[f]
    BY <1>1, <1>3, TotalIsSum DEF SetOK, parts
  <2>9. \A l \in lines : l[1] = f /\ value[l] \in Nat
    BY <2>1, <2>2, <2>3, <2>4 DEF line
  <2> QED BY <2>6, <2>7, <2>8, <2>9
<1> QED BY <1>2, <1>3

\* The lines a version shows sum up to what was posted into it.
LEMMA ShownIsPosted ==
    ASSUME LedgerInv, NEW v \in Versions
    PROVE  MapThenSumSet(LAMBDA line : line[3], ShownLines(committed, v))
             = MapThenSumSet(LAMBDA f : Amount[f],
                  {f \in Facts : VersionOf[f] = v /\ committed[Posting(f)] = "fact"})
<1> DEFINE posted == {h \in Facts : VersionOf[h] = v /\ committed[Posting(h)] = "fact"}
           group == [f \in posted |-> FactLines(f, v)]
           shown == UNION {group[f] : f \in posted}
           value == [l \in shown |-> l[3]]
<1>1. ShownLines(committed, v) = shown
  BY DEF ShownLines, FactLines
<1>2. IsFiniteSet(posted) /\ posted \subseteq Facts
  BY FS_Subset, LedgerAssumption
<1>3. ASSUME NEW f \in posted
      PROVE  /\ IsFiniteSet(group[f]) /\ SumOver(value, group[f]) = Amount[f]
             /\ \A l \in group[f] : l[1] = f /\ value[l] \in Nat
  <2>1. f \in Facts /\ v \in DerivedFrom(f)
    BY KnownRows
  <2>2. \A l \in group[f] : value[l] = l[3]
    OBVIOUS
  <2>3. group[f] = FactLines(f, v)
    OBVIOUS
  <2> HIDE DEF group, value, posted
  <2> QED BY <2>1, <2>2, <2>3, LinesOfFact
<1>4. \A f \in posted : Amount[f] \in Nat
  BY LedgerAssumption
<1> HIDE DEF posted, group, value
<1>5. \A f, h \in posted : f # h => group[f] \cap group[h] = {}
  BY <1>3
<1>6. IsFiniteSet(shown) /\ SumOver(value, shown) = SumOver(Amount, posted)
  <2>1. \A f \in posted : /\ IsFiniteSet(group[f]) /\ SumOver(value, group[f]) = Amount[f]
                          /\ Amount[f] \in Nat /\ \A l \in group[f] : value[l] \in Nat
    BY <1>3, <1>4
  <2>2. shown = UNION {group[f] : f \in posted}
    OBVIOUS
  <2> HIDE DEF shown
  <2> QED BY <1>2, <1>5, <2>1, <2>2, SumOfGroups
<1> QED BY <1>1, <1>6, LinesAreSum, AmountsAreSum DEF value, posted

\* Parts never exceed their fact, a balanced set is its fact, and what a version shows is
\* what was posted into it, whatever transactions allocate and balance at once.
THEOREM AllocationsReconcileCorrect == LedgerSpec => []AllocationsReconcile
<1>1. LedgerInv => AllocationsReconcile
  <2> SUFFICES ASSUME LedgerInv PROVE AllocationsReconcile
    OBVIOUS
  <2>1. BalancedIsWhole(committed) /\ SetsHaveFacts(committed)
    BY DEF LedgerInv, SetsOK, SetOK, BalancedIsWhole, SetsHaveFacts
  <2>2. \A f \in Facts : \A v \in DerivedFrom(f) : Total(committed, f, v) <= Amount[f]
    BY DEF LedgerInv, SetsOK, SetOK
  <2> QED BY <2>1, <2>2, ShownIsPosted DEF AllocationsReconcile
<1> QED BY <1>1, LedgerInvariant, PTL

\* What M016 found in the allocations of a version, and what M018 shows of it, stays as
\* it is once the version has left draft: nobody holds its lock and commits into it.
THEOREM EvidenceStandsCorrect == LedgerSpec => EvidenceStands
<1>1. LedgerInv /\ [LedgerNext]_ledgerVars =>
        [\A v \in Versions : ~ IsDraft(committed, v) =>
            /\ Uncovered(committed', v) = Uncovered(committed, v)
            /\ ShownLines(committed', v) = ShownLines(committed, v)]_ledgerVars
  <2> SUFFICES ASSUME LedgerInv, LedgerNext, NEW v \in Versions, ~ IsDraft(committed, v)
               PROVE  /\ Uncovered(committed', v) = Uncovered(committed, v)
                      /\ ShownLines(committed', v) = ShownLines(committed, v)
    OBVIOUS
  <2>1. committed' = committed \/ \E t \in Txns : Commit(t)
    BY DEF LedgerNext, StartStatement, Continue, Advance, Rollback
  <2>2. CASE committed' = committed
    BY <2>2
  <2>3. ASSUME NEW t \in Txns, Commit(t)
        PROVE  /\ Uncovered(committed', v) = Uncovered(committed, v)
               /\ ShownLines(committed', v) = ShownLines(committed, v)
    <3>1. ASSUME NEW f \in Facts, VersionOf[f] = v
          PROVE  /\ committed'[Posting(f)] = committed[Posting(f)]
                 /\ \A w \in DerivedFrom(f) : committed'[SetRow(f, w)] = committed[SetRow(f, w)]
                 /\ \A g \in Targets : committed'[Part(f, v, g)] = committed[Part(f, v, g)]
      BY <2>3, <3>1, Committed, KnownRows DEF HoldsDraft, IsDraft
    <3>2. Uncovered(committed', v) = Uncovered(committed, v)
      BY <3>1 DEF Uncovered
    <3> DEFINE Posted(db) == {h \in Facts : VersionOf[h] = v /\ db[Posting(h)] = "fact"}
               LinesOf(db, f) ==
                 IF db[SetRow(f, v)] = "balanced"
                   THEN {<<f, g, db[Part(f, v, g)]>> : g \in {h \in Targets : db[Part(f, v, h)] > 0}}
                   ELSE {<<f, None, Amount[f]>>}
    <3>3. Posted(committed') = Posted(committed)
      BY <3>1
    <3>4. ASSUME NEW f \in Posted(committed)
          PROVE  LinesOf(committed', f) = LinesOf(committed, f)
      <4>1. /\ f \in Facts /\ VersionOf[f] = v /\ v \in DerivedFrom(f)
        BY KnownRows
      <4>2. /\ committed'[SetRow(f, v)] = committed[SetRow(f, v)]
            /\ \A g \in Targets : committed'[Part(f, v, g)] = committed[Part(f, v, g)]
        BY <3>1, <4>1
      <4>3. {h \in Targets : committed'[Part(f, v, h)] > 0}
              = {h \in Targets : committed[Part(f, v, h)] > 0}
        BY <4>2
      <4> QED BY <4>2, <4>3
    <3>5. ShownLines(committed', v) = ShownLines(committed, v)
      BY <3>3, <3>4 DEF ShownLines
    <3> QED BY <3>2, <3>5
  <2> QED BY <2>1, <2>2, <2>3
<1> QED BY <1>1, LedgerInvariant, PTL DEF LedgerSpec, EvidenceStands

-----------------------------------------------------------------------------
(* The ledger beside the personal messages, with which it shares no state. *)

\* Every behaviour of the two side by side is one of each, with the other at rest: what
\* is proved of them holds of the run.
LEMMA RunsMessagesAndLedger == MCSpec => Spec /\ LedgerSpec
<1>1. MCInit => Init /\ LedgerInit
  BY DEF MCInit
<1>2. [MCNext]_<<part, vars, ledgerVars>> => [Next]_vars
  BY DEF MCNext
<1>3. [MCNext]_<<part, vars, ledgerVars>> => [LedgerNext]_ledgerVars
  BY DEF MCNext
<1> QED BY <1>1, <1>2, <1>3, PTL DEF MCSpec, Spec, LedgerSpec

\* Messages and ledger keep their types, side by side.
THEOREM LedgerAndMessagesTypeCorrect == MCSpec => []ComponentsTypeOK
<1>1. MessageTypeOK /\ LedgerTypeOK => ComponentsTypeOK
  BY DEF ComponentsTypeOK
<1> QED BY <1>1, RunsMessagesAndLedger, MessageTypeCorrect, LedgerTypeCorrect, PTL
=============================================================================
