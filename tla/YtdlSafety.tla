----------------------------- MODULE YtdlSafety -----------------------------
(***************************************************************************)
(* What Ytdl, its rule of admission and its waiting line promise, for any  *)
(* number of rows, users, workers, pages, slots and failures.              *)
(*                                                                         *)
(* First comes Admit itself, for every queue; then the rows, jobs and      *)
(* handlers of Ytdl keep their types.                                      *)
(*                                                                         *)
(* Every step of Ytdl is one of four kinds as far as the rows go: rows end *)
(* or stay; one is dismissed; rows join the line; one is claimed for a     *)
(* slot.  The lemmas of the third part show that, one action at a time;    *)
(* the fourth part draws the invariants from it.                           *)
(*                                                                         *)
(* Then, Ytdl implements DownloadSlots: of the four kinds of steps, the    *)
(* ones that join are Join, a claim is Start, and all the others Leave.    *)
(*                                                                         *)
(* Last, the waiting line by itself (YtdlQueue), over many admissions.     *)
(***************************************************************************)
EXTENDS YtdlInv, YtdlBatch, FiniteSetTheorems, WellFoundedInduction, TLAPS

(***************************************************************************)
(* Admit, for every queue and every number of slots.  The order in which   *)
(* candidates are dealt is a strict total order as soon as their sequence  *)
(* numbers differ, so positions differ too, and no more than n candidates  *)
(* can have a position below n.                                            *)
(***************************************************************************)

\* What Admit is given: finitely many candidates that their sequence numbers tell apart.
Line(queued) ==
  /\ IsFiniteSet(queued)
  /\ \A c \in queued : c.seq \in Int /\ c.direct \in BOOLEAN
  /\ \A c, d \in queued : c.seq = d.seq => c = d

-----------------------------------------------------------------------------
\* A set of naturals that is not empty has a least element.
LEMMA LeastNatural ==
  ASSUME NEW S \in SUBSET Nat, S # {}
  PROVE  \E m \in S : \A n \in S : m <= n
<1> DEFINE Less == {ss \in Nat \X Nat : ss[1] < ss[2]}
<1>1. OpToRel(<, Nat) = Less
  BY DEF OpToRel
<1>2. IsWellFoundedOn(Less, Nat)
  BY <1>1, NatLessThanWellFounded
<1>3. PICK m \in S : \A n \in S : ~(<<n, m>> \in Less)
  <2> HIDE DEF Less
  <2> QED  BY <1>2, WFMin
<1>4. ASSUME NEW n \in S PROVE m <= n
  <2>1. ~(<<n, m>> \in Less)  BY <1>3
  <2>2. n \in Nat /\ m \in Nat  OBVIOUS
  <2> QED  BY <2>1, <2>2, SMT
<1> QED  BY <1>4

\* The candidates of one user are dealt in a strict total order.
LEMMA AheadIsTotal ==
  ASSUME NEW queued, Line(queued), NEW c \in queued, NEW d \in queued, c # d
  PROVE  Ahead(c, d) \/ Ahead(d, c)
<1>1. c.seq < d.seq \/ d.seq < c.seq
  BY DEF Line
<1>2. c.direct = d.direct \/ (c.direct /\ ~d.direct) \/ (d.direct /\ ~c.direct)
  BY Zenon DEF Line
<1> QED  BY <1>1, <1>2, Zenon DEF Ahead

LEMMA AheadIsIrreflexive ==
  ASSUME NEW queued, Line(queued), NEW c \in queued
  PROVE  ~Ahead(c, c)
<1>1. ~(c.seq < c.seq)  BY DEF Line
<1> QED  BY <1>1, Zenon DEF Ahead

LEMMA AheadIsTransitive ==
  ASSUME NEW queued, Line(queued), NEW c \in queued, NEW d \in queued, NEW e \in queued,
         Ahead(c, d), Ahead(d, e)
  PROVE  Ahead(c, e)
<1>1. c.seq < d.seq /\ d.seq < e.seq => c.seq < e.seq  BY DEF Line
<1> QED  BY <1>1, Zenon DEF Ahead, Line

-----------------------------------------------------------------------------
\* Only finitely many candidates count, and each is dealt in some round.
LEMMA RoundType ==
  ASSUME NEW queued, Line(queued), NEW c
  PROVE  /\ IsFiniteSet(Attributed(queued))
         /\ Attributed(queued) \subseteq queued
         /\ IsFiniteSet(Rivals(queued, c))
         /\ Round(queued, c) \in Nat
<1>1. Attributed(queued) \subseteq queued  BY DEF Attributed
<1>2. IsFiniteSet(Attributed(queued))  BY <1>1, FS_Subset DEF Line
<1>3. Rivals(queued, c) \subseteq Attributed(queued)  BY DEF Rivals
<1>4. IsFiniteSet(Rivals(queued, c))  BY <1>2, <1>3, FS_Subset
<1> QED  BY <1>1, <1>2, <1>4, FS_CardinalityType DEF Round

\* Of two candidates of one user, the one ahead is dealt in an earlier round.
LEMMA RoundIncreases ==
  ASSUME NEW queued, Line(queued),
         NEW c \in Attributed(queued), NEW d \in Attributed(queued),
         c.user = d.user, Ahead(c, d)
  PROVE  Round(queued, c) < Round(queued, d)
<1> DEFINE A == Attributed(queued)
<1>1. A \subseteq queued /\ c \in queued /\ d \in queued
  BY RoundType
<1>2. Rivals(queued, c) \subseteq Rivals(queued, d)
  <2> SUFFICES ASSUME NEW e \in Rivals(queued, c) PROVE e \in Rivals(queued, d)  OBVIOUS
  <2>1. e \in A /\ e \in queued /\ e.user = c.user /\ Ahead(e, c)  BY <1>1 DEF Rivals
  <2>2. Ahead(e, d)  BY <1>1, <2>1, AheadIsTransitive
  <2> QED  BY <2>1, <2>2 DEF Rivals
<1>3. c \in Rivals(queued, d) /\ c \notin Rivals(queued, c)
  BY <1>1, AheadIsIrreflexive DEF Rivals
<1>4. IsFiniteSet(Rivals(queued, d)) /\ Round(queued, c) \in Nat /\ Round(queued, d) \in Nat
  BY RoundType
<1>5. /\ Cardinality(Rivals(queued, c)) <= Cardinality(Rivals(queued, d))
      /\ Cardinality(Rivals(queued, d)) = Cardinality(Rivals(queued, c))
           => Rivals(queued, d) = Rivals(queued, c)
  BY <1>2, <1>4, FS_Subset
<1> QED  BY <1>3, <1>4, <1>5 DEF Round

\* A user has one candidate at most in any round.
LEMMA RoundIsInjective ==
  ASSUME NEW queued, Line(queued),
         NEW c \in Attributed(queued), NEW d \in Attributed(queued),
         c.user = d.user, Round(queued, c) = Round(queued, d)
  PROVE  c = d
<1>1. c \in queued /\ d \in queued  BY RoundType
<1>2. Round(queued, c) \in Nat /\ Round(queued, d) \in Nat  BY RoundType
<1>3. ~Ahead(c, d)  BY <1>2, RoundIncreases
<1>4. ~Ahead(d, c)  BY <1>2, RoundIncreases
<1> QED  BY <1>1, <1>3, <1>4, AheadIsTotal

\* Every user with a candidate has one in the first round.
LEMMA FirstRound ==
  ASSUME NEW queued, Line(queued), NEW c \in Attributed(queued)
  PROVE  \E e \in Attributed(queued) : e.user = c.user /\ Round(queued, e) = 0
<1> DEFINE A == Attributed(queued)
           Rounds == {Round(queued, e) : e \in {d \in A : d.user = c.user}}
<1>1. Rounds \in SUBSET Nat  BY RoundType
<1>2. Rounds # {}  OBVIOUS
<1>3. PICK m \in Rounds : \A n \in Rounds : m <= n
  <2> HIDE DEF Rounds
  <2> QED  BY <1>1, <1>2, LeastNatural
<1>4. PICK e \in A : e.user = c.user /\ Round(queued, e) = m  OBVIOUS
<1>5. Rivals(queued, e) = {}
  <2> SUFFICES ASSUME NEW f \in Rivals(queued, e) PROVE FALSE  OBVIOUS
  <2>1. f \in A /\ f.user = e.user /\ Ahead(f, e)  BY DEF Rivals
  <2>2. Round(queued, f) < Round(queued, e)  BY <2>1, RoundIncreases
  <2>3. Round(queued, f) \in Rounds  BY <1>4, <2>1
  <2>4. m <= Round(queued, f)  BY <1>3, <2>3
  <2>5. m \in Nat /\ Round(queued, f) \in Nat  BY <1>1, <2>3
  <2> QED  BY <1>4, <2>2, <2>4, <2>5
<1>6. Round(queued, e) = 0  BY <1>5, FS_EmptySet DEF Round
<1> QED  BY <1>4, <1>6

-----------------------------------------------------------------------------
\* The order in which candidates are dealt is a strict total order.
LEMMA DealtBeforeIsIrreflexive ==
  ASSUME NEW queued, Line(queued), NEW c \in Attributed(queued)
  PROVE  ~DealtBefore(queued, c, c)
<1>1. Round(queued, c) \in Nat  BY RoundType
<1>2. ASSUME UserBefore(queued, c, c) PROVE FALSE
  <2>1. PICK e \in Attributed(queued), f \in Attributed(queued) :
          /\ e.user = c.user /\ Round(queued, e) = 0
          /\ f.user = c.user /\ Round(queued, f) = 0
          /\ e.seq < f.seq
    BY <1>2 DEF UserBefore
  <2>2. e = f  BY <2>1, RoundIsInjective
  <2>3. e \in queued  BY RoundType
  <2> QED  BY <2>1, <2>2, <2>3 DEF Line
<1> QED  BY <1>1, <1>2 DEF DealtBefore

LEMMA DealtBeforeIsTotal ==
  ASSUME NEW queued, Line(queued),
         NEW c \in Attributed(queued), NEW d \in Attributed(queued), c # d
  PROVE  DealtBefore(queued, c, d) \/ DealtBefore(queued, d, c)
<1> DEFINE A == Attributed(queued)
<1>1. Round(queued, c) \in Nat /\ Round(queued, d) \in Nat  BY RoundType
<1>2. CASE Round(queued, c) # Round(queued, d)
  BY <1>1, <1>2 DEF DealtBefore
<1>3. CASE Round(queued, c) = Round(queued, d)
  <2>1. c.user # d.user  BY <1>3, RoundIsInjective
  <2>2. PICK e \in A : e.user = c.user /\ Round(queued, e) = 0  BY FirstRound
  <2>3. PICK f \in A : f.user = d.user /\ Round(queued, f) = 0  BY FirstRound
  <2>4. e \in queued /\ f \in queued /\ e # f  BY <2>1, <2>2, <2>3, RoundType
  <2>5. e.seq < f.seq \/ f.seq < e.seq  BY <2>4 DEF Line
  <2>6. UserBefore(queued, c, d) \/ UserBefore(queued, d, c)
    BY <2>2, <2>3, <2>5 DEF UserBefore
  <2> QED  BY <1>3, <2>6 DEF DealtBefore
<1> QED  BY <1>2, <1>3

LEMMA DealtBeforeIsTransitive ==
  ASSUME NEW queued, Line(queued), NEW c \in Attributed(queued),
         NEW d \in Attributed(queued), NEW e \in Attributed(queued),
         DealtBefore(queued, c, d), DealtBefore(queued, d, e)
  PROVE  DealtBefore(queued, c, e)
<1> DEFINE A == Attributed(queued)
           First(f, g) == f.user = g.user /\ Round(queued, f) = 0
<1>1. Round(queued, c) \in Nat /\ Round(queued, d) \in Nat /\ Round(queued, e) \in Nat
  BY RoundType
<1>2. ASSUME UserBefore(queued, c, d), UserBefore(queued, d, e)
      PROVE  UserBefore(queued, c, e)
  <2>1. PICK f \in A, g \in A : First(f, c) /\ First(g, d) /\ f.seq < g.seq
    BY <1>2 DEF UserBefore
  <2>2. PICK h \in A, k \in A : First(h, d) /\ First(k, e) /\ h.seq < k.seq
    BY <1>2 DEF UserBefore
  <2>3. g = h  BY <2>1, <2>2, RoundIsInjective
  <2>4. f \in queued /\ g \in queued /\ k \in queued  BY RoundType
  <2>5. f.seq < k.seq  BY <2>1, <2>2, <2>3, <2>4 DEF Line
  <2> QED  BY <2>1, <2>2, <2>5 DEF UserBefore
<1> QED  BY <1>1, <1>2 DEF DealtBefore

\* A candidate's position is the number of candidates dealt before it.
LEMMA PositionIncreases ==
  ASSUME NEW queued, Line(queued),
         NEW c \in Attributed(queued), NEW d \in Attributed(queued),
         DealtBefore(queued, c, d)
  PROVE  /\ Position(queued, c) \in Nat /\ Position(queued, d) \in Nat
         /\ Position(queued, c) < Position(queued, d)
<1> DEFINE A == Attributed(queued)
           Before(x) == {e \in A : DealtBefore(queued, e, x)}
<1>1. IsFiniteSet(A)  BY RoundType
<1>2. IsFiniteSet(Before(c)) /\ IsFiniteSet(Before(d))  BY <1>1, FS_Subset
<1>3. Before(c) \subseteq Before(d)  BY DealtBeforeIsTransitive
<1>4. c \in Before(d) /\ c \notin Before(c)  BY DealtBeforeIsIrreflexive
<1>5. /\ Cardinality(Before(c)) <= Cardinality(Before(d))
      /\ Cardinality(Before(d)) = Cardinality(Before(c)) => Before(d) = Before(c)
  BY <1>2, <1>3, FS_Subset
<1>6. Cardinality(Before(c)) \in Nat /\ Cardinality(Before(d)) \in Nat
  BY <1>2, FS_CardinalityType
<1>7. Cardinality(Before(c)) < Cardinality(Before(d))  BY <1>4, <1>5, <1>6
<1> QED  BY <1>6, <1>7 DEF Position

(***************************************************************************)
(* Admit (queue.go) never chooses more candidates than there are slots,    *)
(* and none when there is no slot, whoever the candidates belong to.       *)
(***************************************************************************)
THEOREM AdmitFitsSlots ==
  ASSUME NEW queued, Line(queued), NEW slots \in Int
  PROVE  /\ IsFiniteSet(Admit(queued, slots))
         /\ Admit(queued, slots) \subseteq queued
         /\ slots <= 0 => Admit(queued, slots) = {}
         /\ slots >= 0 => Cardinality(Admit(queued, slots)) <= slots
<1> DEFINE A == Attributed(queued)
           S == Admit(queued, slots)
           place == [c \in S |-> Position(queued, c)]
<1>1. IsFiniteSet(A) /\ A \subseteq queued  BY RoundType
<1>2. S \subseteq A  BY DEF Admit
<1>3. IsFiniteSet(S)  BY <1>1, <1>2, FS_Subset
<1>4. \A c \in A : Position(queued, c) \in Nat
  BY <1>1, FS_Subset, FS_CardinalityType DEF Position
<1>5. slots <= 0 => S = {}  BY <1>2, <1>4 DEF Admit
<1>6. ASSUME slots > 0 PROVE Cardinality(S) <= slots
  <2>1. place \in [S -> 0..(slots - 1)]  BY <1>2, <1>4 DEF Admit
  <2>2. ASSUME NEW c \in S, NEW d \in S, place[c] = place[d] PROVE c = d
    <3>1. SUFFICES ASSUME c # d PROVE FALSE  OBVIOUS
    <3>2. DealtBefore(queued, c, d) \/ DealtBefore(queued, d, c)
      BY <1>2, <3>1, DealtBeforeIsTotal
    <3>3. Position(queued, c) < Position(queued, d) \/ Position(queued, d) < Position(queued, c)
      BY <1>2, <3>2, PositionIncreases
    <3> QED  BY <1>2, <1>4, <2>2, <3>3
  <2>3. place \in Injection(S, 0..(slots - 1))  BY <2>1, <2>2 DEF Injection, IsInjective
  <2>4. IsFiniteSet(0..(slots - 1)) /\ Cardinality(0..(slots - 1)) = slots
    BY <1>6, FS_Interval
  <2> QED
    <3> HIDE DEF place, S
    <3> QED  BY <2>3, <2>4, FS_Injection
<1>7. slots = 0 => Cardinality(S) <= slots  BY <1>5, FS_EmptySet
<1> QED  BY <1>1, <1>2, <1>3, <1>5, <1>6, <1>7

\* Whoever is dealt before an admitted candidate is admitted.
LEMMA AdmitIsAPrefix ==
  ASSUME NEW queued, Line(queued), NEW slots \in Int,
         NEW c \in Admit(queued, slots), NEW d \in Attributed(queued),
         DealtBefore(queued, d, c)
  PROVE  d \in Admit(queued, slots)
<1>1. c \in Attributed(queued) /\ Position(queued, c) < slots  BY DEF Admit
<1>2. /\ Position(queued, c) \in Nat /\ Position(queued, d) \in Nat
      /\ Position(queued, d) < Position(queued, c)
  BY <1>1, PositionIncreases
<1>3. Position(queued, d) < slots  BY <1>1, <1>2
<1> QED  BY <1>3 DEF Admit

(***************************************************************************)
(* "Rotation never idles a slot" (queue.go): while somebody with an        *)
(* account is left waiting, every slot has been given out.                 *)
(***************************************************************************)
THEOREM AdmitFillsSlots ==
  ASSUME NEW queued, Line(queued), NEW slots \in Nat,
         NEW c \in Attributed(queued) \ Admit(queued, slots)
  PROVE  Cardinality(Admit(queued, slots)) = slots
<1> DEFINE A == Attributed(queued)
           S == Admit(queued, slots)
           Before(x) == {e \in A : DealtBefore(queued, e, x)}
           Places == {Position(queued, x) : x \in A \ S}
<1>1. IsFiniteSet(A)  BY RoundType
<1>2. IsFiniteSet(S) /\ Cardinality(S) <= slots  BY AdmitFitsSlots
<1>3. \A x \in A : Position(queued, x) \in Nat
  BY <1>1, FS_Subset, FS_CardinalityType DEF Position
<1>4. PICK m \in Places : \A n \in Places : m <= n
  <2>1. Places \in SUBSET Nat /\ Places # {}  BY <1>3
  <2> HIDE DEF Places
  <2> QED  BY <2>1, LeastNatural
<1>5. PICK d \in A \ S : Position(queued, d) = m  OBVIOUS
<1>6. m \in Nat /\ m >= slots  BY <1>3, <1>5 DEF Admit
<1>7. Before(d) \subseteq S
  <2> SUFFICES ASSUME NEW e \in A, DealtBefore(queued, e, d), e \notin S PROVE FALSE
    OBVIOUS
  <2>1. Position(queued, e) < m /\ Position(queued, e) \in Nat  BY <1>5, PositionIncreases
  <2>2. m <= Position(queued, e)  BY <1>4
  <2> QED  BY <1>6, <2>1, <2>2
<1>8. Cardinality(Before(d)) <= Cardinality(S)  BY <1>2, <1>7, FS_Subset
<1>9. Cardinality(Before(d)) = m  BY <1>5 DEF Position
<1>10. Cardinality(S) \in Nat  BY <1>2, FS_CardinalityType
<1> QED  BY <1>2, <1>6, <1>8, <1>9, <1>10

(***************************************************************************)
(* "Within one user, a pasted link goes before bulk work" and then         *)
(* submission order decides (queue.go): of one user's candidates, those    *)
(* admitted go ahead of those left.                                        *)
(***************************************************************************)
THEOREM AdmitKeepsOwnOrder ==
  ASSUME NEW queued, Line(queued), NEW slots \in Int,
         NEW c \in Admit(queued, slots), NEW d \in Attributed(queued) \ Admit(queued, slots),
         c.user = d.user
  PROVE  Ahead(c, d)
<1>1. c \in Attributed(queued) /\ c \in queued /\ d \in queued /\ c # d
  BY RoundType DEF Admit
<1>2. ASSUME Ahead(d, c) PROVE FALSE
  <2>1. Round(queued, d) < Round(queued, c)  BY <1>1, <1>2, RoundIncreases
  <2>2. DealtBefore(queued, d, c)  BY <2>1 DEF DealtBefore
  <2> QED  BY <2>2, AdmitIsAPrefix
<1> QED  BY <1>1, <1>2, AheadIsTotal

\* What one user is given.
Dealt(queued, slots, u) == {c \in Admit(queued, slots) : c.user = u}

(***************************************************************************)
(* "Slots rotate" (queue.go): nobody is given more than one slot more than *)
(* a user who is left waiting.                                             *)
(***************************************************************************)
THEOREM AdmitRotates ==
  ASSUME NEW queued, Line(queued), NEW slots \in Int, NEW u,
         NEW c \in Attributed(queued) \ Admit(queued, slots)
  PROVE  Cardinality(Dealt(queued, slots, u)) <= Cardinality(Dealt(queued, slots, c.user)) + 1
<1> DEFINE A == Attributed(queued)
           S == Admit(queued, slots)
           Of(v) == Dealt(queued, slots, v)
           Left == {x \in A \ S : x.user = c.user}
           Rounds == {Round(queued, x) : x \in Left}
<1>1. IsFiniteSet(S) /\ S \subseteq A  BY AdmitFitsSlots DEF Admit
<1>2. \A x \in A : Round(queued, x) \in Nat  BY RoundType
<1>3. PICK k \in Rounds : \A n \in Rounds : k <= n
  <2>1. Rounds \in SUBSET Nat /\ Rounds # {}  BY <1>2
  <2> HIDE DEF Rounds
  <2> QED  BY <2>1, LeastNatural
<1>4. PICK d \in Left : Round(queued, d) = k  OBVIOUS
<1>5. k \in Nat /\ d \in A /\ d \notin S /\ d.user = c.user  BY <1>2, <1>4
<1>6. Rivals(queued, d) \subseteq Of(c.user)
  <2> SUFFICES ASSUME NEW e \in Rivals(queued, d) PROVE e \in Of(c.user)  OBVIOUS
  <2>1. e \in A /\ e.user = c.user /\ Ahead(e, d)  BY <1>5 DEF Rivals
  <2>2. Round(queued, e) < k  BY <1>4, <1>5, <2>1, RoundIncreases
  <2>3. Round(queued, e) \notin Rounds  BY <1>2, <1>3, <1>5, <2>1, <2>2
  <2> QED  BY <2>1, <2>3 DEF Dealt
<1>7. \A v : IsFiniteSet(Of(v)) /\ Cardinality(Of(v)) \in Nat
  BY <1>1, FS_Subset, FS_CardinalityType DEF Dealt
<1>8. k <= Cardinality(Of(c.user))
  <2>1. Cardinality(Rivals(queued, d)) <= Cardinality(Of(c.user))  BY <1>6, <1>7, FS_Subset
  <2> QED  BY <1>4, <2>1 DEF Round
<1>9. Cardinality(Of(u)) <= k + 1
  <2> DEFINE round == [x \in Of(u) |-> Round(queued, x)]
  <2>1. ASSUME NEW x \in Of(u) PROVE Round(queued, x) \in 0..k
    <3>1. x \in A /\ x \in S  BY <1>1 DEF Dealt
    <3>2. x # d  BY <1>5, <3>1
    <3>3. ~DealtBefore(queued, d, x)  BY <1>5, <3>1, AdmitIsAPrefix
    <3>4. DealtBefore(queued, x, d)  BY <1>5, <3>1, <3>2, <3>3, DealtBeforeIsTotal
    <3> QED  BY <1>2, <1>4, <1>5, <3>1, <3>4 DEF DealtBefore
  <2>2. round \in [Of(u) -> 0..k]  BY <2>1
  <2>3. \A x, y \in Of(u) : round[x] = round[y] => x = y
    BY <1>1, RoundIsInjective DEF Dealt
  <2>4. round \in Injection(Of(u), 0..k)  BY <2>2, <2>3 DEF Injection, IsInjective
  <2>5. IsFiniteSet(0..k) /\ Cardinality(0..k) = k + 1  BY <1>5, FS_Interval
  <2> HIDE DEF round, Of
  <2> QED  BY <2>4, <2>5, FS_Injection
<1>10. Cardinality(Of(u)) \in Nat /\ Cardinality(Of(c.user)) \in Nat  BY <1>7
<1>11. Cardinality(Of(u)) <= Cardinality(Of(c.user)) + 1
  <2> HIDE DEF Of
  <2> QED  BY <1>5, <1>8, <1>9, <1>10
<1> QED  BY <1>11

-----------------------------------------------------------------------------
\* The rows.

States == {"none", "resolving", "queued", "scheduled", "downloading", "completed", "failed"}
Reasons == {"", "generic", "refused", "retrying", "other"}

-----------------------------------------------------------------------------
\* The next sequence number exists, and every row's is below it (MAX + 1).
LEMMA NextSeqIsAbove ==
  ASSUME TypeOK
  PROVE  NextSeq \in 1..(MaxSeq + 1) /\ \A id \in Ids : rec[id].seq < NextSeq
<1> USE YtdlAssumption
<1> DEFINE Above == {n \in 1..(MaxSeq + 1) : \A id \in Ids : rec[id].seq < n}
<1>1. \A id \in Ids : rec[id].seq \in 0..MaxSeq  BY DEF TypeOK, Row
<1>2. Above \in SUBSET Nat /\ MaxSeq + 1 \in Above  BY <1>1
<1>3. PICK m \in Above : \A n \in Above : m <= n
  <2> HIDE DEF Above
  <2> QED  BY <1>2, LeastNatural
<1>4. m \in 1..(MaxSeq + 1) /\ (\A id \in Ids : rec[id].seq < m)  OBVIOUS
<1>5. m = 1 \/ \E id \in Ids : rec[id].seq = m - 1
  <2> SUFFICES ASSUME m # 1, \A id \in Ids : rec[id].seq # m - 1 PROVE FALSE  OBVIOUS
  <2>1. m - 1 \in 1..(MaxSeq + 1)  BY <1>4
  <2>2. \A id \in Ids : rec[id].seq < m - 1  BY <1>1, <1>4
  <2>3. m - 1 \in Above  BY <2>1, <2>2
  <2> QED  BY <1>3, <1>4, <2>3
<1> QED  BY <1>4, <1>5 DEF NextSeq

\* Writing one row leaves the others as they are.
LEMMA RowWritten ==
  ASSUME TypeOK, NEW id \in Ids, NEW row \in Row
  PROVE  [rec EXCEPT ![id] = row] \in [Ids -> Row]
BY DEF TypeOK

LEMMA SetYtdlStateType ==
  ASSUME TypeOK, NEW id \in Ids, NEW state \in States, NEW reason \in Reasons,
         NEW stamp \in BOOLEAN
  PROVE  SetYtdlState(id, state, reason, stamp) \in [Ids -> Row]
<1>1. rec \in [Ids -> Row] /\ rec[id] \in Row  BY DEF TypeOK
<1> DEFINE at == IF stamp THEN "recent" ELSE rec[id].finished
<1>2. at \in {"absent", "recent", "past"}  BY <1>1 DEF Row
<1>3. Written(rec[id], state, reason, stamp)
        = [rec[id] EXCEPT !.state = state, !.reason = reason, !.finished = at]
  BY DEF Written
<1> HIDE DEF at
<1> DEFINE row == rec[id]
<1>4. [row EXCEPT !.state = state, !.reason = reason, !.finished = at] \in Row
  <2>1. row \in Row  BY <1>1
  <2> HIDE DEF row
  <2> DEFINE one == [row EXCEPT !.state = state]
             two == [one EXCEPT !.reason = reason]
  <2>2. one \in Row  BY <2>1 DEF Row, States
  <2>3. [row EXCEPT !.state = state, !.reason = reason, !.finished = at]
          = [two EXCEPT !.finished = at]
    BY <2>1 DEF Row
  <2> HIDE DEF one
  <2>4. two \in Row  BY <2>2 DEF Row, Reasons
  <2> HIDE DEF two
  <2> QED  BY <2>3, <2>4, <1>2 DEF Row
<1>5. Written(rec[id], state, reason, stamp) \in Row  BY <1>3, <1>4
<1> QED  BY <1>1, <1>5, RowWritten DEF SetYtdlState

LEMMA CaptureTerminalType ==
  ASSUME TypeOK, NEW id \in Ids, NEW row, NEW state \in States, NEW reason \in Reasons
  PROVE  CaptureTerminal(id, row, state, reason) \in [Ids -> Row]
<1>1. rec \in [Ids -> Row]  BY DEF TypeOK
<1> QED  BY <1>1, SetYtdlStateType DEF CaptureTerminal

LEMMA RequeueYtdlType ==
  ASSUME TypeOK, NEW id \in Ids, NextSeq <= MaxSeq
  PROVE  RequeueYtdl(id) \in [Ids -> Row]
<1> DEFINE n == rec[id].attempts + 1
           s == NextSeq
<1>1. s \in 0..MaxSeq  BY YtdlAssumption, NextSeqIsAbove
<1>2. rec \in [Ids -> Row] /\ rec[id] \in Row  BY DEF TypeOK
<1>3. rec[id].attempts \in Nat  BY <1>2 DEF Row
<1>4. n \in Nat  BY <1>3
<1>5. Requeued(rec[id]) = [rec[id] EXCEPT !.state = "queued", !.reason = "",
                            !.finished = "absent", !.attempts = n, !.seq = s]
  BY DEF Requeued
<1> HIDE DEF n, s
<1>6. Requeued(rec[id]) \in Row  BY <1>1, <1>2, <1>4, <1>5 DEF Row
<1> QED  BY <1>2, <1>6, RowWritten DEF RequeueYtdl

LEMMA ReopenYtdlGroupType ==
  ASSUME TypeOK, NEW g \in Ids
  PROVE  ReopenYtdlGroup(g) \in [Ids -> Row]
<1>1. rec[g] \in Row  BY DEF TypeOK
<1>2. [rec[g] EXCEPT !.state = "downloading", !.reason = "", !.finished = "absent"] \in Row
  BY <1>1 DEF Row
<1> QED  BY <1>2 DEF TypeOK, ReopenYtdlGroup

LEMMA NoRowType == NoRow \in Row /\ NoJob \in Job
BY YtdlAssumption DEF NoRow, Row, NoJob, Job

LEMMA DeleteYtdlDownloadType ==
  ASSUME TypeOK, NEW id
  PROVE  DeleteYtdlDownload(id) \in [Ids -> Row]
BY NoRowType DEF TypeOK, DeleteYtdlDownload

LEMMA CreateYtdlItemsType ==
  ASSUME TypeOK, NEW g \in Ids, NEW fresh \in SUBSET Videos, NEW n \in Nat,
         NextSeq + n <= MaxSeq + 1, NEW place \in [fresh -> 1..n]
  PROVE  CreateYtdlItems(g, place) \in [Ids -> Row]
<1>1. NextSeq \in 1..(MaxSeq + 1)  BY NextSeqIsAbove
<1>2. ASSUME NEW key \in fresh PROVE NewItem(g, key, NextSeq + place[key] - 1) \in Row
  <2>1. place[key] \in 1..n  OBVIOUS
  <2>2. NextSeq + place[key] - 1 \in 0..MaxSeq  BY <1>1, <2>1, YtdlAssumption
  <2>3. rec[g].user \in Users \cup {NoUser}  BY DEF TypeOK, Row
  <2>4. key \in Keys /\ g \in Ids \cup {0}  BY DEF Keys
  <2> QED  BY <2>2, <2>3, <2>4 DEF NewItem, Row
<1>4. \A id \in Ids : rec[id] \in Row  BY DEF TypeOK
<1>3. [rec[g] EXCEPT !.state = "downloading"] \in Row  BY <1>4 DEF Row
<1>5. DOMAIN place = fresh  OBVIOUS
<1>6. ASSUME NEW id \in Ids PROVE CreateYtdlItems(g, place)[id] \in Row
  <2> DEFINE K == CHOOSE key \in DOMAIN place : id = issued + place[key]
  <2>1. (\E key \in DOMAIN place : id = issued + place[key]) => K \in fresh  BY <1>5
  <2> HIDE DEF K
  <2>2. CreateYtdlItems(g, place)[id] =
          IF id = g /\ rec[g].state = "resolving" THEN [rec[g] EXCEPT !.state = "downloading"]
          ELSE IF \E key \in DOMAIN place : id = issued + place[key]
          THEN NewItem(g, K, NextSeq + place[K] - 1) ELSE rec[id]
    BY DEF CreateYtdlItems, K
  <2> QED  BY <1>2, <1>3, <1>4, <2>1, <2>2
<1> QED  BY <1>6 DEF CreateYtdlItems

-----------------------------------------------------------------------------
\* Failures, deletions and announcements keep their types.
LEMMA SmallTypes ==
  ASSUME TypeOK, NEW id \in Ids
  PROVE  /\ \A ok \in BOOLEAN : Try(ok) => faults' \in Nat
         /\ \A ok \in BOOLEAN : DeleteJob(id, ok) => job' \in [Ids -> Job]
         /\ \A j \in Job : [job EXCEPT ![id] = j] \in [Ids -> Job]
         /\ \A kind : \A state \in {"completed", "failed"} :
              Announce(id, kind, state) \in [Ids -> {"none", "completed", "failed"}]
<1>1. \A ok \in BOOLEAN : Try(ok) => faults' \in Nat  BY DEF TypeOK, Try
<1>2. \A j \in Job : [job EXCEPT ![id] = j] \in [Ids -> Job]  BY DEF TypeOK
<1>3. \A ok \in BOOLEAN : DeleteJob(id, ok) => job' \in [Ids -> Job]
  BY <1>2, NoRowType DEF TypeOK, DeleteJob
<1>4. \A kind : \A state \in {"completed", "failed"} :
        Announce(id, kind, state) \in [Ids -> {"none", "completed", "failed"}]
  BY DEF TypeOK, Announce
<1> QED  BY <1>1, <1>2, <1>3, <1>4

LEMMA Readings ==
  /\ \A j : StateOf(j) \in States /\ FailureReason(j) \in Reasons
  /\ \A id, row, heard : CaptureReason(id, row, heard) \in Reasons
<1>1. \A j : StateOf(j) \in States /\ FailureReason(j) \in Reasons
  BY DEF StateOf, FailureReason, States, Reasons
<1>2. \A j, own : own \in Reasons => FailureFromOutput(j, own) \in Reasons
  BY DEF FailureFromOutput, Reasons
<1>3. ASSUME NEW id, NEW row, NEW heard PROVE CaptureReason(id, row, heard) \in Reasons
  BY <1>1, <1>2 DEF CaptureReason, Reasons
<1> QED  BY <1>1, <1>3

LEMMA CaptureToldType ==
  ASSUME TypeOK, NEW id \in Ids, NEW row, NEW state, NEW reason
  PROVE  CaptureTold(id, row, state, reason) \in [Ids -> {"none", "completed", "failed"}]
BY SmallTypes DEF TypeOK, CaptureTold, Final

\* refreshGroups writes, and announces, only endings.
EndingHeld == pc = "groups" /\ held.id # 0 => Final(held.row.state)

\* A page that shows something shows a row.
PagesShow == \A p \in Pages : viewer[p] # NotViewing => viewer[p].id \in Ids

\* The type invariant is inductive once it knows what the cycle and the pages hold on to.
TInv == TypeOK /\ EndingHeld /\ PagesShow

LEMMA Blank ==
  /\ Nothing \in Held /\ Nothing.id = 0 /\ NotViewing \in View
  /\ [id \in Ids |-> NoJob] \in [Ids -> Job]
BY NoRowType DEF Nothing, Held, NotViewing, View

LEMMA TInit == Init => TInv
<1> SUFFICES ASSUME Init PROVE TInv  OBVIOUS
<1>1. issued \in 0..MaxRequests /\ faults \in Nat  BY YtdlAssumption DEF Init
<1> QED  BY <1>1, NoRowType, Blank DEF Init, TInv, TypeOK, EndingHeld, PagesShow

-----------------------------------------------------------------------------
\* A job that runs on, and a row whose owner or whose clock moves, keep their types.
LEMMA JobMoves ==
  ASSUME TypeOK, NEW id \in Ids, NEW phase \in {"running", "succeeded", "failed"},
         NEW why \in {""} \cup Causes
  PROVE  /\ [job EXCEPT ![id].phase = phase] \in [Ids -> Job]
         /\ [job EXCEPT ![id].phase = phase, ![id].why = why] \in [Ids -> Job]
<1> DEFINE j == job[id]
<1>1. job \in [Ids -> Job] /\ j \in Job  BY DEF TypeOK
<1>2. [job EXCEPT ![id].phase = phase] = [job EXCEPT ![id] = [j EXCEPT !.phase = phase]]
  BY <1>1
<1>3. [job EXCEPT ![id].phase = phase, ![id].why = why]
        = [job EXCEPT ![id] = [j EXCEPT !.phase = phase, !.why = why]]
  BY <1>1 DEF Job
<1> HIDE DEF j
<1>4. [j EXCEPT !.phase = phase] \in Job /\ [j EXCEPT !.phase = phase, !.why = why] \in Job
  BY <1>1 DEF Job
<1> QED  BY <1>1, <1>2, <1>3, <1>4

LEMMA RowMoves ==
  ASSUME TypeOK, NEW id \in Ids
  PROVE  /\ \A state \in States : [rec EXCEPT ![id].state = state] \in [Ids -> Row]
         /\ [rec EXCEPT ![id].finished = "past"] \in [Ids -> Row]
         /\ [rec[id] EXCEPT !.user = NoUser] \in Row
<1> DEFINE r == rec[id]
<1>1. rec \in [Ids -> Row] /\ r \in Row  BY DEF TypeOK
<1>2. \A state : [rec EXCEPT ![id].state = state] = [rec EXCEPT ![id] = [r EXCEPT !.state = state]]
  BY <1>1
<1>3. [rec EXCEPT ![id].finished = "past"] = [rec EXCEPT ![id] = [r EXCEPT !.finished = "past"]]
  BY <1>1
<1>4. [rec[id] EXCEPT !.user = NoUser] = [r EXCEPT !.user = NoUser]  OBVIOUS
<1> HIDE DEF r
<1>5. \A state \in States : [r EXCEPT !.state = state] \in Row  BY <1>1 DEF Row, States
<1>6. [r EXCEPT !.finished = "past"] \in Row /\ [r EXCEPT !.user = NoUser] \in Row
  BY <1>1 DEF Row
<1> QED  BY <1>1, <1>2, <1>3, <1>4, <1>5, <1>6, RowWritten

\* A phase's agenda is made of ids.
LEMMA AgendaType ==
  ASSUME TypeOK, NEW phase PROVE Agenda(phase) \subseteq Ids
<1> DEFINE admitted == Admit(QueuedCandidates, Limit - Cardinality(Running))
<1>a. admitted \subseteq QueuedCandidates  BY DEF Admit, Attributed
<1>b. \A c \in QueuedCandidates : c.id \in Ids  BY DEF QueuedCandidates
<1>1. {c.id : c \in admitted} \subseteq Ids
  <2> HIDE DEF admitted
  <2> QED  BY <1>a, <1>b
<1>2. Running \subseteq Ids /\ RetryDue \subseteq Ids /\ ActiveGroups \subseteq Ids
  BY DEF Running, RetryDue, ActiveGroups
<1> QED  BY <1>1, <1>2 DEF Agenda

-----------------------------------------------------------------------------
\* The reconciler's steps keep the types.
LEMMA TReconcile == TInv /\ Reconcile => TInv'
<1> SUFFICES ASSUME TInv, Reconcile PROVE TInv'  OBVIOUS
<1> USE DEF store, handlers, Take, EndingHeld, PagesShow
<1>t. TypeOK  BY DEF TInv
<1>h. held.id \in Ids \cup {0} /\ held.row \in Row  BY <1>t DEF TypeOK, Held
<1>l. \A id \in Ids : live[id] \in Job  BY <1>t DEF TypeOK
<1>c. /\ rec \in [Ids -> Row] /\ job \in [Ids -> Job]
      /\ told \in [Ids -> {"none", "completed", "failed"}]
  BY <1>t DEF TypeOK
<1>r. "generic" \in Reasons /\ "other" \in Reasons /\ "failed" \in States
  BY DEF Reasons, States
<1>1. ASSUME CycleBegin PROVE TInv'
  BY <1>t, <1>1 DEF CycleBegin, TInv, TypeOK
<1>2. ASSUME NEW read \in BOOLEAN, PhaseEnd(read) PROVE TInv'
  <2>1. todo' \subseteq Ids  BY <1>2, <1>t, AgendaType DEF PhaseEnd
  <2>2. faults' \in Nat  BY <1>2, <1>t DEF PhaseEnd, TypeOK, Try
  <2>3. pc' \in {"idle", "capture", "vanish", "expand", "retry", "groups", "sweep", "admit"}
    BY <1>2 DEF PhaseEnd, PhaseAfter
  <2>4. live' \in [Ids -> Job]  BY <1>2, <1>t, Blank DEF PhaseEnd, TypeOK
  <2>5. held' = Nothing  BY <1>2 DEF PhaseEnd
  <2> QED  BY <1>2, <1>t, <2>1, <2>2, <2>3, <2>4, <2>5, Blank DEF PhaseEnd, TInv, TypeOK
<1>3. ASSUME NEW id \in Ids, Skip(id) PROVE TInv'
  <2>1. faults' \in Nat  BY <1>3, <1>t, SmallTypes DEF Skip
  <2> QED  BY <1>3, <1>t, <2>1 DEF Skip, TInv, TypeOK
<1>4. ASSUME NEW id \in Ids, CaptureRead(id) PROVE TInv'
  <2>1. held' \in Held  BY <1>4, <1>t DEF CaptureRead, TypeOK, Held
  <2> QED  BY <1>4, <1>t, <2>1 DEF CaptureRead, TInv, TypeOK
<1>5. ASSUME NEW heard \in BOOLEAN, NEW recorded \in BOOLEAN, NEW deleted \in BOOLEAN,
             CaptureWrite(heard, recorded, deleted)
      PROVE  TInv'
  <2>1. held.id \in Ids  BY <1>5, <1>h DEF CaptureWrite
  <2>2. rec' \in [Ids -> Row]
    BY <1>5, <1>t, <2>1, CaptureTerminalType, Readings DEF CaptureWrite, TypeOK
  <2>3. told' \in [Ids -> {"none", "completed", "failed"}]
    BY <1>5, <1>t, <2>1, CaptureToldType DEF CaptureWrite, TypeOK
  <2>4. job' \in [Ids -> Job]
    BY <1>5, <1>t, <2>1, SmallTypes DEF CaptureWrite, TypeOK
  <2>5. faults' \in Nat  BY <1>5, <1>t, <2>1, SmallTypes DEF CaptureWrite
  <2>6. held' = Nothing  BY <1>5 DEF CaptureWrite
  <2> QED  BY <1>5, <1>t, <2>2, <2>3, <2>4, <2>5, <2>6, Blank DEF CaptureWrite, TInv, TypeOK
<1>6. ASSUME NEW id \in Ids, NEW recorded \in BOOLEAN, VanishStep(id, recorded) PROVE TInv'
  <2>s. SetYtdlState(id, "failed", "generic", TRUE) \in [Ids -> Row]
    BY <1>t, <1>r, SetYtdlStateType
  <2>w. rec' = rec \/ rec' = SetYtdlState(id, "failed", "generic", TRUE)
    BY <1>6 DEF VanishStep
  <2>1. rec' \in [Ids -> Row]  BY <1>c, <2>s, <2>w
  <2>2. faults' \in Nat  BY <1>6, <1>t, SmallTypes DEF VanishStep, TypeOK
  <2>3. missing' \subseteq Ids  BY <1>6, <1>t DEF VanishStep, TypeOK
  <2>4. UNCHANGED <<issued, accounts, job, pc, live, held, handlers, saved, told>>
    BY <1>6 DEF VanishStep
  <2>5. todo' \subseteq Ids  BY <1>6, <1>t DEF VanishStep, TypeOK
  <2> QED  BY <1>t, <2>1, <2>2, <2>3, <2>4, <2>5 DEF TInv, TypeOK
<1>7. ASSUME NEW g \in Ids, NEW created \in BOOLEAN, ExpandStart(g, created) PROVE TInv'
  <2>s. SetYtdlState(g, "failed", "other", TRUE) \in [Ids -> Row]
    BY <1>t, <1>r, SetYtdlStateType
  <2>w. rec' = rec \/ rec' = SetYtdlState(g, "failed", "other", TRUE)
    BY <1>7 DEF ExpandStart
  <2>1. rec' \in [Ids -> Row]  BY <1>c, <2>s, <2>w
  <2>2. faults' \in Nat  BY <1>7, <1>t, SmallTypes DEF ExpandStart
  <2>3. [kind |-> "expand", phase |-> "pending", key |-> NoKey, why |-> ""] \in Job  BY DEF Job
  <2>4. job' \in [Ids -> Job]  BY <1>7, <1>t, <2>3, SmallTypes DEF ExpandStart, TypeOK
  <2> QED  BY <1>7, <1>t, <2>1, <2>2, <2>4 DEF ExpandStart, TInv, TypeOK
<1>8. ASSUME NEW g \in Ids, NEW deleted \in BOOLEAN, ExpandFailed(g, deleted) PROVE TInv'
  <2>1. rec' \in [Ids -> Row]
    BY <1>8, <1>t, <1>r, SetYtdlStateType DEF ExpandFailed, TypeOK
  <2>2. faults' \in Nat /\ job' \in [Ids -> Job]  BY <1>8, <1>t, SmallTypes DEF ExpandFailed
  <2> QED  BY <1>8, <1>t, <2>1, <2>2 DEF ExpandFailed, TInv, TypeOK
<1>9. ASSUME NEW g \in Ids, ExpandPending(g) PROVE TInv'
  BY <1>9, <1>t DEF ExpandPending, TInv, TypeOK
<1>10. ASSUME NEW g \in Ids, ExpandUnreadable(g) PROVE TInv'
  <2>1. rec' \in [Ids -> Row]
    BY <1>10, <1>t, <1>r, SetYtdlStateType DEF ExpandUnreadable, TypeOK
  <2>2. faults' \in Nat  BY <1>10, <1>t DEF ExpandUnreadable, Try, TypeOK
  <2> QED  BY <1>10, <1>t, <2>1, <2>2 DEF ExpandUnreadable, TInv, TypeOK
<1>11. ASSUME NEW g \in Ids, NEW entries \in SUBSET Videos, NEW known \in BOOLEAN,
              NEW deleted \in BOOLEAN, ExpandInto(g, entries, known, deleted)
       PROVE  TInv'
  <2> DEFINE fresh == {key \in entries : known => ~AlreadyHeld(key)}
             n     == Cardinality(fresh)
  <2>1. fresh \in SUBSET Videos  OBVIOUS
  <2>2. n \in Nat  BY <2>1, FS_Subset, FS_CardinalityType, YtdlAssumption
  <2>3. issued' \in 0..MaxRequests
    <3>1. issued + n <= MaxRequests /\ (issued' = issued + n \/ issued' = issued)
      BY <1>11 DEF ExpandInto
    <3>2. issued \in 0..MaxRequests  BY <1>t DEF TypeOK
    <3> HIDE DEF n
    <3> QED  BY <3>1, <3>2, <2>2, YtdlAssumption
  <2>4. faults' \in Nat  BY <1>11, <1>t DEF ExpandInto, Try, TypeOK
  <2>5. job' \in [Ids -> Job]  BY <1>11, <1>t, SmallTypes DEF ExpandInto, TypeOK
  <2>6. rec' \in [Ids -> Row]
    <3>1. CASE UNCHANGED rec  BY <3>1, <1>t DEF TypeOK
    <3>2. CASE \E place \in [fresh -> 1..n] : rec' = CreateYtdlItems(g, place)
      <4>1. NextSeq + n <= MaxSeq + 1  BY <1>11 DEF ExpandInto
      <4> HIDE DEF fresh, n
      <4> QED  BY <3>2, <4>1, <1>t, <2>1, <2>2, CreateYtdlItemsType
    <3> QED  BY <1>11, <3>1, <3>2 DEF ExpandInto
  <2>7. todo' \subseteq Ids /\ UNCHANGED <<accounts, pc, live, held, missing, handlers, saved, told>>
    BY <1>11, <1>t DEF ExpandInto, TypeOK
  <2> QED  BY <1>t, <2>3, <2>4, <2>5, <2>6, <2>7 DEF TInv, TypeOK
<1>12. ASSUME NEW id \in Ids, RetryStep(id) PROVE TInv'
  <2>1. rec' \in [Ids -> Row]  BY <1>12, <1>t, RequeueYtdlType DEF RetryStep
  <2> QED  BY <1>12, <1>t, <2>1 DEF RetryStep, TInv, TypeOK
<1>13. ASSUME NEW g \in Ids, GroupCount(g) PROVE TInv'
  <2>1. rec' \in [Ids -> Row]  BY <1>13, <1>t, ReopenYtdlGroupType DEF GroupCount, TypeOK
  <2>2. GroupVerdict(g) \in Row /\ Final(GroupVerdict(g).state)
    <3> DEFINE r == rec[g]
    <3>1. r \in Row  BY <1>t DEF TypeOK
    <3>2. GroupVerdict(g) \in {[r EXCEPT !.state = "failed", !.reason = "other"],
                               [r EXCEPT !.state = "completed", !.reason = ""]}
      BY DEF GroupVerdict
    <3> HIDE DEF r
    <3> QED  BY <3>1, <3>2 DEF Row, Final
  <2>3. held' \in Held /\ (held'.id # 0 => Final(held'.row.state))
    BY <1>13, <1>t, <2>2 DEF GroupCount, TypeOK, TInv, Held
  <2> QED  BY <1>13, <1>t, <2>1, <2>3 DEF GroupCount, TInv, TypeOK
<1>14. ASSUME NEW recorded \in BOOLEAN, GroupWrite(recorded) PROVE TInv'
  <2>1. held.id \in Ids /\ Final(held.row.state)  BY <1>14, <1>h DEF GroupWrite, TInv
  <2>2. held.row.state \in States /\ held.row.reason \in Reasons
    BY <1>h DEF Row, States, Reasons
  <2>s. /\ SetYtdlState(held.id, held.row.state, held.row.reason, TRUE) \in [Ids -> Row]
        /\ ReopenYtdlGroup(held.id) \in [Ids -> Row]
    BY <1>t, <2>1, <2>2, SetYtdlStateType, ReopenYtdlGroupType
  <2>w. \/ rec' = rec \/ rec' = ReopenYtdlGroup(held.id)
        \/ rec' = SetYtdlState(held.id, held.row.state, held.row.reason, TRUE)
    BY <1>14 DEF GroupWrite
  <2>3. rec' \in [Ids -> Row]  BY <1>c, <2>s, <2>w
  <2>a. Announce(held.id, "group", held.row.state) \in [Ids -> {"none", "completed", "failed"}]
    BY <1>t, <2>1, SmallTypes DEF Final
  <2>b. told' = told \/ told' = Announce(held.id, "group", held.row.state)
    BY <1>14 DEF GroupWrite
  <2>4. told' \in [Ids -> {"none", "completed", "failed"}]  BY <1>c, <2>a, <2>b
  <2>5. faults' \in Nat  BY <1>14, <1>t, <2>1, SmallTypes DEF GroupWrite
  <2>6. held' = Nothing  BY <1>14 DEF GroupWrite
  <2> QED  BY <1>14, <1>t, <2>3, <2>4, <2>5, <2>6, Blank DEF GroupWrite, TInv, TypeOK
<1>15. ASSUME NEW id \in Ids, NEW deleted \in BOOLEAN, SweepStep(id, deleted) PROVE TInv'
  <2>1. faults' \in Nat  BY <1>15, <1>t, SmallTypes DEF SweepStep
  <2>2. job' \in [Ids -> Job]  BY <1>15, <1>t, NoRowType DEF SweepStep, DeleteJob, TypeOK
  <2> QED  BY <1>15, <1>t, <2>1, <2>2 DEF SweepStep, TInv, TypeOK
<1>16. ASSUME NEW id \in Ids, AdmitClaim(id) PROVE TInv'
  <2>1. rec' \in [Ids -> Row]
    BY <1>16, <1>t, RowMoves DEF AdmitClaim, MarkYtdlAdmitted, TypeOK, States
  <2>2. held' \in Held  BY <1>16, <1>t DEF AdmitClaim, TypeOK, Held
  <2> QED  BY <1>16, <1>t, <2>1, <2>2 DEF AdmitClaim, TInv, TypeOK
<1>17. ASSUME NEW created \in BOOLEAN, AdmitCreate(created) PROVE TInv'
  <2>1. held.id \in Ids  BY <1>17, <1>h DEF AdmitCreate
  <2>s. SetYtdlState(held.id, "failed", "other", TRUE) \in [Ids -> Row]
    BY <1>t, <1>r, <2>1, SetYtdlStateType
  <2>w. rec' = rec \/ rec' = SetYtdlState(held.id, "failed", "other", TRUE)
    BY <1>17 DEF AdmitCreate
  <2>2. rec' \in [Ids -> Row]  BY <1>c, <2>s, <2>w
  <2>3. [kind |-> "download", phase |-> "pending", key |-> held.row.key, why |-> ""] \in Job
    BY <1>h DEF Row, Job
  <2> DEFINE j == [kind |-> "download", phase |-> "pending", key |-> held.row.key, why |-> ""]
  <2>j. job' = job \/ job' = [job EXCEPT ![held.id] = j]  BY <1>17 DEF AdmitCreate
  <2>4. job' \in [Ids -> Job]
    <3> HIDE DEF j
    <3>1. j \in Job  BY <2>3 DEF j
    <3>2. [job EXCEPT ![held.id] = j] \in [Ids -> Job]  BY <1>t, <2>1, <3>1, SmallTypes
    <3> QED  BY <1>c, <2>j, <3>2
  <2>5. faults' \in Nat  BY <1>17, <1>t, <2>1, SmallTypes DEF AdmitCreate
  <2>6. held' = Nothing  BY <1>17 DEF AdmitCreate
  <2> QED  BY <1>17, <1>t, <2>2, <2>4, <2>5, <2>6, Blank DEF AdmitCreate, TInv, TypeOK
<1> QED
  BY <1>1, <1>2, <1>3, <1>4, <1>5, <1>6, <1>7, <1>8, <1>9, <1>10, <1>11, <1>12, <1>13, <1>14,
     <1>15, <1>16, <1>17 DEF Reconcile

\* The handlers' steps keep the types.
LEMMA THandlers == TInv /\ (Serve \/ Request) => TInv'
<1> SUFFICES ASSUME TInv, Serve \/ Request PROVE TInv'  OBVIOUS
<1> USE DEF store, reconciler, handlers, EndingHeld, PagesShow
<1>t. TypeOK  BY DEF TInv
<1>c. /\ rec \in [Ids -> Row] /\ job \in [Ids -> Job] /\ viewer \in [Pages -> View]
      /\ submits \in [Users -> Keys \cup {NoKey}]
      /\ told \in [Ids -> {"none", "completed", "failed"}]
  BY <1>t DEF TypeOK
<1>s. \A p \in Pages : viewer[p] # NotViewing => viewer[p].id \in Ids  BY DEF TInv
<1>1. ASSUME NEW u \in Users, NEW key \in Links, NEW read \in BOOLEAN, SubmitCheck(u, key, read)
      PROVE  TInv'
  <2>1. key \in Keys  BY YtdlAssumption DEF Keys
  <2>2. faults' \in Nat  BY <1>1, <1>t DEF SubmitCheck, Try, TypeOK
  <2>3. submits' \in [Users -> Keys \cup {NoKey}]  BY <1>1, <1>c, <2>1 DEF SubmitCheck
  <2> QED  BY <1>1, <1>t, <2>2, <2>3 DEF SubmitCheck, TInv, TypeOK
<1>2. ASSUME NEW u \in Users, SubmitRecord(u) PROVE TInv'
  <2> DEFINE key == submits[u]
             n   == NextSeq
             row == [kind |-> IF key \in Lists THEN "group" ELSE "single", user |-> u,
                     key |-> key, parent |-> 0,
                     state |-> IF key \in Lists THEN "resolving" ELSE "queued",
                     reason |-> "", attempts |-> 1, seq |-> n, finished |-> "absent"]
  <2>1. key \in Keys \cup {NoKey}  BY <1>c
  <2>2. n \in Nat  BY <1>t, NextSeqIsAbove, YtdlAssumption
  <2>3. issued \in 0..MaxRequests  BY <1>t DEF TypeOK
  <2>4. \/ UNCHANGED <<rec, issued>>
        \/ /\ issued < MaxRequests /\ n <= MaxSeq
           /\ issued' = issued + 1 /\ rec' = [rec EXCEPT ![issued + 1] = row]
    BY <1>2 DEF SubmitRecord
  <2>5. submits' \in [Users -> Keys \cup {NoKey}]  BY <1>2, <1>c DEF SubmitRecord
  <2>6. n <= MaxSeq => row \in Row
    <3> HIDE DEF key, n
    <3> QED  BY <2>1, <2>2, YtdlAssumption DEF Row
  <2>7. issued' \in 0..MaxRequests /\ rec' \in [Ids -> Row]
    <3> HIDE DEF row, n
    <3>1. CASE UNCHANGED <<rec, issued>>  BY <3>1, <1>c, <2>3
    <3>2. CASE /\ issued < MaxRequests /\ n <= MaxSeq
               /\ issued' = issued + 1 /\ rec' = [rec EXCEPT ![issued + 1] = row]
      <4>1. issued + 1 \in Ids  BY <2>3, <3>2, YtdlAssumption DEF Ids
      <4>2. [rec EXCEPT ![issued + 1] = row] \in [Ids -> Row]
        BY <1>t, <2>6, <3>2, <4>1, RowWritten
      <4>3. issued + 1 \in 0..MaxRequests  BY <4>1, YtdlAssumption DEF Ids
      <4> QED  BY <3>2, <4>2, <4>3
    <3> QED  BY <2>4, <3>1, <3>2
  <2>8. UNCHANGED <<accounts, job, pc, live, todo, held, missing, viewer, retries, faults, saved, told>>
    BY <1>2 DEF SubmitRecord
  <2> QED  BY <1>t, <2>5, <2>7, <2>8 DEF TInv, TypeOK
<1>3. ASSUME NEW p \in Pages, NEW id \in Ids, ViewRead(p, id) PROVE TInv'
  <2> DEFINE r == rec[id]
             v == [id |-> id, row |-> r, job |-> NoJob]
  <2>1. r \in Row  BY <1>c
  <2>2. v \in View
    <3> HIDE DEF r
    <3> QED  BY <2>1, NoRowType DEF View
  <2>3. viewer' = [viewer EXCEPT ![p] = v]  BY <1>3 DEF ViewRead
  <2>4. viewer' \in [Pages -> View]
    <3> HIDE DEF v
    <3> QED  BY <1>c, <2>2, <2>3
  <2> QED  BY <1>3, <1>t, <2>4 DEF ViewRead, TInv, TypeOK
<1>4. ASSUME NEW p \in Pages, ViewJobs(p) PROVE TInv'
  <2> DEFINE v == viewer[p]
             j == job[v.id]
             w == [v EXCEPT !.job = j]
  <2>1. v \in View  BY <1>c
  <2>2. viewer' = [viewer EXCEPT ![p] = w] \/ viewer' = [viewer EXCEPT ![p] = NotViewing]
    BY <1>4, <1>c DEF ViewJobs
  <2>3. v.id \in Ids  BY <1>4, <1>s DEF ViewJobs
  <2>4. j \in Job  BY <1>c, <2>3
  <2>5. w \in View /\ w.id = v.id
    <3> HIDE DEF v, j
    <3> QED  BY <2>1, <2>4 DEF View
  <2>6. viewer' \in [Pages -> View] /\ \A q \in Pages : viewer'[q] # NotViewing => viewer'[q].id \in Ids
    <3> HIDE DEF w, v
    <3> QED  BY <1>c, <1>s, <2>2, <2>3, <2>5, Blank
  <2> QED  BY <1>4, <1>t, <2>6 DEF ViewJobs, TInv, TypeOK
<1>5. ASSUME NEW p \in Pages, NEW recorded \in BOOLEAN, ViewCapture(p, recorded) PROVE TInv'
  <2> DEFINE v      == viewer[p]
             state  == StateOf(v.job)
             reason == IF state = "failed" THEN FailureReason(v.job) ELSE ""
  <2>1. v \in View  BY <1>c
  <2>2. state \in States /\ reason \in Reasons  BY Readings DEF Reasons
  <2>3. v.id \in Ids
    <3>1. v.job # NoJob  BY <1>5 DEF ViewCapture
    <3>2. NotViewing.job = NoJob  BY DEF NotViewing
    <3>3. viewer[p] # NotViewing  BY <3>1, <3>2
    <3> QED  BY <1>s, <3>3
  <2>4. \/ UNCHANGED <<rec, told>>
        \/ /\ rec' = CaptureTerminal(v.id, v.row, state, reason)
           /\ told' = CaptureTold(v.id, v.row, state, reason)
    BY <1>5 DEF ViewCapture
  <2>5. faults' \in Nat  BY <1>5, <1>t, <2>3, SmallTypes DEF ViewCapture
  <2>6. viewer' \in [Pages -> View]  BY <1>5, <1>c, Blank DEF ViewCapture
  <2>7. rec' \in [Ids -> Row] /\ told' \in [Ids -> {"none", "completed", "failed"}]
    <3> HIDE DEF v, state, reason
    <3>1. /\ CaptureTerminal(v.id, v.row, state, reason) \in [Ids -> Row]
          /\ CaptureTold(v.id, v.row, state, reason) \in [Ids -> {"none", "completed", "failed"}]
      BY <1>t, <2>2, <2>3, CaptureTerminalType, CaptureToldType
    <3> QED  BY <1>c, <2>4, <3>1
  <2> QED  BY <1>5, <1>t, <2>5, <2>6, <2>7 DEF ViewCapture, TInv, TypeOK
<1>6. ASSUME NEW id \in Ids, Retry(id) PROVE TInv'
  <2>1. rec' \in [Ids -> Row]  BY <1>6, <1>t, RequeueYtdlType DEF Retry
  <2>2. told' \in [Ids -> {"none", "completed", "failed"}]  BY <1>6, <1>c DEF Retry
  <2> QED  BY <1>6, <1>t, <2>1, <2>2 DEF Retry, TInv, TypeOK
<1>7. ASSUME NEW id \in Ids, NEW deleted \in BOOLEAN, RetryDelete(id, deleted) PROVE TInv'
  <2>1. faults' \in Nat /\ job' \in [Ids -> Job]  BY <1>7, <1>t, SmallTypes DEF RetryDelete
  <2> QED  BY <1>7, <1>t, <2>1 DEF RetryDelete, TInv, TypeOK
<1>8. ASSUME NEW id \in Ids, NEW deleted \in BOOLEAN, Dismiss(id, deleted) PROVE TInv'
  <2>1. faults' \in Nat  BY <1>8, <1>t, SmallTypes DEF Dismiss
  <2>2. job' \in [Ids -> Job]  BY <1>8, <1>c, NoRowType DEF Dismiss, DeleteJob
  <2>3. rec' \in [Ids -> Row]  BY <1>8, <1>t, DeleteYtdlDownloadType DEF Dismiss
  <2> QED  BY <1>8, <1>t, <2>1, <2>2, <2>3 DEF Dismiss, TInv, TypeOK
<1>9. ASSUME NEW u \in Users, DeleteAccount(u) PROVE TInv'
  <2>1. \A id \in Ids : [rec[id] EXCEPT !.user = NoUser] \in Row  BY <1>t, RowMoves
  <2>2. rec' \in [Ids -> Row]  BY <1>9, <1>c, <2>1 DEF DeleteAccount
  <2> QED  BY <1>9, <1>t, <2>2 DEF DeleteAccount, TInv, TypeOK
<1> QED
  BY <1>1, <1>2, <1>3, <1>4, <1>5, <1>6, <1>7, <1>8, <1>9 DEF Serve, Request

\* The cluster's steps, time and a restart keep the types.
LEMMA TCluster == TInv /\ Cluster => TInv'
<1> SUFFICES ASSUME TInv, Cluster PROVE TInv'  OBVIOUS
<1> USE DEF store, reconciler, handlers, EndingHeld, PagesShow
<1>t. TypeOK  BY DEF TInv
<1>1. ASSUME NEW id \in Ids, JobStart(id) PROVE TInv'
  <2>1. job' \in [Ids -> Job]  BY <1>1, <1>t, JobMoves DEF JobStart
  <2> QED  BY <1>1, <1>t, <2>1 DEF JobStart, TInv, TypeOK
<1>2. ASSUME NEW id \in Ids, JobSucceed(id) PROVE TInv'
  <2>1. job' \in [Ids -> Job]  BY <1>2, <1>t, JobMoves DEF JobSucceed
  <2>2. saved' \subseteq Ids  BY <1>2, <1>t DEF JobSucceed, TypeOK
  <2> QED  BY <1>2, <1>t, <2>1, <2>2 DEF JobSucceed, TInv, TypeOK
<1>3. ASSUME NEW id \in Ids, NEW why \in Causes, JobFail(id, why) PROVE TInv'
  <2>1. job' \in [Ids -> Job]  BY <1>3, <1>t, JobMoves DEF JobFail
  <2> QED  BY <1>3, <1>t, <2>1 DEF JobFail, TInv, TypeOK
<1>4. ASSUME NEW id \in Ids, JobGone(id) PROVE TInv'
  <2>1. faults' \in Nat  BY <1>4, <1>t, SmallTypes DEF JobGone
  <2>2. job' \in [Ids -> Job]  BY <1>4, <1>t, NoRowType, SmallTypes DEF JobGone
  <2> QED  BY <1>4, <1>t, <2>1, <2>2 DEF JobGone, TInv, TypeOK
<1>5. ASSUME NEW id \in Ids, CoolDown(id) PROVE TInv'
  <2>1. rec' \in [Ids -> Row]  BY <1>5, <1>t, RowMoves DEF CoolDown
  <2> QED  BY <1>5, <1>t, <2>1 DEF CoolDown, TInv, TypeOK
<1>6. ASSUME Restart PROVE TInv'
  <2>1. faults' \in Nat  BY <1>6, <1>t DEF Restart, Try, TypeOK
  <2>2. submits' \in [Users -> Keys \cup {NoKey}] /\ viewer' \in [Pages -> View]
    BY <1>6, Blank DEF Restart
  <2> QED  BY <1>6, <1>t, <2>1, <2>2, Blank DEF Restart, TInv, TypeOK
<1> QED  BY <1>1, <1>2, <1>3, <1>4, <1>5, <1>6 DEF Cluster, JobEnd

LEMMA TStep == TInv /\ [Next]_vars => TInv'
<1> SUFFICES ASSUME TInv, [Next]_vars PROVE TInv'  OBVIOUS
<1>1. CASE Next  BY <1>1, TReconcile, THandlers, TCluster DEF Next
<1>2. CASE UNCHANGED vars
  BY <1>2 DEF vars, store, reconciler, handlers, TInv, TypeOK, EndingHeld, PagesShow
<1> QED  BY <1>1, <1>2

(***************************************************************************)
(* Every row, job, page and request in flight keeps its type in every      *)
(* behaviour: no handler, phase of the cycle, failed call or restart ever  *)
(* writes a state, reason or sequence number outside the columns of        *)
(* ytdl_downloads.                                                         *)
(***************************************************************************)
THEOREM TypeCorrect == Spec => []TypeOK
<1>1. TInv => TypeOK  BY DEF TInv
<1> QED  BY <1>1, TInit, TStep, PTL DEF Spec

-----------------------------------------------------------------------------
\* What no statement on an existing row changes, apart from the number a retry takes.
Kept(r, s) == s.kind = r.kind /\ s.parent = r.parent /\ s.seq = r.seq

\* What may become of a row when none joins the line: nothing, or an ending; and a group's
\* ending may be taken back.
Left(id) ==
  \/ rec'[id] = rec[id]
  \/ /\ Exists(id) /\ Kept(rec[id], rec'[id])
     /\ \/ rec'[id].state = rec[id].state
        \/ Final(rec'[id].state)
        \/ rec[id].kind = "group" /\ rec'[id].state = "downloading"

\* What may become of a row when some join the line: nothing, birth, a retry, or expansion.
Expanded(id) ==
  /\ Exists(id) /\ rec[id].state = "resolving"
  /\ Kept(rec[id], rec'[id]) /\ rec'[id].state = "downloading"

Born(id) ==
  /\ issued < id /\ id <= issued'
  /\ \/ rec'[id].kind = "group" /\ rec'[id].state = "resolving"
     \/ rec'[id].kind = "single" /\ rec'[id].state = "queued"
     \/ /\ rec'[id].kind = "item" /\ rec'[id].state = "queued"
        /\ pc = "expand" /\ rec'[id].parent \in Ids /\ Expanded(rec'[id].parent)

Again(id) ==
  /\ Exists(id) /\ rec[id].kind # "group" /\ rec[id].state = "failed"
  /\ rec'[id].kind = rec[id].kind /\ rec'[id].parent = rec[id].parent
  /\ rec'[id].state = "queued"

Joined(id) == rec'[id] = rec[id] \/ Born(id) \/ Again(id) \/ Expanded(id)

Leaves    == issued' = issued /\ \A id \in Ids : Left(id)
Joins     == issued' \in issued..MaxRequests /\ (\A id \in Ids : Joined(id)) /\ QueueSeqUnique'
Claims    == \E id \in Ids : AdmitClaim(id)
Dismisses == issued' = issued /\ \E id \in Ids : rec' = DeleteYtdlDownload(id)

-----------------------------------------------------------------------------
\* One statement on the store, as each row sees it.
LEMMA StateWritten ==
  ASSUME TypeOK, NEW id \in Ids, NEW state, NEW reason, NEW stamp, NEW i \in Ids
  PROVE  \/ SetYtdlState(id, state, reason, stamp)[i] = rec[i]
         \/ /\ i = id /\ Exists(i)
            /\ Kept(rec[i], SetYtdlState(id, state, reason, stamp)[i])
            /\ SetYtdlState(id, state, reason, stamp)[i].state = state
<1> DEFINE r == rec[id]
           at == IF stamp THEN "recent" ELSE r.finished
           s == [r EXCEPT !.state = state, !.reason = reason, !.finished = at]
<1>1. rec \in [Ids -> Row] /\ r \in Row  BY DEF TypeOK
<1>2. SetYtdlState(id, state, reason, stamp) = IF ~Exists(id) THEN rec ELSE [rec EXCEPT ![id] = s]
  BY DEF SetYtdlState, Written
<1>3. Kept(r, s) /\ s.state = state
  <2> HIDE DEF r, at
  <2> QED  BY <1>1 DEF Row, Kept
<1> HIDE DEF s
<1> QED  BY <1>1, <1>2, <1>3

LEMMA OthersStay ==
  ASSUME TypeOK, NEW id \in Ids, NEW state, NEW reason, NEW stamp,
         rec' = rec \/ rec' = SetYtdlState(id, state, reason, stamp),
         NEW i \in Ids, i # id
  PROVE  rec'[i] = rec[i]
BY StateWritten

LEMMA CaptureWritten ==
  ASSUME TypeOK, NEW id \in Ids, NEW row, NEW state, NEW reason, NEW i \in Ids
  PROVE  \/ CaptureTerminal(id, row, state, reason)[i] = rec[i]
         \/ /\ i = id /\ Exists(i) /\ Final(state)
            /\ Kept(rec[i], CaptureTerminal(id, row, state, reason)[i])
            /\ CaptureTerminal(id, row, state, reason)[i].state = state
<1> DEFINE c == CaptureTerminal(id, row, state, reason)
<1>1. c = rec \/ (Final(state) /\ \E stamp \in BOOLEAN : c = SetYtdlState(id, state, reason, stamp))
  BY DEF CaptureTerminal
<1> HIDE DEF c
<1>2. \/ c[i] = rec[i]
      \/ i = id /\ Exists(i) /\ Final(state) /\ Kept(rec[i], c[i]) /\ c[i].state = state
  BY <1>1, StateWritten
<1> QED  BY <1>2 DEF c

LEMMA RequeueWritten ==
  ASSUME TypeOK, NEW id \in Ids, NEW i \in Ids
  PROVE  \/ RequeueYtdl(id)[i] = rec[i]
         \/ /\ i = id /\ rec[i].state = "failed"
            /\ RequeueYtdl(id)[i].kind = rec[i].kind
            /\ RequeueYtdl(id)[i].parent = rec[i].parent
            /\ RequeueYtdl(id)[i].state = "queued"
            /\ RequeueYtdl(id)[i].seq = NextSeq
<1> DEFINE r == rec[id]
           n == r.attempts + 1
           q == NextSeq
           s == [r EXCEPT !.state = "queued", !.reason = "", !.finished = "absent",
                          !.attempts = n, !.seq = q]
<1>1. rec \in [Ids -> Row] /\ r \in Row  BY DEF TypeOK
<1>2. RequeueYtdl(id) = IF r.state # "failed" THEN rec ELSE [rec EXCEPT ![id] = s]
  BY DEF RequeueYtdl, Requeued
<1>3. s.kind = r.kind /\ s.parent = r.parent /\ s.state = "queued" /\ s.seq = q
  <2> HIDE DEF r, n, q
  <2> QED  BY <1>1 DEF Row
<1> HIDE DEF s
<1> QED  BY <1>1, <1>2, <1>3

LEMMA ReopenWritten ==
  ASSUME TypeOK, NEW g \in Ids, NEW i \in Ids
  PROVE  \/ ReopenYtdlGroup(g)[i] = rec[i]
         \/ /\ i = g /\ Kept(rec[i], ReopenYtdlGroup(g)[i])
            /\ ReopenYtdlGroup(g)[i].state = "downloading"
<1> DEFINE r == rec[g]
           s == [r EXCEPT !.state = "downloading", !.reason = "", !.finished = "absent"]
<1>1. rec \in [Ids -> Row] /\ r \in Row  BY DEF TypeOK
<1>2. ReopenYtdlGroup(g) = [rec EXCEPT ![g] = s]  BY DEF ReopenYtdlGroup
<1>3. Kept(r, s) /\ s.state = "downloading"
  <2> HIDE DEF r
  <2> QED  BY <1>1 DEF Row, Kept
<1> HIDE DEF s
<1> QED  BY <1>1, <1>2, <1>3

LEMMA ClaimWritten ==
  ASSUME TypeOK, NEW id \in Ids, NEW i \in Ids
  PROVE  \/ MarkYtdlAdmitted(id)[i] = rec[i]
         \/ /\ i = id /\ rec[i].state = "queued" /\ Kept(rec[i], MarkYtdlAdmitted(id)[i])
            /\ MarkYtdlAdmitted(id)[i].state = "scheduled"
<1> DEFINE r == rec[id]
           s == [r EXCEPT !.state = "scheduled"]
<1>1. rec \in [Ids -> Row] /\ r \in Row  BY DEF TypeOK
<1>2. MarkYtdlAdmitted(id) = IF r.state = "queued" THEN [rec EXCEPT ![id] = s] ELSE rec
  BY <1>1 DEF MarkYtdlAdmitted
<1>3. Kept(r, s) /\ s.state = "scheduled"
  <2> HIDE DEF r
  <2> QED  BY <1>1 DEF Row, Kept
<1> HIDE DEF s
<1> QED  BY <1>1, <1>2, <1>3

LEMMA ItemsWritten ==
  ASSUME TypeOK, NEW g \in Ids, NEW fresh, NEW n \in Nat,
         NEW place \in [fresh -> 1..n], NEW i \in Ids
  PROVE  \/ CreateYtdlItems(g, place)[i] = rec[i]
         \/ /\ i = g /\ rec[i].state = "resolving"
            /\ Kept(rec[i], CreateYtdlItems(g, place)[i])
            /\ CreateYtdlItems(g, place)[i].state = "downloading"
         \/ (i = g => rec[i].state # "resolving") /\ \E key \in fresh :
              /\ i = issued + place[key]
              /\ CreateYtdlItems(g, place)[i] = NewItem(g, key, NextSeq + place[key] - 1)
<1> DEFINE r == rec[g]
           s == [r EXCEPT !.state = "downloading"]
           K == CHOOSE key \in DOMAIN place : i = issued + place[key]
<1>1. rec \in [Ids -> Row] /\ r \in Row  BY DEF TypeOK
<1>2. CreateYtdlItems(g, place)[i] =
        IF i = g /\ r.state = "resolving" THEN s
        ELSE IF \E key \in DOMAIN place : i = issued + place[key]
        THEN NewItem(g, K, NextSeq + place[K] - 1) ELSE rec[i]
  BY DEF CreateYtdlItems
<1>3. Kept(r, s) /\ s.state = "downloading"
  <2> HIDE DEF r
  <2> QED  BY <1>1 DEF Row, Kept
<1>4. (\E key \in DOMAIN place : i = issued + place[key]) => K \in fresh /\ i = issued + place[K]
  OBVIOUS
<1> HIDE DEF s, K
<1> QED  BY <1>2, <1>3, <1>4

\* CreateYtdlItems leaves alone every row but the group's and the ones it numbers.
LEMMA OtherRowsStay ==
  ASSUME NEW h \in Ids, NEW fresh, NEW n \in Nat, NEW place \in [fresh -> 1..n],
         rec' = CreateYtdlItems(h, place),
         NEW i \in Ids, i # h, \A key \in fresh : i # issued + place[key]
  PROVE  rec'[i] = rec[i]
<1>1. DOMAIN place = fresh  OBVIOUS
<1>2. ~\E key \in DOMAIN place : i = issued + place[key]  BY <1>1
<1> QED  BY <1>2 DEF CreateYtdlItems

LEMMA AgedWritten ==
  ASSUME TypeOK, NEW i \in Ids
  PROVE  /\ Kept(rec[i], [rec[i] EXCEPT !.user = NoUser])
         /\ [rec[i] EXCEPT !.user = NoUser].state = rec[i].state
         /\ Kept(rec[i], [rec EXCEPT ![i].finished = "past"][i])
         /\ [rec EXCEPT ![i].finished = "past"][i].state = rec[i].state
<1> DEFINE r == rec[i]
<1>1. rec \in [Ids -> Row] /\ r \in Row  BY DEF TypeOK
<1>2. [rec EXCEPT ![i].finished = "past"][i] = [r EXCEPT !.finished = "past"]  BY <1>1
<1>3. [rec[i] EXCEPT !.user = NoUser] = [r EXCEPT !.user = NoUser]  OBVIOUS
<1> HIDE DEF r
<1>4. /\ Kept(r, [r EXCEPT !.user = NoUser]) /\ [r EXCEPT !.user = NoUser].state = r.state
      /\ Kept(r, [r EXCEPT !.finished = "past"]) /\ [r EXCEPT !.finished = "past"].state = r.state
  BY <1>1 DEF Row, Kept
<1> QED  BY <1>2, <1>3, <1>4 DEF r

-----------------------------------------------------------------------------
\* A row that is in some state is a row.
LEMMA StatesExist ==
  ASSUME TypeOK, RowShape, NEW id \in Ids, rec[id].state # "none"
  PROVE  Exists(id)
<1>1. ~Exists(id) => rec[id] = NoRow  BY DEF RowShape
<1>2. NoRow.state = "none"  BY DEF NoRow
<1> QED  BY <1>1, <1>2

LEMMA FailedIsFinal == Final("failed")
BY DEF Final

\* An ending is written to one row, or not.
LEMMA OneEnds ==
  ASSUME TypeOK, NEW id \in Ids, NEW state, NEW reason, NEW stamp, Final(state),
         issued' = issued, rec' = rec \/ rec' = SetYtdlState(id, state, reason, stamp)
  PROVE  Leaves
<1> SUFFICES ASSUME NEW i \in Ids PROVE Left(i)  BY DEF Leaves
<1>1. CASE rec' = rec  BY <1>1 DEF Left
<1>2. CASE rec' = SetYtdlState(id, state, reason, stamp)  BY <1>2, StateWritten DEF Left
<1> QED  BY <1>1, <1>2

LEMMA NextSeqIsNew ==
  ASSUME TypeOK
  PROVE  /\ NextSeq \in Int
         /\ \A i \in Ids : rec[i].seq \in Int /\ rec[i].seq < NextSeq /\ rec[i].seq # NextSeq
<1> DEFINE n == NextSeq
<1>1. n \in Int /\ \A i \in Ids : rec[i].seq < n  BY NextSeqIsAbove, YtdlAssumption
<1>2. \A i \in Ids : rec[i].seq \in Int
  <2> SUFFICES ASSUME NEW i \in Ids PROVE rec[i].seq \in Int  OBVIOUS
  <2>1. rec[i] \in Row  BY DEF TypeOK
  <2>2. rec[i].seq \in 0..MaxSeq  BY <2>1 DEF Row
  <2> QED  BY <2>2, YtdlAssumption
<1> HIDE DEF n
<1>3. \A i \in Ids : rec[i].seq # n  BY <1>1, <1>2
<1> QED  BY <1>1, <1>2, <1>3 DEF n

\* A row that joins the back of the line takes a number nobody has.
LEMMA RequeueUnique ==
  ASSUME TypeOK, QueueSeqUnique, NEW id \in Ids, rec' = RequeueYtdl(id)
  PROVE  QueueSeqUnique'
<1> SUFFICES ASSUME NEW a \in Ids, NEW b \in Ids, Exists(a)', Exists(b)',
                    rec'[a].seq = rec'[b].seq, a # b
             PROVE  FALSE
  BY DEF QueueSeqUnique
<1> DEFINE Back(i) == rec'[i].seq = NextSeq /\ i = id
           Kin(i)  == rec'[i].kind = rec[i].kind
<1>1. \A i \in Ids : Kin(i) /\ (rec'[i].seq = rec[i].seq \/ Back(i))
  <2> SUFFICES ASSUME NEW i \in Ids PROVE Kin(i) /\ (rec'[i].seq = rec[i].seq \/ Back(i))
    OBVIOUS
  <2> QED  BY RequeueWritten
<1>2. \A i \in Ids : rec[i].seq # NextSeq  BY NextSeqIsNew
<1>3. Exists(a) /\ Exists(b)  BY <1>1 DEF Exists
<1> QED  BY <1>1, <1>2, <1>3 DEF QueueSeqUnique

LEMMA BirthUnique ==
  ASSUME TypeOK, QueueSeqUnique, NEW id \in Ids, NEW row, row.seq = NextSeq,
         rec' = [rec EXCEPT ![id] = row]
  PROVE  QueueSeqUnique'
<1> SUFFICES ASSUME NEW a \in Ids, NEW b \in Ids, Exists(a)', Exists(b)',
                    rec'[a].seq = rec'[b].seq, a # b
             PROVE  FALSE
  BY DEF QueueSeqUnique
<1> DEFINE n == NextSeq
<1>1. \A i \in Ids : rec'[i] = IF i = id THEN row ELSE rec[i]  BY DEF TypeOK
<1>2. \A i \in Ids : rec[i].seq # n  BY NextSeqIsNew
<1>3. row.seq = n  OBVIOUS
<1> HIDE DEF n
<1>5. a # id /\ b # id  BY <1>1, <1>2, <1>3
<1> QED  BY <1>1, <1>5 DEF QueueSeqUnique, Exists

LEMMA ItemsUnique ==
  ASSUME TypeOK, QueueSeqUnique, NEW g \in Ids, NEW fresh, NEW n \in Nat,
         NEW place \in [fresh -> 1..n], \A k, l \in fresh : place[k] = place[l] => k = l,
         rec' = CreateYtdlItems(g, place)
  PROVE  QueueSeqUnique'
<1> SUFFICES ASSUME NEW a \in Ids, NEW b \in Ids, Exists(a)', Exists(b)',
                    rec'[a].seq = rec'[b].seq, a # b
             PROVE  FALSE
  BY DEF QueueSeqUnique
<1> DEFINE q == NextSeq
           At(i, key) == i = issued + place[key] /\ rec'[i].seq = q + place[key] - 1
           Kin(i) == rec'[i].kind = rec[i].kind /\ rec'[i].seq = rec[i].seq
<1>1. ASSUME NEW i \in Ids PROVE Kin(i) \/ \E key \in fresh : At(i, key)
  <2>1. ASSUME NEW key \in fresh, rec'[i] = NewItem(g, key, q + place[key] - 1)
        PROVE  rec'[i].seq = q + place[key] - 1
    <3> DEFINE m == q + place[key] - 1
    <3> HIDE DEF m
    <3>1. NewItem(g, key, m).seq = m  BY DEF NewItem
    <3> QED  BY <2>1, <3>1 DEF m
  <2> QED  BY <2>1, ItemsWritten DEF Kept
<1>2. \A i \in Ids : rec[i].seq < q /\ rec[i].seq \in Int  BY NextSeqIsNew
<1>3. q \in Int /\ issued \in Int  BY NextSeqIsNew, YtdlAssumption DEF TypeOK
<1>4. \A key \in fresh : place[key] \in 1..n  OBVIOUS
<1> HIDE DEF q
<1>5. Kin(a) /\ Kin(b) => FALSE  BY DEF QueueSeqUnique, Exists
<1>6. \A i, j \in Ids : \A key \in fresh :
        At(i, key) /\ Kin(j) => rec'[i].seq # rec'[j].seq
  BY <1>2, <1>3, <1>4
<1>7. \A i, j \in Ids : \A k, l \in fresh :
        At(i, k) /\ At(j, l) /\ i # j => rec'[i].seq # rec'[j].seq
  BY <1>3, <1>4
<1> QED  BY <1>1, <1>5, <1>6, <1>7

\* What the groups phase is holding is the ending of a group.
LEMMA HeldGroup ==
  ASSUME IInv, NEW recorded \in BOOLEAN, GroupWrite(recorded)
  PROVE  /\ held.id \in Ids /\ held.id <= issued /\ Final(held.row.state)
         /\ Exists(held.id) => rec[held.id].kind = "group" /\ rec[held.id].state # "resolving"
<1>1. held.id \in Ids  BY DEF GroupWrite, IInv, TypeOK, Held
<1>2. pc = "groups" /\ held.id # 0 /\ held.id \in Pending
  BY <1>1 DEF GroupWrite, Pending, Ids
<1> QED  BY <1>1, <1>2 DEF IInv, PhaseShape

\* The cycle ends rows, sends them back, expands groups or claims: one of these in a step.
LEMMA CycleKinds == ASSUME IInv, Reconcile PROVE Leaves \/ Joins \/ Claims
<1> USE DEF store, handlers, Take
<1>t. TypeOK /\ RowShape /\ PhaseShape /\ QueueSeqUnique  BY DEF IInv
<1>i. issued \in 0..MaxRequests /\ issued \in Int /\ MaxRequests \in Int
  BY <1>t, YtdlAssumption DEF TypeOK
<1>u. UNCHANGED <<rec, issued>> => Leaves  BY DEF Leaves, Left
<1>1. CASE CycleBegin  BY <1>1, <1>u DEF CycleBegin
<1>2. ASSUME NEW read \in BOOLEAN, PhaseEnd(read) PROVE Leaves  BY <1>2, <1>u DEF PhaseEnd
<1>3. ASSUME NEW id \in Ids, Skip(id) PROVE Leaves  BY <1>3, <1>u DEF Skip
<1>4. ASSUME NEW id \in Ids, CaptureRead(id) PROVE Leaves  BY <1>4, <1>u DEF CaptureRead
<1>5. ASSUME NEW heard \in BOOLEAN, NEW recorded \in BOOLEAN, NEW deleted \in BOOLEAN,
             CaptureWrite(heard, recorded, deleted)
      PROVE  Leaves
  <2>1. held.id \in Ids  BY <1>5, <1>t DEF CaptureWrite, TypeOK, Held
  <2>2. issued' = issued /\ (rec' = rec \/ \E row, state, reason :
          rec' = CaptureTerminal(held.id, row, state, reason))
    BY <1>5 DEF CaptureWrite
  <2> QED  BY <1>t, <2>1, <2>2, CaptureWritten DEF Leaves, Left
<1>6. ASSUME NEW id \in Ids, NEW recorded \in BOOLEAN, VanishStep(id, recorded) PROVE Leaves
  <2>1. issued' = issued /\ (rec' = rec \/ rec' = SetYtdlState(id, "failed", "generic", TRUE))
    BY <1>6 DEF VanishStep
  <2> QED  BY <1>t, <2>1, OneEnds, FailedIsFinal
<1>7. ASSUME NEW g \in Ids, NEW created \in BOOLEAN, ExpandStart(g, created) PROVE Leaves
  <2>1. issued' = issued /\ (rec' = rec \/ rec' = SetYtdlState(g, "failed", "other", TRUE))
    BY <1>7 DEF ExpandStart
  <2> QED  BY <1>t, <2>1, OneEnds, FailedIsFinal
<1>8. ASSUME NEW g \in Ids, NEW deleted \in BOOLEAN, ExpandFailed(g, deleted) PROVE Leaves
  <2>1. issued' = issued /\ rec' = SetYtdlState(g, "failed", "other", TRUE)
    BY <1>8 DEF ExpandFailed
  <2> QED  BY <1>t, <2>1, OneEnds, FailedIsFinal
<1>9. ASSUME NEW g \in Ids, ExpandPending(g) PROVE Leaves  BY <1>9, <1>u DEF ExpandPending
<1>10. ASSUME NEW g \in Ids, ExpandUnreadable(g) PROVE Leaves
  <2>1. issued' = issued /\ rec' = SetYtdlState(g, "failed", "other", TRUE)
    BY <1>10 DEF ExpandUnreadable
  <2> QED  BY <1>t, <2>1, OneEnds, FailedIsFinal
<1>11. ASSUME NEW g \in Ids, NEW entries \in SUBSET Videos, NEW known \in BOOLEAN,
              NEW deleted \in BOOLEAN, ExpandInto(g, entries, known, deleted)
       PROVE  Leaves \/ Joins
  <2> DEFINE fresh == {key \in entries : known => ~AlreadyHeld(key)}
             n     == Cardinality(fresh)
  <2>1. n \in Nat  BY FS_Subset, FS_CardinalityType, YtdlAssumption
  <2>2. \/ UNCHANGED <<rec, issued>>
        \/ /\ issued' = issued + n /\ issued + n <= MaxRequests /\ Exists(g)
           /\ \E place \in [fresh -> 1..n] :
                /\ \A k, l \in fresh : place[k] = place[l] => k = l
                /\ rec' = CreateYtdlItems(g, place)
    BY <1>11 DEF ExpandInto
  <2>g. pc = "expand" /\ (Exists(g) => rec[g].state = "resolving")
    BY <1>11, <1>t DEF ExpandInto, PhaseShape
  <2> HIDE DEF fresh, n
  <2>3. ASSUME NEW place \in [fresh -> 1..n], rec' = CreateYtdlItems(g, place),
               issued' = issued + n, Exists(g), NEW i \in Ids
        PROVE  Joined(i)
    <3>1. CASE rec'[i] = rec[i]  BY <3>1 DEF Joined
    <3>2. CASE i = g /\ rec[i].state = "resolving" /\ Kept(rec[i], rec'[i])
               /\ rec'[i].state = "downloading"
      BY <3>2, <1>t, StatesExist DEF Joined, Expanded
    <3>3. ASSUME NEW key \in fresh, i = issued + place[key],
                 rec'[i] = NewItem(g, key, NextSeq + place[key] - 1)
          PROVE  Born(i)
      <4>1. place[key] \in 1..n  OBVIOUS
      <4>2. issued < i /\ i <= issued'  BY <4>1, <3>3, <2>3, <2>1, <1>i
      <4> DEFINE num == NextSeq + place[key] - 1
      <4>3. NewItem(g, key, num).kind = "item" /\ NewItem(g, key, num).state = "queued"
            /\ NewItem(g, key, num).parent = g
        <5> HIDE DEF num
        <5> QED  BY DEF NewItem
      <4>4. Exists(g) /\ g <= issued  BY <1>t, <2>3 DEF RowShape
      <4>5. Expanded(g)
        <5>1. \A k \in fresh : g # issued + place[k]  BY <4>4, <1>i, <2>1 DEF Ids
        <5>2. \/ rec'[g] = rec[g]
              \/ Kept(rec[g], rec'[g]) /\ rec'[g].state = "downloading"
          BY <1>t, <2>g, <2>1, <2>3, <5>1, ItemsWritten
        <5>3. rec'[g].state = "downloading"
          <6> DEFINE r == rec[g]
                     s == [r EXCEPT !.state = "downloading"]
          <6>1. rec'[g] = s  BY <2>g, <2>3 DEF CreateYtdlItems
          <6>2. r \in Row  BY <1>t DEF TypeOK
          <6>3. s.state = "downloading"
            <7> HIDE DEF r
            <7> QED  BY <6>2 DEF Row
          <6> QED  BY <6>1, <6>3
        <5>4. rec[g].state # "downloading"  BY <2>g, <4>4
        <5> QED  BY <2>g, <4>4, <5>2, <5>3, <5>4 DEF Expanded
      <4> QED  BY <3>3, <4>2, <4>3, <4>5, <2>g DEF Born
    <3>4. \/ rec'[i] = rec[i]
          \/ i = g /\ rec[i].state = "resolving" /\ Kept(rec[i], rec'[i])
             /\ rec'[i].state = "downloading"
          \/ \E key \in fresh : /\ i = issued + place[key]
                               /\ rec'[i] = NewItem(g, key, NextSeq + place[key] - 1)
      <4> DEFINE c == CreateYtdlItems(g, place)
      <4>1. \/ c[i] = rec[i]
            \/ i = g /\ rec[i].state = "resolving" /\ Kept(rec[i], c[i])
               /\ c[i].state = "downloading"
            \/ \E key \in fresh : i = issued + place[key]
                 /\ c[i] = NewItem(g, key, NextSeq + place[key] - 1)
        BY <1>t, <2>1, ItemsWritten
      <4> QED  BY <4>1, <2>3
    <3> QED  BY <3>1, <3>2, <3>3, <3>4 DEF Joined
  <2>4. issued' = issued + n /\ issued + n <= MaxRequests => issued' \in issued..MaxRequests
    BY <1>i, <2>1
  <2>5. ASSUME NEW place \in [fresh -> 1..n], rec' = CreateYtdlItems(g, place),
               \A k, l \in fresh : place[k] = place[l] => k = l
        PROVE  QueueSeqUnique'
    BY <1>t, <2>1, <2>5, ItemsUnique
  <2> QED  BY <1>u, <2>2, <2>3, <2>4, <2>5 DEF Joins
<1>12. ASSUME NEW id \in Ids, RetryStep(id) PROVE Joins
  <2>1. NotGroup(id)  BY <1>12, <1>t DEF RetryStep, PhaseShape
  <2>2. issued' = issued /\ rec' = RequeueYtdl(id)  BY <1>12 DEF RetryStep
  <2>3. QueueSeqUnique'  BY <1>t, <2>2, RequeueUnique
  <2> QED
    BY <1>t, <1>i, <2>1, <2>2, <2>3, RequeueWritten, StatesExist DEF Joins, Joined, Again, NotGroup
<1>13. ASSUME NEW g \in Ids, GroupCount(g) PROVE Leaves
  <2>1. Final(rec[g].state) => Exists(g) /\ rec[g].kind = "group"
    BY <1>13, <1>t, StatesExist DEF GroupCount, PhaseShape, Pending, Final
  <2>2. issued' = issued /\ (rec' = rec \/ (Final(rec[g].state) /\ rec' = ReopenYtdlGroup(g)))
    BY <1>13 DEF GroupCount
  <2> QED  BY <1>t, <2>1, <2>2, ReopenWritten DEF Leaves, Left
<1>14. ASSUME NEW recorded \in BOOLEAN, GroupWrite(recorded) PROVE Leaves
  <2> DEFINE g == held.id
  <2>1. g \in Ids /\ Final(held.row.state) /\ (Exists(g) => rec[g].kind = "group")
    BY <1>14, HeldGroup
  <2>2. issued' = issued /\
          \/ rec' = rec
          \/ rec' = SetYtdlState(g, held.row.state, held.row.reason, TRUE)
          \/ Final(rec[g].state) /\ rec' = ReopenYtdlGroup(g)
    BY <1>14 DEF GroupWrite
  <2> HIDE DEF g
  <2>3. Final(rec[g].state) => Exists(g)  BY <1>t, <2>1, StatesExist DEF Final
  <2>4. CASE rec' = rec \/ rec' = SetYtdlState(g, held.row.state, held.row.reason, TRUE)
    BY <1>t, <2>1, <2>2, <2>4, OneEnds
  <2>5. CASE Final(rec[g].state) /\ rec' = ReopenYtdlGroup(g)
    BY <1>t, <2>1, <2>2, <2>3, <2>5, ReopenWritten DEF Leaves, Left
  <2> QED  BY <2>2, <2>4, <2>5
<1>15. ASSUME NEW id \in Ids, NEW deleted \in BOOLEAN, SweepStep(id, deleted) PROVE Leaves
  BY <1>15, <1>u DEF SweepStep
<1>16. ASSUME NEW id \in Ids, AdmitClaim(id) PROVE Claims  BY <1>16 DEF Claims
<1>17. ASSUME NEW created \in BOOLEAN, AdmitCreate(created) PROVE Leaves
  <2>1. held.id \in Ids  BY <1>17, <1>t DEF AdmitCreate, TypeOK, Held
  <2>2. issued' = issued /\ (rec' = rec \/ rec' = SetYtdlState(held.id, "failed", "other", TRUE))
    BY <1>17 DEF AdmitCreate
  <2> QED  BY <1>t, <2>1, <2>2, OneEnds, FailedIsFinal
<1> QED
  BY <1>1, <1>2, <1>3, <1>4, <1>5, <1>6, <1>7, <1>8, <1>9, <1>10, <1>11, <1>12, <1>13, <1>14,
     <1>15, <1>16, <1>17 DEF Reconcile

\* The handlers and the world around them end rows or add to the line.
LEMMA OtherKinds == ASSUME IInv, Serve \/ Request \/ Cluster PROVE Leaves \/ Joins \/ Dismisses
<1> USE DEF store, reconciler
<1>t. TypeOK /\ RowShape /\ ViewShape /\ QueueSeqUnique  BY DEF IInv
<1>i. issued \in 0..MaxRequests /\ issued \in Int /\ MaxRequests \in Int
  BY <1>t, YtdlAssumption DEF TypeOK
<1>u. UNCHANGED <<rec, issued>> => Leaves  BY DEF Leaves, Left
<1>1. ASSUME NEW u \in Users, NEW key \in Links, NEW read \in BOOLEAN, SubmitCheck(u, key, read)
      PROVE  Leaves
  BY <1>1, <1>u DEF SubmitCheck
<1>2. ASSUME NEW u \in Users, SubmitRecord(u) PROVE Leaves \/ Joins
  <2> DEFINE kind  == IF submits[u] \in Lists THEN "group" ELSE "single"
             state == IF submits[u] \in Lists THEN "resolving" ELSE "queued"
             n     == NextSeq
             row   == [kind |-> kind, user |-> u, key |-> submits[u], parent |-> 0,
                       state |-> state, reason |-> "", attempts |-> 1, seq |-> n,
                       finished |-> "absent"]
  <2>1. \/ UNCHANGED <<rec, issued>>
        \/ /\ issued < MaxRequests
           /\ issued' = issued + 1 /\ rec' = [rec EXCEPT ![issued + 1] = row]
    BY <1>2 DEF SubmitRecord
  <2>2. \/ row.kind = "group" /\ row.state = "resolving"
        \/ row.kind = "single" /\ row.state = "queued"
    OBVIOUS
  <2>4. row.seq = NextSeq  OBVIOUS
  <2> HIDE DEF row
  <2>3. rec \in [Ids -> Row]  BY <1>t DEF TypeOK
  <2>5. CASE issued < MaxRequests /\ issued' = issued + 1 /\ rec' = [rec EXCEPT ![issued + 1] = row]
    <3>1. issued + 1 \in Ids /\ issued' \in issued..MaxRequests  BY <1>i, <2>5 DEF Ids
    <3>2. QueueSeqUnique'  BY <1>t, <2>4, <2>5, <3>1, BirthUnique
    <3>3. ASSUME NEW i \in Ids PROVE Joined(i)
      BY <1>i, <2>2, <2>3, <2>5, <3>1 DEF Joined, Born
    <3> QED  BY <3>1, <3>2, <3>3 DEF Joins
  <2> QED  BY <1>u, <2>1, <2>5
<1>3. ASSUME NEW p \in Pages, NEW id \in Ids, ViewRead(p, id) PROVE Leaves
  BY <1>3, <1>u DEF ViewRead
<1>4. ASSUME NEW p \in Pages, ViewJobs(p) PROVE Leaves  BY <1>4, <1>u DEF ViewJobs
<1>5. ASSUME NEW p \in Pages, NEW recorded \in BOOLEAN, ViewCapture(p, recorded) PROVE Leaves
  <2>1. viewer[p].id \in Ids
    <3>1. viewer[p] # NotViewing
      <4>1. viewer[p].job # NoJob  BY <1>5 DEF ViewCapture
      <4>2. NotViewing.job = NoJob  BY DEF NotViewing
      <4> QED  BY <4>1, <4>2
    <3> QED  BY <3>1, <1>t DEF ViewShape, TypeOK, View
  <2>2. issued' = issued /\ (rec' = rec \/ \E row, state, reason :
          rec' = CaptureTerminal(viewer[p].id, row, state, reason))
    BY <1>5 DEF ViewCapture
  <2> QED  BY <1>t, <2>1, <2>2, CaptureWritten DEF Leaves, Left
<1>6. ASSUME NEW id \in Ids, Retry(id) PROVE Joins
  <2>1. issued' = issued /\ rec' = RequeueYtdl(id) /\ rec[id].kind # "group"  BY <1>6 DEF Retry
  <2>2. QueueSeqUnique'  BY <1>t, <2>1, RequeueUnique
  <2> QED  BY <1>t, <1>i, <2>1, <2>2, RequeueWritten, StatesExist DEF Joins, Joined, Again
<1>7. ASSUME NEW id \in Ids, NEW deleted \in BOOLEAN, RetryDelete(id, deleted) PROVE Leaves
  BY <1>7, <1>u DEF RetryDelete
<1>8. ASSUME NEW id \in Ids, NEW deleted \in BOOLEAN, Dismiss(id, deleted) PROVE Dismisses
  BY <1>8 DEF Dismiss, Dismisses
<1>9. ASSUME NEW u \in Users, DeleteAccount(u) PROVE Leaves
  <2>1. issued' = issued  BY <1>9 DEF DeleteAccount
  <2>2. ASSUME NEW i \in Ids PROVE Left(i)
    <3>1. CASE rec[i].user # u  BY <3>1, <1>9 DEF DeleteAccount, Left
    <3>2. CASE ~Exists(i)
      <4>1. rec[i] = NoRow /\ NoRow.user = NoUser /\ u # NoUser
        BY <3>2, <1>t, YtdlAssumption DEF RowShape, NoRow
      <4> QED  BY <4>1, <3>1
    <3>3. CASE Exists(i) /\ rec[i].user = u
      BY <3>3, <1>t, <1>9, AgedWritten DEF DeleteAccount, Left
    <3> QED  BY <3>1, <3>2, <3>3
  <2> QED  BY <2>1, <2>2 DEF Leaves
<1>10. ASSUME NEW id \in Ids, JobStart(id) \/ JobEnd(id) \/ JobGone(id) PROVE Leaves
  BY <1>10, <1>u DEF JobStart, JobEnd, JobSucceed, JobFail, JobGone
<1>11. ASSUME NEW id \in Ids, CoolDown(id) PROVE Leaves
  <2>1. issued' = issued /\ rec' = [rec EXCEPT ![id].finished = "past"]  BY <1>11 DEF CoolDown
  <2>2. rec[id].state = "failed" /\ Exists(id)
    BY <1>11, <1>t, StatesExist DEF CoolDown, AwaitingRetry
  <2>3. \A i \in Ids : i # id => rec'[i] = rec[i]  BY <1>t, <2>1 DEF TypeOK
  <2>4. Kept(rec[id], rec'[id]) /\ rec'[id].state = rec[id].state  BY <1>t, <2>1, AgedWritten
  <2> QED  BY <2>1, <2>2, <2>3, <2>4 DEF Leaves, Left
<1>12. CASE Restart  BY <1>12, <1>u DEF Restart
<1> QED
  BY <1>1, <1>2, <1>3, <1>4, <1>5, <1>6, <1>7, <1>8, <1>9, <1>10, <1>11, <1>12
     DEF Serve, Request, Cluster
-----------------------------------------------------------------------------
\* Every step, a stuttering one included, is of one of the kinds.
LEMMA Kinds == ASSUME IInv, [Next]_vars PROVE Leaves \/ Joins \/ Claims \/ Dismisses
<1>1. CASE Next  BY <1>1, CycleKinds, OtherKinds DEF Next
<1>2. CASE UNCHANGED vars  BY <1>2 DEF vars, store, Leaves, Left
<1> QED  BY <1>1, <1>2

\* What a step may make of a row, the kinds put together.
Moved(id) ==
  \/ rec'[id] = rec[id]
  \/ rec'[id] = NoRow
  \/ Born(id)
  \/ /\ Exists(id) /\ rec'[id].kind = rec[id].kind /\ rec'[id].parent = rec[id].parent
     /\ \/ rec'[id].state = rec[id].state
        \/ Final(rec'[id].state)
        \/ rec[id].kind = "group" /\ rec'[id].state = "downloading"
        \/ rec[id].kind # "group" /\ rec[id].state = "failed" /\ rec'[id].state = "queued"
        \/ rec[id].kind # "group" /\ rec[id].state = "queued" /\ rec'[id].state = "scheduled"

LEMMA RowSteps ==
  ASSUME IInv, [Next]_vars
  PROVE  issued' \in issued..MaxRequests /\ \A id \in Ids : Moved(id)
<1>t. TypeOK /\ RowShape  BY DEF IInv
<1>i. issued \in 0..MaxRequests /\ issued \in Int /\ MaxRequests \in Int
  BY <1>t, YtdlAssumption DEF TypeOK
<1>1. CASE Leaves  BY <1>1, <1>i DEF Leaves, Left, Moved, Kept
<1>2. CASE Joins
  <2> SUFFICES ASSUME NEW id \in Ids PROVE Moved(id)  BY <1>2 DEF Joins
  <2>1. Joined(id)  BY <1>2 DEF Joins
  <2>2. Expanded(id) => Moved(id)  BY <1>t DEF RowShape, Expanded, Moved, Kept
  <2> QED  BY <2>1, <2>2 DEF Joined, Again, Moved
<1>3. CASE Claims
  <2>1. PICK c \in Ids : AdmitClaim(c)  BY <1>3 DEF Claims
  <2>2. issued' = issued /\ rec' = MarkYtdlAdmitted(c)  BY <2>1 DEF AdmitClaim
  <2> SUFFICES ASSUME NEW id \in Ids PROVE Moved(id)  BY <1>i, <2>2
  <2>3. \/ rec'[id] = rec[id]
        \/ /\ rec[id].state = "queued" /\ Kept(rec[id], rec'[id])
           /\ rec'[id].state = "scheduled"
    BY <1>t, <2>2, ClaimWritten
  <2>4. rec[id].state = "queued" => Exists(id) /\ rec[id].kind # "group"
    BY <1>t, StatesExist DEF RowShape
  <2> QED  BY <2>3, <2>4 DEF Moved, Kept
<1>4. CASE Dismisses  BY <1>4, <1>i DEF Dismisses, DeleteYtdlDownload, Moved
<1> QED  BY <1>1, <1>2, <1>3, <1>4, Kinds

\* Once a row is not a group it never is; once a group has been expanded it stays so.
ExpandedOrGone(g) == g <= issued /\ (Exists(g) => rec[g].kind = "group" /\ rec[g].state # "resolving")

LEMMA Stable ==
  ASSUME IInv, [Next]_vars, NEW id \in Ids
  PROVE  /\ NotGroup(id) => NotGroup(id)'
         /\ ExpandedOrGone(id) => ExpandedOrGone(id)'
         /\ id <= issued /\ ~Exists(id) => id <= issued' /\ ~Exists(id)'
<1>1. Moved(id) /\ issued' \in issued..MaxRequests  BY RowSteps
<1>2. issued \in Int /\ MaxRequests \in Int  BY YtdlAssumption DEF IInv, TypeOK
<1>3. NoRow.kind = "none"  BY DEF NoRow
<1>4. id <= issued => id <= issued' /\ ~Born(id)  BY <1>1, <1>2 DEF Born, Ids
<1> QED  BY <1>1, <1>3, <1>4 DEF Moved, NotGroup, ExpandedOrGone, Exists, Final

LEMMA KeepsTypes == ASSUME IInv, [Next]_vars PROVE TypeOK'
<1>1. TInv  BY DEF IInv, TInv, EndingHeld, PhaseShape, PagesShow, ViewShape, TypeOK, View
<1> QED  BY <1>1, TStep DEF TInv

LEMMA KeepsRowShape == ASSUME IInv, [Next]_vars PROVE RowShape'
<1>i. issued \in Int /\ MaxRequests \in Int  BY YtdlAssumption DEF IInv, TypeOK
<1>n. NoRow.kind = "none" /\ NoRow.state = "none"  BY DEF NoRow
<1> SUFFICES ASSUME NEW id \in Ids
             PROVE  /\ ~Exists(id)' => rec'[id] = NoRow
                    /\ Exists(id)' => id <= issued'
                    /\ rec'[id].state = "resolving" => rec'[id].kind = "group"
                    /\ rec'[id].state \in {"queued", "scheduled"} => rec'[id].kind # "group"
  BY DEF RowShape
<1>1. Moved(id) /\ issued' \in issued..MaxRequests  BY RowSteps
<1>2. /\ ~Exists(id) => rec[id] = NoRow
      /\ Exists(id) => id <= issued /\ id <= issued'
      /\ rec[id].state = "resolving" => rec[id].kind = "group"
      /\ rec[id].state \in {"queued", "scheduled"} => rec[id].kind # "group"
  BY <1>1, <1>i DEF IInv, RowShape, Ids
<1>3. CASE Born(id)  BY <1>3 DEF Born, Exists
<1>4. CASE rec'[id] = rec[id]  BY <1>2, <1>4 DEF Exists
<1>5. CASE rec'[id] = NoRow  BY <1>n, <1>5 DEF Exists
<1>6. CASE Exists(id) /\ rec'[id].kind = rec[id].kind
  BY <1>1, <1>2, <1>3, <1>4, <1>5, <1>6 DEF Exists, Moved, Final
<1> QED  BY <1>1, <1>3, <1>4, <1>5, <1>6 DEF Moved

LEMMA KeepsSeqUnique == ASSUME IInv, [Next]_vars PROVE QueueSeqUnique'
<1>t. TypeOK /\ QueueSeqUnique  BY DEF IInv
<1>1. ASSUME \A id \in Ids : ~Exists(id)' \/ Kept(rec[id], rec'[id])
      PROVE  QueueSeqUnique'
  BY <1>1, <1>t DEF QueueSeqUnique, Exists, Kept
<1>2. CASE Leaves  BY <1>1, <1>2 DEF Leaves, Left, Kept
<1>3. CASE Joins  BY <1>3 DEF Joins
<1>4. CASE Claims
  <2>1. PICK c \in Ids : AdmitClaim(c)  BY <1>4 DEF Claims
  <2>2. rec' = MarkYtdlAdmitted(c)  BY <2>1 DEF AdmitClaim
  <2> QED  BY <1>t, <1>1, <2>2, ClaimWritten DEF Kept
<1>5. CASE Dismisses
  <2>1. NoRow.kind = "none"  BY DEF NoRow
  <2> QED  BY <1>1, <1>5, <2>1 DEF Dismisses, DeleteYtdlDownload, Kept, Exists
<1> QED  BY <1>2, <1>3, <1>4, <1>5, Kinds

LEMMA KeepsItems == ASSUME IInv, [Next]_vars PROVE NoOrphanItems'
<1>t. TypeOK /\ RowShape /\ NoOrphanItems  BY DEF IInv
<1>n. NoRow.kind = "none"  BY DEF NoRow
<1> SUFFICES ASSUME NEW id \in Ids, rec'[id].kind = "item"
             PROVE  /\ rec'[id].parent \in Ids /\ rec'[rec'[id].parent].kind = "group"
                    /\ rec'[rec'[id].parent].state # "resolving"
  BY DEF NoOrphanItems
<1>g. PICK g : g = rec'[id].parent  OBVIOUS
<1>1. CASE Born(id)  BY <1>1, <1>t DEF Born, Expanded, Kept, RowShape
<1>2. CASE ~Born(id)
  <2>1. Exists(id) /\ rec[id].kind = "item" /\ rec[id].parent = g
    BY <1>2, <1>g, <1>n, RowSteps DEF Moved, Exists
  <2>2. g \in Ids /\ rec[g].kind = "group" /\ rec[g].state # "resolving"
    BY <1>t, <2>1 DEF NoOrphanItems
  <2>3. CASE Dismisses
    <3>1. PICK d \in Ids : rec' = DeleteYtdlDownload(d)  BY <2>3 DEF Dismisses
    <3>2. id # d /\ id \notin Items(d)  BY <1>n, <3>1 DEF DeleteYtdlDownload
    <3>3. g # d /\ g \notin Items(d)  BY <2>1, <2>2, <3>2 DEF Items
    <3> QED  BY <1>g, <2>2, <3>1, <3>3 DEF DeleteYtdlDownload
  <2>4. CASE rec'[g] # NoRow
    <3>1. ExpandedOrGone(g)  BY <1>t, <2>2 DEF ExpandedOrGone, RowShape, Exists
    <3>2. ExpandedOrGone(g)'  BY <2>2, <3>1, Stable
    <3>3. RowShape'  BY KeepsRowShape
    <3> QED  BY <1>g, <2>2, <2>4, <3>2, <3>3 DEF ExpandedOrGone, RowShape, Exists
  <2>5. CASE rec'[g] = NoRow /\ ~Dismisses
    <3>1. Exists(g)  BY <2>2 DEF Exists
    <3>2. CASE Leaves  BY <3>2, <2>2, <2>5, <1>n DEF Leaves, Left, Kept
    <3>3. CASE Joins
      <4>1. Joined(g)  BY <3>3, <2>2 DEF Joins
      <4> QED  BY <4>1, <2>2, <2>5, <1>n DEF Joined, Born, Again, Expanded, Kept
    <3>4. CASE Claims
      <4>1. PICK c \in Ids : AdmitClaim(c)  BY <3>4 DEF Claims
      <4>2. rec' = MarkYtdlAdmitted(c)  BY <4>1 DEF AdmitClaim
      <4> QED  BY <1>t, <4>2, <2>2, <2>5, <1>n, ClaimWritten DEF Kept
    <3> QED  BY <2>5, <3>2, <3>3, <3>4, Kinds
  <2> QED  BY <2>3, <2>4, <2>5
<1> QED  BY <1>1, <1>2
-----------------------------------------------------------------------------
\* Within a phase the list of rows still to be treated only shrinks, and nothing is held that
\* was not on it.
Proceeds ==
  /\ pc' = pc /\ live' = live /\ todo' \subseteq todo
  /\ held' = held \/ held' = Nothing \/ held'.id \in todo

LEMMA PhaseSteps ==
  ASSUME [Next]_vars
  PROVE  Proceeds \/ CycleBegin \/ Restart \/ \E read \in BOOLEAN : PhaseEnd(read)
<1> USE DEF Proceeds, Take
<1>1. ASSUME UNCHANGED reconciler PROVE Proceeds  BY <1>1 DEF reconciler
<1>2. CASE Reconcile
  <2>1. ASSUME NEW id \in Ids, Skip(id) \/ CaptureRead(id) \/ AdmitClaim(id) PROVE Proceeds
    <3>1. CASE Skip(id)  BY <3>1 DEF Skip
    <3>2. ASSUME held' = held \/ \E row : held' = [id |-> id, row |-> row], id \in todo
          PROVE  held' = held \/ held' = Nothing \/ held'.id \in todo
      BY <3>2
    <3>3. CASE CaptureRead(id)  BY <3>2, <3>3 DEF CaptureRead
    <3>4. CASE AdmitClaim(id)  BY <3>2, <3>4 DEF AdmitClaim
    <3> QED  BY <2>1, <3>1, <3>3, <3>4
  <2>2. ASSUME NEW heard, NEW recorded, NEW deleted, CaptureWrite(heard, recorded, deleted)
        PROVE  Proceeds
    BY <2>2 DEF CaptureWrite
  <2>3. ASSUME NEW id \in Ids, NEW ok, VanishStep(id, ok) \/ ExpandStart(id, ok) PROVE Proceeds
    BY <2>3 DEF VanishStep, ExpandStart
  <2>4. ASSUME NEW id \in Ids, NEW ok, ExpandFailed(id, ok) \/ SweepStep(id, ok) PROVE Proceeds
    BY <2>4 DEF ExpandFailed, SweepStep
  <2>5. ASSUME NEW id \in Ids, ExpandPending(id) \/ ExpandUnreadable(id) PROVE Proceeds
    BY <2>5 DEF ExpandPending, ExpandUnreadable
  <2>6. ASSUME NEW g \in Ids, NEW entries, NEW known, NEW deleted,
               ExpandInto(g, entries, known, deleted)
        PROVE  Proceeds
    BY <2>6 DEF ExpandInto
  <2>7. ASSUME NEW id \in Ids, RetryStep(id) PROVE Proceeds  BY <2>7 DEF RetryStep
  <2>8. ASSUME NEW id \in Ids, GroupCount(id) PROVE Proceeds  BY <2>8 DEF GroupCount
  <2>9. ASSUME NEW ok, GroupWrite(ok) \/ AdmitCreate(ok) PROVE Proceeds
    BY <2>9 DEF GroupWrite, AdmitCreate
  <2> QED
    BY <1>2, <2>1, <2>2, <2>3, <2>4, <2>5, <2>6, <2>7, <2>8, <2>9 DEF Reconcile
<1>3. CASE Serve
  BY <1>1, <1>3 DEF Serve, SubmitRecord, ViewJobs, ViewCapture, RetryDelete
<1>4. CASE Request
  BY <1>1, <1>4 DEF Request, SubmitCheck, ViewRead, Retry, Dismiss, DeleteAccount
<1>5. CASE Cluster
  BY <1>1, <1>5 DEF Cluster, JobStart, JobEnd, JobSucceed, JobFail, JobGone, CoolDown
<1>6. CASE UNCHANGED vars  BY <1>6, <1>1 DEF vars
<1> QED  BY <1>2, <1>3, <1>4, <1>5, <1>6 DEF Next

-----------------------------------------------------------------------------
\* Sets of ids are finite, and the limit is a number.
LEMMA Finite ==
  /\ \A S \in SUBSET Ids : IsFiniteSet(S) /\ Cardinality(S) \in Nat
  /\ Limit \in Nat
<1>1. IsFiniteSet(Ids)  BY FS_Interval, YtdlAssumption DEF Ids
<1>2. \A S \in SUBSET Ids : IsFiniteSet(S) /\ Cardinality(S) \in Nat
  BY <1>1, FS_Subset, FS_CardinalityType
<1>3. Limit \in Nat  BY YtdlAssumption DEF Limit
<1> QED  BY <1>2, <1>3

\* The downloads that wait are a line that Admit can work on.
LEMMA WaitingLine == ASSUME TypeOK, QueueSeqUnique, RowShape PROVE Line(QueuedCandidates)
<1> DEFINE Q == {i \in Ids : rec[i].state = "queued"}
           D(i) == rec[i].kind # "item"
           C(i) == [id |-> i, user |-> rec[i].user, direct |-> D(i), seq |-> rec[i].seq]
           f == [i \in Q |-> C(i)]
           T == QueuedCandidates
<1>1. T = {C(i) : i \in Q}  BY DEF QueuedCandidates
<1>2. \A i \in Q : C(i).seq = rec[i].seq /\ C(i).direct \in BOOLEAN
  <2> SUFFICES ASSUME NEW i \in Q PROVE C(i).seq = rec[i].seq /\ C(i).direct \in BOOLEAN  OBVIOUS
  <2>1. C(i).direct = D(i) /\ C(i).seq = rec[i].seq
    <3> HIDE DEF D
    <3> QED  OBVIOUS
  <2>2. D(i) \in BOOLEAN  OBVIOUS
  <2> QED  BY <2>1, <2>2
<1> HIDE DEF C, T
<1>3. IsFiniteSet(Q)  BY Finite
<1>4. f \in Surjection(Q, T)  BY <1>1 DEF Surjection
<1>5. IsFiniteSet(T)
  <2> HIDE DEF f
  <2> QED  BY <1>3, <1>4, FS_Surjection
<1>6. \A i \in Ids : rec[i].seq \in Int  BY NextSeqIsNew
<1>7. \A i \in Q : Exists(i)  BY StatesExist
<1>8. ASSUME NEW c \in T, NEW d \in T, c.seq = d.seq PROVE c = d
  <2>1. PICK i \in Q : c = C(i)  BY <1>1
  <2>2. PICK j \in Q : d = C(j)  BY <1>1
  <2>3. i = j  BY <1>2, <1>7, <1>8, <2>1, <2>2 DEF QueueSeqUnique
  <2> QED  BY <2>1, <2>2, <2>3
<1>9. \A c \in T : c.seq \in Int /\ c.direct \in BOOLEAN  BY <1>1, <1>2, <1>6
<1> QED  BY <1>5, <1>8, <1>9 DEF Line, T

\* An admission plans for no more rows than there are free slots.
LEMMA AdmissionFits ==
  ASSUME IInv
  PROVE  Cardinality(Running) + Cardinality(Agenda("admit")) <= Limit
<1> DEFINE free == Limit - Cardinality(Running)
           A == Admit(QueuedCandidates, free)
           T == Agenda("admit")
           f == [c \in A |-> c.id]
<1>1. Cardinality(Running) <= Limit /\ Cardinality(Running) \in Nat /\ Limit \in Nat
  BY Finite DEF IInv, SlotShape, Running
<1>2. free \in Int /\ free >= 0  BY <1>1
<1>3. Line(QueuedCandidates)  BY WaitingLine DEF IInv
<1>4. IsFiniteSet(A) /\ Cardinality(A) <= free
  <2> HIDE DEF free
  <2> QED  BY <1>2, <1>3, AdmitFitsSlots
<1>5. T = {c.id : c \in A}  BY DEF Agenda
<1> HIDE DEF A, T
<1>6. f \in Surjection(A, T)  BY <1>5 DEF Surjection
<1>7. Cardinality(T) <= Cardinality(A) /\ IsFiniteSet(T)
  <2> HIDE DEF f
  <2> QED  BY <1>4, <1>6, FS_Surjection
<1>8. Cardinality(T) \in Nat /\ Cardinality(A) \in Nat  BY <1>4, <1>7, FS_CardinalityType
<1> QED  BY <1>1, <1>4, <1>7, <1>8 DEF T

\* Only a claim puts anything into a slot.
LEMMA RunningSteps ==
  ASSUME IInv, [Next]_vars
  PROVE  \/ Running' \subseteq Running
         \/ /\ pc = "admit"
            /\ \E id \in todo : todo' = todo \ {id} /\ Running' \subseteq Running \cup {id}
                                /\ rec[id].state = "queued" /\ rec'[id].state = "scheduled"
                                /\ \A i \in Ids : i # id => rec'[i] = rec[i]
<1>t. TypeOK  BY DEF IInv
<1>n. NoRow.state = "none"  BY DEF NoRow
<1>1. CASE Leaves  BY <1>1 DEF Leaves, Left, Running, Kept, Final
<1>2. CASE Joins  BY <1>2 DEF Joins, Joined, Born, Again, Expanded, Kept, Running, IInv, RowShape
<1>3. CASE Claims
  <2>1. PICK c \in Ids : AdmitClaim(c)  BY <1>3 DEF Claims
  <2>2. pc = "admit" /\ c \in todo /\ todo' = todo \ {c} /\ rec' = MarkYtdlAdmitted(c)
    BY <2>1 DEF AdmitClaim, Take
  <2>3. \A i \in Ids : i # c => rec'[i] = rec[i]  BY <1>t, <2>2, ClaimWritten
  <2>4. Running' \subseteq Running \cup {c}  BY <2>3 DEF Running
  <2>5. rec'[c] = rec[c] => Running' \subseteq Running  BY <2>3 DEF Running
  <2>6. rec'[c] # rec[c] => rec[c].state = "queued" /\ rec'[c].state = "scheduled"
    BY <1>t, <2>2, ClaimWritten
  <2> QED  BY <2>2, <2>3, <2>4, <2>5, <2>6
<1>4. CASE Dismisses
  BY <1>4, <1>n DEF Dismisses, DeleteYtdlDownload, Running
<1> QED  BY <1>1, <1>2, <1>3, <1>4, Kinds

LEMMA KeepsSlotShape == ASSUME IInv, [Next]_vars PROVE SlotShape'
<1>t. TypeOK /\ TypeOK' /\ SlotShape  BY KeepsTypes DEF IInv
<1>1. /\ Running \subseteq Ids /\ Running' \subseteq Ids /\ todo \subseteq Ids /\ todo' \subseteq Ids
      /\ Limit \in Nat
  BY <1>t, Finite DEF Running, TypeOK
<1> DEFINE r == Cardinality(Running)
           s == Cardinality(Running')
           t == Cardinality(todo)
           u == Cardinality(todo')
<1>2. r \in Nat /\ s \in Nat /\ t \in Nat /\ u \in Nat  BY <1>1, Finite
<1>3. r <= Limit /\ (pc = "admit" => r + t <= Limit)  BY <1>t DEF SlotShape
<1>4. Running' \subseteq Running => s <= r  BY <1>1, Finite, FS_Subset
<1>5. todo' \subseteq todo => u <= t  BY <1>1, Finite, FS_Subset
<1>6. ASSUME NEW id \in todo, todo' = todo \ {id}, Running' \subseteq Running \cup {id}
      PROVE  u = t - 1 /\ s <= r + 1
  <2>1. u = t - 1  BY <1>1, <1>6, Finite, FS_RemoveElement
  <2>2. IsFiniteSet(Running) /\ IsFiniteSet(Running \cup {id})
    BY <1>1, Finite, FS_AddElement
  <2>3. Cardinality(Running \cup {id}) <= r + 1 /\ Cardinality(Running \cup {id}) \in Nat
    BY <1>2, <2>2, FS_AddElement, FS_CardinalityType
  <2>4. s <= Cardinality(Running \cup {id})  BY <1>6, <2>2, FS_Subset
  <2> QED  BY <1>2, <2>1, <2>3, <2>4
<1>7. s <= Limit
  <2>1. CASE Running' \subseteq Running  BY <1>1, <1>2, <1>3, <1>4, <2>1
  <2>2. ASSUME pc = "admit", NEW id \in todo, todo' = todo \ {id}, Running' \subseteq Running \cup {id}
        PROVE  s <= Limit
    <3>1. u = t - 1 /\ s <= r + 1  BY <1>6, <2>2
    <3>2. r + t <= Limit  BY <1>3, <2>2
    <3> HIDE DEF r, s, t, u
    <3> QED  BY <1>1, <1>2, <3>1, <3>2
  <2> QED  BY <2>1, <2>2, RunningSteps
<1>8. ASSUME pc' = "admit" PROVE s + u <= Limit
  <2>1. CASE pc = "admit" /\ todo' \subseteq todo
    <3>1. CASE Running' \subseteq Running  BY <1>1, <1>2, <1>3, <1>4, <1>5, <2>1, <3>1
    <3>2. ASSUME NEW id \in todo, todo' = todo \ {id}, Running' \subseteq Running \cup {id}
          PROVE  s + u <= Limit
      BY <1>1, <1>2, <1>3, <1>6, <2>1, <3>2
    <3> QED  BY <3>1, <3>2, RunningSteps
  <2>2. ASSUME NEW read \in BOOLEAN, PhaseEnd(read) PROVE s + u <= Limit
    <3>1. Running' = Running  BY <2>2 DEF PhaseEnd, store, Running
    <3>2. todo' = Agenda("admit") \/ todo' = {}  BY <1>8, <2>2 DEF PhaseEnd
    <3>3. r + Cardinality(Agenda("admit")) <= Limit  BY AdmissionFits
    <3>4. todo' = {} => u = 0  BY FS_EmptySet
    <3> QED  BY <1>2, <1>3, <3>1, <3>2, <3>3, <3>4
  <2>3. ~CycleBegin /\ ~Restart  BY <1>8 DEF CycleBegin, Restart
  <2> QED  BY <1>8, <2>1, <2>2, <2>3, PhaseSteps DEF Proceeds
<1> QED  BY <1>7, <1>8 DEF SlotShape
-----------------------------------------------------------------------------
\* What becomes of a worker: it goes, it moves on, and one that succeeds has saved its files;
\* a download's worker is created only for a download.
JobMoved(id) ==
  \/ job'[id] = job[id]
  \/ job'[id] = NoJob
  \/ job'[id].kind = "expand"
  \/ job'[id].kind = "download" /\ job'[id].phase = "pending" /\ NotGroup(id)
  \/ /\ job'[id].kind = job[id].kind
     /\ job'[id].phase = "succeeded" /\ job[id].kind = "download" => id \in saved'

LEMMA DeletedJob ==
  ASSUME TypeOK, NEW id, NEW ok, DeleteJob(id, ok), NEW i \in Ids
  PROVE  job'[i] = job[i] \/ job'[i] = NoJob
BY DEF DeleteJob, TypeOK

\* The cycle leaves what was saved and the pages alone.
LEMMA CycleFrame == ASSUME Reconcile PROVE saved' = saved /\ viewer' = viewer
<1> USE DEF handlers
<1>1. ASSUME NEW id, NEW ok,
             \/ CycleBegin \/ PhaseEnd(ok) \/ Skip(id) \/ CaptureRead(id) \/ RetryStep(id)
             \/ GroupCount(id) \/ GroupWrite(ok) \/ SweepStep(id, ok)
      PROVE  saved' = saved /\ viewer' = viewer
  BY <1>1 DEF CycleBegin, PhaseEnd, Skip, CaptureRead, RetryStep, GroupCount, GroupWrite, SweepStep
<1>2. ASSUME NEW id, NEW ok,
             \/ AdmitClaim(id) \/ AdmitCreate(ok) \/ VanishStep(id, ok) \/ ExpandStart(id, ok)
             \/ ExpandFailed(id, ok) \/ ExpandPending(id) \/ ExpandUnreadable(id)
      PROVE  saved' = saved /\ viewer' = viewer
  BY <1>2 DEF AdmitClaim, AdmitCreate, VanishStep, ExpandStart, ExpandFailed, ExpandPending,
              ExpandUnreadable
<1>3. ASSUME NEW g, NEW entries, NEW known, NEW deleted, ExpandInto(g, entries, known, deleted)
      PROVE  saved' = saved /\ viewer' = viewer
  BY <1>3 DEF ExpandInto
<1>4. ASSUME NEW heard, NEW recorded, NEW deleted, CaptureWrite(heard, recorded, deleted)
      PROVE  saved' = saved /\ viewer' = viewer
  BY <1>4 DEF CaptureWrite
<1> QED  BY <1>1, <1>2, <1>3, <1>4 DEF Reconcile

LEMMA SavedGrows == ASSUME [Next]_vars PROVE saved \subseteq saved'
<1>1. CASE Reconcile  BY <1>1, CycleFrame
<1>2. CASE Serve  BY <1>2 DEF Serve, SubmitRecord, ViewJobs, ViewCapture, RetryDelete
<1>3. CASE Request
  BY <1>3 DEF Request, SubmitCheck, ViewRead, Retry, Dismiss, DeleteAccount
<1>4. CASE Cluster
  BY <1>4 DEF Cluster, JobStart, JobEnd, JobSucceed, JobFail, JobGone, CoolDown, Restart
<1>5. CASE UNCHANGED vars  BY <1>5 DEF vars
<1> QED  BY <1>1, <1>2, <1>3, <1>4, <1>5 DEF Next

LEMMA CycleJobs == ASSUME IInv, Reconcile, NEW i \in Ids PROVE JobMoved(i)
<1>t. TypeOK /\ PhaseShape  BY DEF IInv
<1>1. ASSUME NEW id, NEW ok,
             \/ CycleBegin \/ PhaseEnd(ok) \/ Skip(id) \/ CaptureRead(id) \/ RetryStep(id)
             \/ GroupCount(id) \/ GroupWrite(ok) \/ AdmitClaim(id) \/ VanishStep(id, ok)
             \/ ExpandPending(id) \/ ExpandUnreadable(id)
      PROVE  job' = job
  BY <1>1 DEF CycleBegin, PhaseEnd, Skip, CaptureRead, RetryStep, GroupCount, GroupWrite,
              AdmitClaim, VanishStep, ExpandPending, ExpandUnreadable
<1>2. ASSUME NEW id \in Ids, NEW ok, SweepStep(id, ok) \/ ExpandFailed(id, ok) PROVE JobMoved(i)
  <2>1. \E del : DeleteJob(id, del)  BY <1>2 DEF SweepStep, ExpandFailed
  <2> QED  BY <1>t, <2>1, DeletedJob DEF JobMoved
<1>3. ASSUME NEW heard, NEW recorded, NEW deleted, CaptureWrite(heard, recorded, deleted)
      PROVE  JobMoved(i)
  <2>1. job' = job \/ DeleteJob(held.id, deleted)  BY <1>3 DEF CaptureWrite
  <2> QED  BY <1>t, <2>1, DeletedJob DEF JobMoved
<1>4. ASSUME NEW g \in Ids, NEW entries, NEW known, NEW deleted,
             ExpandInto(g, entries, known, deleted)
      PROVE  JobMoved(i)
  <2>1. job' = job \/ \E del : DeleteJob(g, del)  BY <1>4 DEF ExpandInto
  <2> QED  BY <1>t, <2>1, DeletedJob DEF JobMoved
<1>5. ASSUME NEW g \in Ids, NEW ok, ExpandStart(g, ok) PROVE JobMoved(i)
  <2> DEFINE j == [kind |-> "expand", phase |-> "pending", key |-> NoKey, why |-> ""]
  <2>1. job' = job \/ job' = [job EXCEPT ![g] = j]  BY <1>5 DEF ExpandStart
  <2>2. j.kind = "expand"  OBVIOUS
  <2> HIDE DEF j
  <2> QED  BY <1>t, <2>1, <2>2 DEF JobMoved, TypeOK
<1>6. ASSUME NEW ok, AdmitCreate(ok) PROVE JobMoved(i)
  <2> DEFINE j == [kind |-> "download", phase |-> "pending", key |-> held.row.key, why |-> ""]
  <2>1. job' = job \/ job' = [job EXCEPT ![held.id] = j]  BY <1>6 DEF AdmitCreate
  <2>2. j.kind = "download" /\ j.phase = "pending"  OBVIOUS
  <2>3. pc = "admit" /\ held.id \in Pending  BY <1>6 DEF AdmitCreate, Pending
  <2>4. NotGroup(held.id)  BY <1>t, <2>3 DEF PhaseShape
  <2> HIDE DEF j
  <2> QED  BY <1>t, <2>1, <2>2, <2>4 DEF JobMoved, TypeOK
<1> QED  BY <1>1, <1>2, <1>3, <1>4, <1>5, <1>6 DEF Reconcile, JobMoved

LEMMA JobSteps == ASSUME IInv, [Next]_vars, NEW i \in Ids PROVE JobMoved(i)
<1>t. TypeOK /\ job \in [Ids -> Job]  BY DEF IInv, TypeOK
<1>1. CASE Reconcile  BY <1>1, CycleJobs
<1>2. CASE Serve
  <2>1. job' = job \/ \E id, del : DeleteJob(id, del)
    BY <1>2 DEF Serve, SubmitRecord, ViewJobs, ViewCapture, RetryDelete
  <2> QED  BY <1>t, <2>1, DeletedJob DEF JobMoved
<1>3. CASE Request
  <2>1. job' = job \/ \E id, del : DeleteJob(id, del)
    BY <1>3 DEF Request, SubmitCheck, ViewRead, Retry, Dismiss, DeleteAccount
  <2> QED  BY <1>t, <2>1, DeletedJob DEF JobMoved
<1>4. CASE Cluster
  <2> DEFINE j == job[i]
  <2>1. ASSUME NEW id \in Ids, JobStart(id) PROVE JobMoved(i)
    <3>1. job'[i] = j \/ job'[i] = [j EXCEPT !.phase = "running"]  BY <1>t, <2>1 DEF JobStart
    <3>2. j \in Job  BY <1>t
    <3>3. [j EXCEPT !.phase = "running"].kind = j.kind /\ [j EXCEPT !.phase = "running"].phase = "running"
      <4> HIDE DEF j
      <4> QED  BY <3>2 DEF Job
    <3> QED  BY <3>1, <3>3 DEF JobMoved
  <2>2. ASSUME NEW id \in Ids, JobSucceed(id) PROVE JobMoved(i)
    <3>1. job'[i] = j \/ (i = id /\ job'[i] = [j EXCEPT !.phase = "succeeded"])
      BY <1>t, <2>2 DEF JobSucceed
    <3>2. j \in Job  BY <1>t
    <3>3. [j EXCEPT !.phase = "succeeded"].kind = j.kind
      <4> HIDE DEF j
      <4> QED  BY <3>2 DEF Job
    <3>4. job[id].kind = "download" => id \in saved'  BY <2>2 DEF JobSucceed
    <3> QED  BY <3>1, <3>3, <3>4 DEF JobMoved
  <2>3. ASSUME NEW id \in Ids, NEW why \in Causes, JobFail(id, why) PROVE JobMoved(i)
    <3>1. \/ job'[i] = j
          \/ i = id /\ job'[i] = [[j EXCEPT !.phase = "failed"] EXCEPT !.why = why]
      BY <1>t, <2>3 DEF JobFail, Job
    <3>2. j \in Job  BY <1>t
    <3> DEFINE k == [[j EXCEPT !.phase = "failed"] EXCEPT !.why = why]
    <3>3. k.kind = j.kind /\ k.phase = "failed"
      <4> HIDE DEF j
      <4> QED  BY <3>2 DEF Job
    <3> QED  BY <3>1, <3>3 DEF JobMoved
  <2>4. ASSUME NEW id \in Ids, JobGone(id) PROVE JobMoved(i)
    BY <1>t, <2>4 DEF JobGone, JobMoved
  <2>5. ASSUME NEW id \in Ids, CoolDown(id) \/ Restart PROVE JobMoved(i)
    BY <2>5 DEF CoolDown, Restart, JobMoved
  <2> QED  BY <1>4, <2>1, <2>2, <2>3, <2>4, <2>5 DEF Cluster, JobEnd
<1>5. CASE UNCHANGED vars  BY <1>5 DEF vars, JobMoved
<1> QED  BY <1>1, <1>2, <1>3, <1>4, <1>5 DEF Next

LEMMA KeepsJobShape == ASSUME IInv, [Next]_vars PROVE JobShape'
<1> DEFINE Good(id, j) == j.kind = "download" => NotGroup(id) /\ (j.phase = "succeeded" => id \in saved)
<1>n. NoJob.kind = "none"  BY DEF NoJob
<1>1. \A id \in Ids : Good(id, job[id]) /\ Good(id, live[id])  BY DEF IInv, JobShape
<1>2. ASSUME NEW id \in Ids PROVE Good(id, job[id])' /\ Good(id, live[id])'
  <2>1. NotGroup(id) => NotGroup(id)'  BY Stable
  <2>2. id \in saved => id \in saved'  BY SavedGrows
  <2>3. Good(id, job[id])'
    BY <1>1, <1>n, <2>1, <2>2, JobSteps DEF JobMoved
  <2>4. live'[id] = live[id] \/ live'[id] = job[id] \/ live'[id] = NoJob
    BY PhaseSteps DEF Proceeds, CycleBegin, Restart, PhaseEnd
  <2>5. Good(id, live[id])'  BY <1>1, <1>n, <2>1, <2>2, <2>4
  <2> QED  BY <2>3, <2>5
<1> QED  BY <1>2 DEF JobShape

-----------------------------------------------------------------------------
LEMMA KeepsViewShape == ASSUME IInv, [Next]_vars PROVE ViewShape'
<1> DEFINE Good(v) ==
      /\ v.id # 0 /\ NotGroup(v.id)
      /\ v.job # NoJob => Terminal(v.job) /\ (v.job.phase = "succeeded" => v.id \in saved)
<1>t. TypeOK /\ RowShape /\ JobShape /\ viewer \in [Pages -> View]  BY DEF IInv, TypeOK
<1>1. \A p \in Pages : viewer[p] # NotViewing => Good(viewer[p])  BY DEF IInv, ViewShape
<1> SUFFICES ASSUME NEW p \in Pages, viewer'[p] # NotViewing PROVE Good(viewer[p])'
  BY DEF ViewShape
<1>2. CASE viewer'[p] = viewer[p]
  <2>1. viewer[p].id \in Ids  BY <1>1, <1>2, <1>t DEF View, Ids
  <2>2. NotGroup(viewer[p].id)'  BY <1>1, <1>2, <2>1, Stable DEF NotGroup
  <2> QED  BY <1>1, <1>2, <2>2, SavedGrows
<1>3. ASSUME NEW q \in Pages, NEW id \in Ids, ViewRead(q, id), viewer'[p] # viewer[p]
      PROVE  Good(viewer[p])'
  <2> DEFINE r == rec[id]
  <2>1. viewer'[p] = [id |-> id, row |-> r, job |-> NoJob]  BY <1>3, <1>t DEF ViewRead
  <2>2. NotGroup(id)  BY <1>3, <1>t DEF ViewRead, RowShape, NotGroup, Exists
  <2>3. id # 0  BY DEF Ids
  <2>4. rec' = rec /\ issued' = issued  BY <1>3 DEF ViewRead, store
  <2>5. viewer'[p].id = id /\ viewer'[p].job = NoJob
    <3> HIDE DEF r
    <3> QED  BY <2>1
  <2>6. NotGroup(id)'  BY <2>2, <2>4 DEF NotGroup
  <2> QED  BY <2>3, <2>5, <2>6 DEF NotGroup
<1>4. ASSUME NEW q \in Pages, ViewJobs(q), viewer'[p] # viewer[p]
      PROVE  Good(viewer[p])'
  <2> DEFINE v == viewer[p]
             j == job[v.id]
             w == [v EXCEPT !.job = j]
  <2>1. /\ viewer[p] # NotViewing /\ viewer'[p] = w
        /\ j.kind = "download" /\ Terminal(j)
    BY <1>4, <1>t DEF ViewJobs
  <2>2. v.id # 0 /\ NotGroup(v.id)  BY <1>1, <2>1
  <2>3. v \in View  BY <1>t
  <2>4. v.id \in Ids  BY <2>2, <2>3 DEF View
  <2>5. j.phase = "succeeded" => v.id \in saved  BY <1>t, <2>1, <2>4 DEF JobShape
  <2>6. w.id = v.id /\ w.job = j
    <3> HIDE DEF v, j
    <3> QED  BY <2>3 DEF View
  <2>7. rec' = rec /\ issued' = issued /\ saved' = saved  BY <1>4 DEF ViewJobs, store
  <2> HIDE DEF v, j, w
  <2>8. viewer'[p].id = v.id /\ viewer'[p].job = j  BY <2>1, <2>6
  <2> QED  BY <2>1, <2>2, <2>5, <2>7, <2>8 DEF NotGroup
<1>5. viewer'[p] # viewer[p] =>
        \E q \in Pages : ViewJobs(q) \/ \E id \in Ids : ViewRead(q, id)
  <2>1. CASE Reconcile  BY <2>1, CycleFrame
  <2>2. CASE Serve
    <3>1. ASSUME NEW q \in Pages, NEW ok, ViewCapture(q, ok) PROVE viewer'[p] = viewer[p]
      BY <3>1, <1>t DEF ViewCapture
    <3> QED  BY <2>2, <3>1 DEF Serve, SubmitRecord, RetryDelete, reconciler
  <2>3. CASE Request
    BY <2>3 DEF Request, SubmitCheck, Retry, Dismiss, DeleteAccount, handlers
  <2>4. CASE Cluster
    <3>1. CASE Restart  BY <3>1 DEF Restart
    <3> QED
      BY <2>4, <3>1 DEF Cluster, JobStart, JobEnd, JobSucceed, JobFail, JobGone, CoolDown, handlers
  <2>5. CASE UNCHANGED vars  BY <2>5 DEF vars, handlers
  <2> QED  BY <2>1, <2>2, <2>3, <2>4, <2>5 DEF Next
<1> QED  BY <1>2, <1>3, <1>4, <1>5
-----------------------------------------------------------------------------
\* Who writes that a row is completed: a capture whose worker has saved its files, or the groups
\* phase for a group whose items have.
Claimed(id) ==
  \/ rec[id].kind # "group" /\ id \in saved
  \/ rec[id].kind = "group" /\ pc = "groups" /\ Items(id) \subseteq saved

LEMMA CompletedWritten ==
  ASSUME TypeOK, NEW id \in Ids, NEW state, NEW reason, NEW stamp,
         rec' = rec \/ rec' = SetYtdlState(id, state, reason, stamp),
         NEW i \in Ids, rec[i].state # "completed", rec'[i].state = "completed"
  PROVE  i = id /\ state = "completed" /\ Exists(id)
BY StateWritten

LEMMA CaptureCompleted ==
  ASSUME TypeOK, NEW id \in Ids, NEW row, NEW state, NEW reason,
         rec' = rec \/ rec' = CaptureTerminal(id, row, state, reason),
         NEW i \in Ids, rec[i].state # "completed", rec'[i].state = "completed"
  PROVE  i = id /\ state = "completed" /\ Exists(id)
BY CaptureWritten

LEMMA CompletedMeans == \A j : StateOf(j) = "completed" => j.phase = "succeeded"
BY DEF StateOf

LEMMA CompletedSteps ==
  ASSUME IInv, [Next]_vars, NEW i \in Ids, rec[i].state # "completed", rec'[i].state = "completed"
  PROVE  Exists(i) /\ Claimed(i)
<1> USE DEF store, handlers, Take
<1>t. TypeOK /\ RowShape /\ PhaseShape /\ JobShape /\ ViewShape  BY DEF IInv
<1>n. NoRow.state = "none"  BY DEF NoRow
<1>j. ~Joins
  <2>1. Joins => Joined(i)  BY DEF Joins
  <2> QED  BY <2>1 DEF Joined, Born, Again, Expanded
<1>c. ~Claims
  <2> SUFFICES ASSUME NEW c \in Ids, AdmitClaim(c) PROVE FALSE  BY DEF Claims
  <2>1. rec' = MarkYtdlAdmitted(c)  BY DEF AdmitClaim
  <2> QED  BY <1>t, <2>1, ClaimWritten
<1>d. ~Dismisses  BY <1>n DEF Dismisses, DeleteYtdlDownload
<1>1. ASSUME NEW id, NEW ok,
             \/ CycleBegin \/ PhaseEnd(ok) \/ Skip(id) \/ CaptureRead(id) \/ SweepStep(id, ok)
             \/ ExpandPending(id)
      PROVE  FALSE
  BY <1>1 DEF CycleBegin, PhaseEnd, Skip, CaptureRead, SweepStep, ExpandPending
<1>2. ASSUME NEW id \in Ids, NEW ok,
             \/ VanishStep(id, ok) \/ ExpandStart(id, ok) \/ ExpandFailed(id, ok)
             \/ ExpandUnreadable(id)
      PROVE  FALSE
  <2>1. \E reason : rec' = rec \/ rec' = SetYtdlState(id, "failed", reason, TRUE)
    BY <1>2 DEF VanishStep, ExpandStart, ExpandFailed, ExpandUnreadable
  <2> QED  BY <1>t, <2>1, CompletedWritten
<1>3. ASSUME NEW ok, AdmitCreate(ok) PROVE FALSE
  <2>1. held.id \in Ids  BY <1>3, <1>t DEF AdmitCreate, TypeOK, Held
  <2>2. rec' = rec \/ rec' = SetYtdlState(held.id, "failed", "other", TRUE)
    BY <1>3 DEF AdmitCreate
  <2> QED  BY <1>t, <2>1, <2>2, CompletedWritten
<1>4. ASSUME NEW heard, NEW recorded, NEW deleted, CaptureWrite(heard, recorded, deleted)
      PROVE  Exists(i) /\ Claimed(i)
  <2>1. pc = "capture" /\ held.id \in Ids /\ held.id \in Pending
    BY <1>4, <1>t DEF CaptureWrite, TypeOK, Held, Pending, Ids
  <2>2. \E reason : rec' = rec \/ rec' = CaptureTerminal(held.id, held.row, StateOf(live[held.id]), reason)
    BY <1>4 DEF CaptureWrite
  <2>3. i = held.id /\ Exists(i) /\ StateOf(live[i]) = "completed"
    BY <1>t, <2>1, <2>2, CaptureCompleted
  <2>4. live[i].kind = "download"  BY <1>t, <2>1, <2>3 DEF PhaseShape
  <2>5. NotGroup(i) /\ i \in saved  BY <1>t, <2>3, <2>4, CompletedMeans DEF JobShape
  <2> QED  BY <2>3, <2>5 DEF Claimed, NotGroup
<1>5. ASSUME NEW ok \in BOOLEAN, GroupWrite(ok) PROVE Exists(i) /\ Claimed(i)
  <2> DEFINE g == held.id
  <2>1. g \in Ids /\ pc = "groups" /\ g # 0 /\ (Exists(g) => rec[g].kind = "group")
    BY <1>5, HeldGroup DEF GroupWrite
  <2>2. \/ rec' = rec \/ rec' = SetYtdlState(g, held.row.state, held.row.reason, TRUE)
        \/ rec' = ReopenYtdlGroup(g)
    BY <1>5 DEF GroupWrite
  <2>3. rec' # ReopenYtdlGroup(g)  BY <1>t, <2>1, ReopenWritten
  <2>4. i = g /\ held.row.state = "completed" /\ Exists(g)
    BY <1>t, <2>1, <2>2, <2>3, CompletedWritten
  <2>5. Items(g) \subseteq saved  BY <1>t, <2>1, <2>4 DEF PhaseShape
  <2> QED  BY <2>1, <2>4, <2>5 DEF Claimed
<1>6. ASSUME NEW g \in Ids, GroupCount(g) PROVE FALSE
  <2>1. rec' = rec \/ rec' = ReopenYtdlGroup(g)  BY <1>6 DEF GroupCount
  <2> QED  BY <1>t, <2>1, ReopenWritten
<1>7. ASSUME NEW id \in Ids, RetryStep(id) \/ AdmitClaim(id) PROVE FALSE
  <2>1. RetryStep(id)  BY <1>7, <1>c DEF Claims
  <2>2. rec' = RequeueYtdl(id)  BY <2>1 DEF RetryStep
  <2> QED  BY <1>t, <2>2, RequeueWritten
<1>8. ASSUME NEW g \in Ids, NEW entries \in SUBSET Videos, NEW known, NEW deleted,
             ExpandInto(g, entries, known, deleted)
      PROVE  FALSE
  <2> DEFINE fresh == {key \in entries : known => ~AlreadyHeld(key)}
             n     == Cardinality(fresh)
  <2>1. n \in Nat  BY FS_Subset, FS_CardinalityType, YtdlAssumption
  <2>2. PICK place \in [fresh -> 1..n] : rec' = CreateYtdlItems(g, place)
    BY <1>8 DEF ExpandInto
  <2>3. \A key, s : NewItem(g, key, s).state = "queued"  BY DEF NewItem
  <2> HIDE DEF fresh, n
  <2> QED  BY <1>t, <2>1, <2>2, <2>3, ItemsWritten
<1>9. CASE Reconcile
  BY <1>9, <1>1, <1>2, <1>3, <1>4, <1>5, <1>6, <1>7, <1>8 DEF Reconcile
<1>10. ASSUME NEW p \in Pages, NEW ok, ViewCapture(p, ok) PROVE Exists(i) /\ Claimed(i)
  <2> DEFINE v == viewer[p]
  <2>1. v.job # NoJob  BY <1>10 DEF ViewCapture
  <2>2. v # NotViewing
    <3>1. NotViewing.job = NoJob  BY DEF NotViewing
    <3> QED  BY <2>1, <3>1
  <2>3. v.id # 0 /\ NotGroup(v.id) /\ (v.job.phase = "succeeded" => v.id \in saved)
    BY <1>t, <2>1, <2>2 DEF ViewShape
  <2>4. v.id \in Ids  BY <1>t, <2>3 DEF TypeOK, View
  <2>5. \E reason : rec' = rec \/ rec' = CaptureTerminal(v.id, v.row, StateOf(v.job), reason)
    BY <1>10 DEF ViewCapture
  <2> HIDE DEF v
  <2>6. i = v.id /\ StateOf(v.job) = "completed" /\ Exists(i)
    BY <1>t, <2>4, <2>5, CaptureCompleted
  <2> QED  BY <2>3, <2>6, CompletedMeans DEF Claimed, NotGroup
<1>11. ASSUME Serve, \A p \in Pages : \A ok : ~ViewCapture(p, ok) PROVE FALSE
  <2>1. ASSUME NEW u \in Users, SubmitRecord(u) PROVE FALSE
    <3> DEFINE row == [kind |-> IF submits[u] \in Lists THEN "group" ELSE "single", user |-> u,
                       key |-> submits[u], parent |-> 0,
                       state |-> IF submits[u] \in Lists THEN "resolving" ELSE "queued",
                       reason |-> "", attempts |-> 1, seq |-> NextSeq, finished |-> "absent"]
    <3>2. rec' = rec \/ rec' = [rec EXCEPT ![issued + 1] = row]  BY <2>1 DEF SubmitRecord
    <3>3. row.state # "completed"  OBVIOUS
    <3> HIDE DEF row
    <3> QED  BY <1>t, <3>2, <3>3 DEF TypeOK
  <2> QED  BY <1>11, <2>1 DEF Serve, ViewJobs, RetryDelete
<1>12. CASE Request
  <2>1. ASSUME NEW id \in Ids, Retry(id) PROVE FALSE
    <3>1. rec' = RequeueYtdl(id)  BY <2>1 DEF Retry
    <3> QED  BY <1>t, <3>1, RequeueWritten
  <2>2. ASSUME NEW id \in Ids, NEW ok \in BOOLEAN, Dismiss(id, ok) PROVE FALSE
    BY <2>2, <1>d DEF Dismiss, Dismisses
  <2>3. ASSUME NEW u \in Users, DeleteAccount(u) PROVE FALSE
    <3>1. rec'[i] = rec[i] \/ rec'[i] = [rec[i] EXCEPT !.user = NoUser]  BY <2>3 DEF DeleteAccount
    <3> QED  BY <1>t, <3>1, AgedWritten
  <2> QED  BY <1>12, <2>1, <2>2, <2>3 DEF Request, SubmitCheck, ViewRead
<1>13. CASE Cluster
  <2>1. ASSUME NEW id \in Ids, CoolDown(id) PROVE FALSE
    <3>1. rec' = [rec EXCEPT ![id].finished = "past"]  BY <2>1 DEF CoolDown
    <3>2. i # id => rec'[i] = rec[i]  BY <1>t, <3>1 DEF TypeOK
    <3> QED  BY <1>t, <3>1, <3>2, AgedWritten
  <2> QED
    BY <1>13, <2>1 DEF Cluster, JobStart, JobEnd, JobSucceed, JobFail, JobGone, Restart
<1>14. CASE UNCHANGED vars  BY <1>14 DEF vars
<1> QED  BY <1>9, <1>10, <1>11, <1>12, <1>13, <1>14 DEF Next

\* Only an expansion gives a group an item.
LEMMA ItemsShrink ==
  ASSUME IInv, [Next]_vars, NEW g \in Ids, pc # "expand" \/ rec[g].state # "resolving"
  PROVE  Items(g)' \subseteq Items(g)
<1>1. NoRow.kind = "none"  BY DEF NoRow
<1>2. ~Expanded(g) \/ pc # "expand"  BY DEF Expanded
<1> SUFFICES ASSUME NEW i \in Ids, rec'[i].kind = "item", rec'[i].parent = g
             PROVE  rec[i].kind = "item" /\ rec[i].parent = g
  BY DEF Items
<1>3. Moved(i)  BY RowSteps
<1> QED  BY <1>1, <1>2, <1>3 DEF Moved, Born

LEMMA KeepsSaved == ASSUME IInv, [Next]_vars PROVE NeverClaimsUnsaved'
<1>t. TypeOK /\ RowShape /\ NeverClaimsUnsaved  BY DEF IInv
<1>n. NoRow.state = "none"  BY DEF NoRow
<1>s. saved \subseteq saved'  BY SavedGrows
<1> SUFFICES ASSUME NEW id \in Ids, rec'[id].state = "completed"
             PROVE  IF rec'[id].kind = "group" THEN Items(id)' \subseteq saved' ELSE id \in saved'
  BY DEF NeverClaimsUnsaved
<1>1. Exists(id)  BY CompletedSteps, StatesExist, <1>t
<1>2. rec'[id].kind = rec[id].kind
  <2>1. ~Born(id)  BY DEF Born
  <2> QED  BY <1>n, <2>1, RowSteps DEF Moved
<1>3. CASE rec[id].state = "completed"
  <2>1. IF rec[id].kind = "group" THEN Items(id) \subseteq saved ELSE id \in saved
    BY <1>t, <1>3 DEF NeverClaimsUnsaved
  <2>2. Items(id)' \subseteq Items(id)  BY <1>3, ItemsShrink
  <2> QED  BY <1>2, <1>s, <2>1, <2>2
<1>4. CASE rec[id].state # "completed"
  <2>1. Claimed(id)  BY <1>4, CompletedSteps
  <2>2. pc = "groups" => Items(id)' \subseteq Items(id)  BY ItemsShrink
  <2> QED  BY <1>2, <1>s, <2>1, <2>2 DEF Claimed
<1> QED  BY <1>3, <1>4
-----------------------------------------------------------------------------
\* Only three actions take hold of a row, and what they hold was on the list.
LEMMA HeldSteps ==
  ASSUME [Next]_vars
  PROVE  \/ held' = held \/ held' = Nothing
         \/ \E id \in Ids : CaptureRead(id) \/ GroupCount(id) \/ AdmitClaim(id)
<1>1. ASSUME UNCHANGED reconciler PROVE held' = held  BY <1>1 DEF reconciler
<1>2. CASE Reconcile
  <2>1. ASSUME NEW id, NEW ok,
               \/ CycleBegin \/ PhaseEnd(ok) \/ Skip(id) \/ VanishStep(id, ok)
               \/ ExpandStart(id, ok) \/ ExpandFailed(id, ok) \/ ExpandPending(id)
               \/ ExpandUnreadable(id)
        PROVE  held' = held
    BY <2>1 DEF CycleBegin, PhaseEnd, Skip, VanishStep, ExpandStart, ExpandFailed, ExpandPending,
                ExpandUnreadable
  <2>2. ASSUME NEW id, NEW ok, RetryStep(id) \/ SweepStep(id, ok) PROVE held' = held
    BY <2>2 DEF RetryStep, SweepStep
  <2>3. ASSUME NEW ok, GroupWrite(ok) \/ AdmitCreate(ok) PROVE held' = Nothing
    BY <2>3 DEF GroupWrite, AdmitCreate
  <2>4. ASSUME NEW g, NEW entries, NEW known, NEW deleted, ExpandInto(g, entries, known, deleted)
        PROVE  held' = held
    BY <2>4 DEF ExpandInto
  <2>5. ASSUME NEW heard, NEW recorded, NEW deleted, CaptureWrite(heard, recorded, deleted)
        PROVE  held' = Nothing
    BY <2>5 DEF CaptureWrite
  <2> QED  BY <1>2, <2>1, <2>2, <2>3, <2>4, <2>5 DEF Reconcile
<1>3. CASE Serve
  BY <1>1, <1>3 DEF Serve, SubmitRecord, ViewJobs, ViewCapture, RetryDelete
<1>4. CASE Request
  BY <1>1, <1>4 DEF Request, SubmitCheck, ViewRead, Retry, Dismiss, DeleteAccount
<1>5. CASE Cluster
  BY <1>1, <1>5 DEF Cluster, JobStart, JobEnd, JobSucceed, JobFail, JobGone, CoolDown, Restart
<1>6. CASE UNCHANGED vars  BY <1>6, <1>1 DEF vars
<1> QED  BY <1>2, <1>3, <1>4, <1>5, <1>6 DEF Next

\* While the groups that resolve are worked through, nobody else ends one of them.
LEMMA ResolvingStays ==
  ASSUME IInv, [Next]_vars, pc = "expand", NEW g \in Ids,
         g \in todo', Exists(g), rec[g].state = "resolving"
  PROVE  Exists(g)' => rec'[g].state = "resolving"
<1> USE DEF store, handlers, reconciler, Take
<1>t. TypeOK /\ RowShape /\ PhaseShape /\ ViewShape /\ rec \in [Ids -> Row]  BY DEF IInv, TypeOK
<1>k. rec[g].kind = "group" /\ g <= issued /\ issued \in Int  BY <1>t DEF RowShape, TypeOK
<1>n. NoRow.kind = "none"  BY DEF NoRow
<1> SUFFICES ASSUME rec'[g] # rec[g], rec'[g] # NoRow PROVE rec'[g].state = "resolving"
  BY <1>n DEF Exists
<1>1. ASSUME NEW id, NEW ok,
             \/ CycleBegin \/ PhaseEnd(ok) \/ Skip(id) \/ CaptureRead(id) \/ RetryStep(id)
             \/ GroupCount(id) \/ GroupWrite(ok) \/ SweepStep(id, ok) \/ AdmitClaim(id)
             \/ AdmitCreate(ok) \/ ExpandPending(id) \/ VanishStep(id, ok)
      PROVE  FALSE
  BY <1>1 DEF CycleBegin, PhaseEnd, Skip, CaptureRead, RetryStep, GroupCount, GroupWrite, SweepStep,
              AdmitClaim, AdmitCreate, ExpandPending, VanishStep
<1>2. ASSUME NEW heard, NEW recorded, NEW deleted, CaptureWrite(heard, recorded, deleted)
      PROVE  FALSE
  BY <1>2 DEF CaptureWrite
<1>3. ASSUME NEW id \in Ids, NEW ok,
             ExpandStart(id, ok) \/ ExpandFailed(id, ok) \/ ExpandUnreadable(id)
      PROVE  FALSE
  <2>1. id # g  BY <1>3 DEF ExpandStart, ExpandFailed, ExpandUnreadable
  <2>2. rec' = rec \/ rec' = SetYtdlState(id, "failed", "other", TRUE)
    BY <1>3 DEF ExpandStart, ExpandFailed, ExpandUnreadable
  <2> QED  BY <1>t, <2>1, <2>2, OthersStay
<1>4. ASSUME NEW id \in Ids, NEW entries \in SUBSET Videos, NEW known, NEW deleted,
             ExpandInto(id, entries, known, deleted)
      PROVE  FALSE
  <2> DEFINE fresh == {key \in entries : known => ~AlreadyHeld(key)}
             n     == Cardinality(fresh)
  <2>1. n \in Nat  BY FS_Subset, FS_CardinalityType, YtdlAssumption
  <2>2. id # g  BY <1>4 DEF ExpandInto
  <2>3. PICK place \in [fresh -> 1..n] : rec' = CreateYtdlItems(id, place)
    BY <1>4 DEF ExpandInto
  <2>4. \A key \in fresh : place[key] \in 1..n  OBVIOUS
  <2> HIDE DEF fresh, n
  <2>5. \A key \in fresh : g # issued + place[key]  BY <1>k, <2>1, <2>4 DEF Ids
  <2> QED  BY <1>t, <2>1, <2>2, <2>3, <2>5, OtherRowsStay
<1>5. CASE Reconcile  BY <1>1, <1>2, <1>3, <1>4, <1>5 DEF Reconcile
<1>6. CASE Serve
  <2>1. ASSUME NEW p \in Pages, NEW ok, ViewCapture(p, ok) PROVE FALSE
    <3> DEFINE v == viewer[p]
    <3>1. v.job # NoJob  BY <2>1 DEF ViewCapture
    <3>2. v # NotViewing
      <4>1. NotViewing.job = NoJob  BY DEF NotViewing
      <4> QED  BY <3>1, <4>1
    <3>3. v.id # 0 /\ NotGroup(v.id)  BY <1>t, <3>1, <3>2 DEF ViewShape
    <3>4. v.id \in Ids /\ v.id # g  BY <1>t, <1>k, <3>3 DEF TypeOK, View, NotGroup
    <3>5. rec' = rec \/ \E row, state, reason : rec' = CaptureTerminal(v.id, row, state, reason)
      BY <2>1 DEF ViewCapture
    <3> HIDE DEF v
    <3> QED  BY <1>t, <3>4, <3>5, CaptureWritten
  <2>2. ASSUME NEW u \in Users, SubmitRecord(u) PROVE FALSE
    <3>1. rec' = rec \/ \E row : rec' = [rec EXCEPT ![issued + 1] = row]  BY <2>2 DEF SubmitRecord
    <3>2. g # issued + 1  BY <1>k DEF Ids
    <3> QED  BY <1>t, <3>1, <3>2
  <2> QED  BY <1>6, <2>1, <2>2 DEF Serve, ViewJobs, RetryDelete
<1>7. CASE Request
  <2>1. ASSUME NEW id \in Ids, Retry(id) PROVE FALSE
    <3>1. rec' = RequeueYtdl(id)  BY <2>1 DEF Retry
    <3> QED  BY <1>t, <3>1, RequeueWritten
  <2>2. ASSUME NEW id \in Ids, NEW ok, Dismiss(id, ok) PROVE FALSE
    BY <2>2 DEF Dismiss, DeleteYtdlDownload
  <2>3. ASSUME NEW u \in Users, DeleteAccount(u) PROVE rec'[g].state = "resolving"
    <3>1. rec'[g] = rec[g] \/ rec'[g] = [rec[g] EXCEPT !.user = NoUser]  BY <2>3 DEF DeleteAccount
    <3> QED  BY <1>t, <3>1, AgedWritten
  <2> QED  BY <1>7, <2>1, <2>2, <2>3 DEF Request, SubmitCheck, ViewRead
<1>8. CASE Cluster
  <2>1. ASSUME NEW id \in Ids, CoolDown(id) PROVE FALSE
    <3>1. rec' = [rec EXCEPT ![id].finished = "past"] /\ id # g
      BY <2>1 DEF CoolDown, AwaitingRetry
    <3> QED  BY <1>t, <3>1
  <2> QED
    BY <1>8, <2>1 DEF Cluster, JobStart, JobEnd, JobSucceed, JobFail, JobGone, Restart
<1>9. CASE UNCHANGED vars  BY <1>9 DEF vars
<1> QED  BY <1>5, <1>6, <1>7, <1>8, <1>9 DEF Next

\* What a phase finds when it begins is what PhaseShape says of its list.
LEMMA AgendaShape ==
  ASSUME TypeOK, RowShape
  PROVE  /\ \A id \in Agenda("expand") : id <= issued /\ rec[id].state = "resolving"
         /\ \A id \in Agenda("retry") \cup Agenda("admit") : NotGroup(id)
         /\ \A id \in Agenda("groups") : ExpandedOrGone(id)
<1>1. \A id \in Ids : Exists(id) => id <= issued  BY DEF RowShape
<1>2. \A id \in Agenda("expand") : id <= issued /\ rec[id].state = "resolving"
  BY <1>1 DEF Agenda, Exists
<1>3. \A id \in Agenda("groups") : ExpandedOrGone(id)
  BY <1>1 DEF Agenda, ActiveGroups, ExpandedOrGone, Exists
<1>4. \A id \in Agenda("retry") : NotGroup(id)
  BY <1>1, StatesExist DEF Agenda, RetryDue, AwaitingRetry, NotGroup
<1>5. \A id \in Agenda("admit") : NotGroup(id)
  <2> DEFINE admitted == Admit(QueuedCandidates, Limit - Cardinality(Running))
  <2>1. admitted \subseteq QueuedCandidates  BY DEF Admit, Attributed
  <2>2. \A c \in QueuedCandidates : c.id \in Ids /\ rec[c.id].state = "queued"
    BY DEF QueuedCandidates
  <2>3. \A id \in Ids : rec[id].state = "queued" => NotGroup(id)
    BY <1>1, StatesExist DEF RowShape, NotGroup
  <2>4. Agenda("admit") = {c.id : c \in admitted}  BY DEF Agenda
  <2> HIDE DEF admitted
  <2> QED  BY <2>1, <2>2, <2>3, <2>4
<1> QED  BY <1>2, <1>3, <1>4, <1>5

LEMMA KeepsPhaseShape == ASSUME IInv, [Next]_vars PROVE PhaseShape'
<1>t. TypeOK /\ RowShape /\ PhaseShape /\ NeverClaimsUnsaved  BY DEF IInv
<1>0. Nothing.id = 0  BY DEF Nothing
<1>1. CASE Proceeds
  <2>1. held'.id = held.id \/ held'.id = 0 \/ held'.id \in todo  BY <1>0, <1>1 DEF Proceeds
  <2>2. pc' = pc /\ live' = live /\ todo' \subseteq todo /\ Pending' \subseteq Pending
    BY <1>1, <2>1 DEF Proceeds, Pending
  <2>3. Pending \subseteq Ids  BY <1>t DEF Pending, TypeOK, Held
  <2>4. held' # Nothing => pc' \in {"capture", "groups", "admit"}
    BY <1>t, <2>2, HeldSteps DEF PhaseShape, CaptureRead, GroupCount, AdmitClaim
  <2>5. pc = "capture" => \A id \in Pending' : Terminal(live[id]) /\ live[id].kind = "download"
    BY <1>t, <2>2 DEF PhaseShape
  <2>6. ASSUME pc = "expand", NEW g \in todo'
        PROVE  g <= issued' /\ (Exists(g)' => rec'[g].state = "resolving")
    <3>1. g \in Ids /\ g \in todo /\ g <= issued /\ (Exists(g) => rec[g].state = "resolving")
      BY <1>t, <2>2, <2>6 DEF PhaseShape, TypeOK
    <3>2. g <= issued'
      <4>1. issued' \in issued..MaxRequests /\ issued \in Int  BY <1>t, RowSteps DEF TypeOK
      <4> QED  BY <3>1, <4>1, YtdlAssumption DEF Ids
    <3>3. CASE Exists(g)  BY <2>6, <3>1, <3>2, <3>3, ResolvingStays
    <3>4. CASE ~Exists(g)  BY <3>1, <3>2, <3>4, Stable
    <3> QED  BY <3>3, <3>4
  <2>7. pc = "retry" => \A id \in todo' : NotGroup(id)'
    BY <1>t, <2>2, Stable DEF PhaseShape, TypeOK
  <2>8. pc = "groups" => \A g \in Pending' : ExpandedOrGone(g)'
    BY <1>t, <2>2, <2>3, Stable DEF PhaseShape, ExpandedOrGone
  <2>9. pc = "admit" => \A id \in Pending' : NotGroup(id)'
    BY <1>t, <2>2, <2>3, Stable DEF PhaseShape
  <2>10. ASSUME pc = "groups", held'.id # 0
         PROVE  /\ Final(held'.row.state)
                /\ held'.row.state = "completed" => Items(held.id)' \subseteq saved'
    <3>s. saved \subseteq saved'  BY SavedGrows
    <3>1. CASE held' = held
      <4>1. /\ Final(held.row.state) /\ held.id \in Ids
            /\ held.row.state = "completed" => Items(held.id) \subseteq saved
        BY <1>t, <2>10, <3>1 DEF PhaseShape, TypeOK, Held
      <4>2. \A g \in Ids : Items(g)' \subseteq Items(g)  BY <2>10, ItemsShrink
      <4> QED  BY <3>1, <3>s, <4>1, <4>2 DEF Items
    <3>2. ASSUME NEW g \in Ids, GroupCount(g), held' # held
          PROVE  /\ Final(held'.row.state)
                 /\ held'.row.state = "completed" => Items(held.id)' \subseteq saved'
      <4> DEFINE v == GroupVerdict(g)
      <4>1. /\ held' = [id |-> g, row |-> v]
            /\ ~\E i \in Items(g) : ~Final(rec[i].state) \/ AwaitingRetry(i)
        BY <3>2 DEF GroupCount
      <4>2. /\ Final(v.state)
            /\ v.state = "completed" => ~\E i \in Items(g) : rec[i].state = "failed"
        <5> DEFINE r == rec[g]
        <5>1. r \in Row  BY <1>t DEF TypeOK
        <5>2. v = IF \E i \in Items(g) : rec[i].state = "failed"
                  THEN [r EXCEPT !.state = "failed", !.reason = "other"]
                  ELSE [r EXCEPT !.state = "completed", !.reason = ""]
          BY DEF GroupVerdict
        <5> HIDE DEF r, v
        <5>3. /\ [r EXCEPT !.state = "failed", !.reason = "other"].state = "failed"
              /\ [r EXCEPT !.state = "completed", !.reason = ""].state = "completed"
          BY <5>1 DEF Row
        <5> QED  BY <5>2, <5>3 DEF Final
      <4> HIDE DEF v
      <4>3. held'.id = g /\ held'.row = v  BY <4>1
      <4>4. v.state = "completed" => \A i \in Items(g) : rec[i].state = "completed"
        BY <4>1, <4>2 DEF Final
      <4>5. v.state = "completed" => Items(g) \subseteq saved
        BY <1>t, <4>4 DEF NeverClaimsUnsaved, Items
      <4>6. Items(g)' \subseteq Items(g)  BY <2>10, ItemsShrink
      <4>7. v.state = "completed" => Items(g)' \subseteq saved'  BY <3>s, <4>5, <4>6
      <4> QED  BY <4>2, <4>3, <4>7 DEF Items
    <3>3. \/ held' = held
          \/ \E g \in Ids : GroupCount(g)
      BY <1>0, <2>10, HeldSteps DEF CaptureRead, AdmitClaim
    <3> QED  BY <3>1, <3>2, <3>3
  <2>11. /\ (held # Nothing => pc \in {"capture", "groups", "admit"})'
         /\ (pc = "capture" => \A id \in Pending : Terminal(live[id]) /\ live[id].kind = "download")'
    BY <2>2, <2>4, <2>5
  <2>12. (pc = "expand" => \A g \in todo : g <= issued /\ (Exists(g) => rec[g].state = "resolving"))'
    BY <2>2, <2>6
  <2>13. /\ (pc = "retry" => \A id \in todo : NotGroup(id))'
         /\ (pc = "admit" => \A id \in Pending : NotGroup(id))'
    BY <2>2, <2>7, <2>9
  <2>14. (pc = "groups" => \A g \in Pending :
            g <= issued /\ (Exists(g) => rec[g].kind = "group" /\ rec[g].state # "resolving"))'
    BY <2>2, <2>8 DEF ExpandedOrGone
  <2>15. (pc = "groups" /\ held.id # 0 =>
            Final(held.row.state) /\ (held.row.state = "completed" => Items(held.id) \subseteq saved))'
    BY <2>2, <2>10
  <2> QED  BY <2>11, <2>12, <2>13, <2>14, <2>15 DEF PhaseShape
<1>2. CASE CycleBegin
  <2>1. held = Nothing /\ held' = Nothing  BY <1>2, <1>t DEF CycleBegin, PhaseShape
  <2>2. Pending' = todo'  BY <1>0, <2>1 DEF Pending
  <2>3. pc' = "capture" /\ live' = job
        /\ todo' = {id \in Ids : job[id].kind = "download" /\ Terminal(job[id])}
    BY <1>2 DEF CycleBegin
  <2> QED  BY <2>1, <2>2, <2>3 DEF PhaseShape
<1>3. CASE Restart
  <2>1. pc' = "idle" /\ held' = Nothing  BY <1>3 DEF Restart
  <2> QED  BY <2>1 DEF PhaseShape
<1>4. ASSUME NEW read \in BOOLEAN, PhaseEnd(read) PROVE PhaseShape'
  <2>1. /\ held' = Nothing /\ (todo' = {} \/ todo' = Agenda(pc'))
        /\ pc' \in {"idle", "vanish", "expand", "retry", "groups", "sweep", "admit"}
        /\ rec' = rec /\ issued' = issued
    BY <1>4 DEF PhaseEnd, PhaseAfter, store
  <2>2. Pending' = todo'  BY <1>0, <2>1 DEF Pending
  <2>3. /\ \A id \in Agenda("expand") : id <= issued /\ rec[id].state = "resolving"
        /\ \A id \in Agenda("retry") \cup Agenda("admit") : NotGroup(id)
        /\ \A id \in Agenda("groups") : ExpandedOrGone(id)
    BY <1>t, AgendaShape
  <2> QED
    BY <1>0, <2>1, <2>2, <2>3 DEF PhaseShape, NotGroup, ExpandedOrGone, Exists
<1> QED  BY <1>1, <1>2, <1>3, <1>4, PhaseSteps

-----------------------------------------------------------------------------
\* Who removes a worker that is there: the cluster or a retry, by name; a dismissal that takes a
\* finished one along; or the cycle, in one of the phases that clear up.
LetGo(id) ==
  \/ JobGone(id)
  \/ id \in retries \ retries'
  \/ Terminal(job[id]) /\ rec'[id] = NoRow
  \/ id = held.id /\ \E heard, deleted \in BOOLEAN : CaptureWrite(heard, TRUE, deleted)
  \/ pc = "expand" /\ id \in todo /\ Terminal(live[id])
  \/ pc = "sweep" /\ id \in todo /\ ~Exists(id)

\* What becomes of the worker that carries a name, whoever it was created for.
JobTurned(id) ==
  \/ job'[id] = job[id]
  \/ job[id] # NoJob /\ ~Terminal(job[id]) /\ job'[id] # NoJob
  \/ job[id] = NoJob /\ (pc = "admit" \/ (pc = "expand" /\ live[id] = NoJob))
  \/ job'[id] = NoJob /\ LetGo(id)

LEMMA DeletedByName ==
  ASSUME TypeOK, NEW id, NEW ok, DeleteJob(id, ok), NEW i \in Ids
  PROVE  job'[i] = job[i] \/ (i = id /\ ok = TRUE /\ job'[i] = NoJob)
BY DEF DeleteJob, TypeOK

LEMMA CycleTurns == ASSUME IInv, Reconcile, NEW i \in Ids PROVE JobTurned(i)
<1>t. TypeOK  BY DEF IInv
<1>1. ASSUME NEW id, NEW ok,
             \/ CycleBegin \/ PhaseEnd(ok) \/ Skip(id) \/ CaptureRead(id) \/ RetryStep(id)
             \/ GroupCount(id) \/ GroupWrite(ok) \/ AdmitClaim(id) \/ VanishStep(id, ok)
             \/ ExpandPending(id) \/ ExpandUnreadable(id)
      PROVE  job' = job
  BY <1>1 DEF CycleBegin, PhaseEnd, Skip, CaptureRead, RetryStep, GroupCount, GroupWrite,
              AdmitClaim, VanishStep, ExpandPending, ExpandUnreadable
<1>2. ASSUME NEW id \in Ids, NEW ok \in BOOLEAN, SweepStep(id, ok) PROVE JobTurned(i)
  <2>1. pc = "sweep" /\ id \in todo /\ DeleteJob(id, ok /\ ~Exists(id))
    BY <1>2 DEF SweepStep, Take
  <2> QED  BY <1>t, <2>1, DeletedByName DEF JobTurned, LetGo
<1>3. ASSUME NEW g \in Ids, NEW ok \in BOOLEAN, ExpandFailed(g, ok) PROVE JobTurned(i)
  <2>1. pc = "expand" /\ g \in todo /\ Terminal(live[g]) /\ DeleteJob(g, ok)
    BY <1>3 DEF ExpandFailed, Take, Terminal
  <2> QED  BY <1>t, <2>1, DeletedByName DEF JobTurned, LetGo
<1>4. ASSUME NEW heard \in BOOLEAN, NEW recorded \in BOOLEAN, NEW deleted \in BOOLEAN,
             CaptureWrite(heard, recorded, deleted)
      PROVE  JobTurned(i)
  <2>1. CASE recorded
    <3>1. DeleteJob(held.id, deleted)  BY <1>4, <2>1 DEF CaptureWrite
    <3> QED  BY <1>t, <1>4, <2>1, <3>1, DeletedByName DEF JobTurned, LetGo
  <2>2. CASE ~recorded  BY <1>4, <2>2 DEF CaptureWrite, JobTurned
  <2> QED  BY <2>1, <2>2
<1>5. ASSUME NEW g \in Ids, NEW entries, NEW known, NEW deleted,
             ExpandInto(g, entries, known, deleted)
      PROVE  JobTurned(i)
  <2>1. pc = "expand" /\ g \in todo /\ Terminal(live[g])  BY <1>5 DEF ExpandInto, Take, Terminal
  <2>2. job' = job \/ \E ok : DeleteJob(g, ok)  BY <1>5 DEF ExpandInto
  <2> QED  BY <1>t, <2>1, <2>2, DeletedByName DEF JobTurned, LetGo
<1>6. ASSUME NEW g \in Ids, NEW ok, ExpandStart(g, ok) PROVE JobTurned(i)
  <2>1. pc = "expand" /\ live[g] = NoJob  BY <1>6 DEF ExpandStart
  <2>2. job' = job \/ (job[g] = NoJob /\ \E j : job' = [job EXCEPT ![g] = j])
    BY <1>6 DEF ExpandStart
  <2> QED  BY <1>t, <2>1, <2>2 DEF JobTurned, TypeOK
<1>7. ASSUME NEW ok, AdmitCreate(ok) PROVE JobTurned(i)
  <2>1. pc = "admit"  BY <1>7 DEF AdmitCreate
  <2>2. job' = job \/ (job[held.id] = NoJob /\ \E j : job' = [job EXCEPT ![held.id] = j])
    BY <1>7 DEF AdmitCreate
  <2> QED  BY <1>t, <2>1, <2>2 DEF JobTurned, TypeOK
<1> QED  BY <1>1, <1>2, <1>3, <1>4, <1>5, <1>6, <1>7 DEF Reconcile, JobTurned

LEMMA JobTurns == ASSUME IInv, [Next]_vars, NEW i \in Ids PROVE JobTurned(i)
<1>t. TypeOK /\ job \in [Ids -> Job]  BY DEF IInv, TypeOK
<1>n. NoJob.phase = "none"  BY DEF NoJob
<1>1. CASE Reconcile  BY <1>1, CycleTurns
<1>2. CASE Serve
  <2>1. ASSUME NEW id \in Ids, NEW ok, RetryDelete(id, ok) PROVE JobTurned(i)
    <3>1. id \in retries \ retries' /\ DeleteJob(id, ok)  BY <2>1 DEF RetryDelete
    <3> QED  BY <1>t, <3>1, DeletedByName DEF JobTurned, LetGo
  <2>2. ASSUME NEW u, NEW p, NEW ok, SubmitRecord(u) \/ ViewJobs(p) \/ ViewCapture(p, ok)
        PROVE  job' = job
    BY <2>2 DEF SubmitRecord, ViewJobs, ViewCapture
  <2> QED  BY <1>2, <2>1, <2>2 DEF Serve, JobTurned
<1>3. CASE Request
  <2>1. ASSUME NEW id \in Ids, NEW ok \in BOOLEAN, Dismiss(id, ok) PROVE JobTurned(i)
    <3>1. DeleteJob(id, ok /\ Terminal(job[id])) /\ rec'[id] = NoRow
      BY <2>1 DEF Dismiss, DeleteYtdlDownload
    <3> QED  BY <1>t, <3>1, DeletedByName DEF JobTurned, LetGo
  <2>2. ASSUME NEW u, NEW key, NEW p, NEW id, NEW ok,
               SubmitCheck(u, key, ok) \/ ViewRead(p, id) \/ Retry(id) \/ DeleteAccount(u)
        PROVE  job' = job
    BY <2>2 DEF SubmitCheck, ViewRead, Retry, DeleteAccount
  <2> QED  BY <1>3, <2>1, <2>2 DEF Request, JobTurned
<1>4. CASE Cluster
  <2> DEFINE j == job[i]
  <2>0. j \in Job  BY <1>t
  <2>1. ASSUME NEW id \in Ids, JobStart(id) PROVE JobTurned(i)
    <3>1. \/ job'[i] = j
          \/ j.phase = "pending" /\ job'[i] = [j EXCEPT !.phase = "running"]
      BY <1>t, <2>1 DEF JobStart
    <3>2. [j EXCEPT !.phase = "running"].phase = "running"
      <4> HIDE DEF j
      <4> QED  BY <2>0 DEF Job
    <3> QED  BY <1>n, <3>1, <3>2 DEF JobTurned, Terminal
  <2>2. ASSUME NEW id \in Ids, JobSucceed(id) PROVE JobTurned(i)
    <3>1. \/ job'[i] = j
          \/ j.phase = "running" /\ job'[i] = [j EXCEPT !.phase = "succeeded"]
      BY <1>t, <2>2 DEF JobSucceed
    <3>2. [j EXCEPT !.phase = "succeeded"].phase = "succeeded"
      <4> HIDE DEF j
      <4> QED  BY <2>0 DEF Job
    <3> QED  BY <1>n, <3>1, <3>2 DEF JobTurned, Terminal
  <2>3. ASSUME NEW id \in Ids, NEW why \in Causes, JobFail(id, why) PROVE JobTurned(i)
    <3> DEFINE k == [[j EXCEPT !.phase = "failed"] EXCEPT !.why = why]
    <3>1. job'[i] = j \/ (j.phase \in {"pending", "running"} /\ job'[i] = k)
      BY <1>t, <2>3 DEF JobFail, Job
    <3>2. k.phase = "failed"
      <4> HIDE DEF j
      <4> QED  BY <2>0 DEF Job
    <3> HIDE DEF k
    <3> QED  BY <1>n, <3>1, <3>2 DEF JobTurned, Terminal
  <2>4. ASSUME NEW id \in Ids, JobGone(id) PROVE JobTurned(i)
    <3>1. job'[i] = job[i] \/ (i = id /\ job'[i] = NoJob)  BY <1>t, <2>4 DEF JobGone
    <3> QED  BY <2>4, <3>1 DEF JobTurned, LetGo
  <2>5. ASSUME NEW id \in Ids, CoolDown(id) \/ Restart PROVE JobTurned(i)
    BY <2>5 DEF CoolDown, Restart, JobTurned
  <2> QED  BY <1>4, <2>1, <2>2, <2>3, <2>4, <2>5 DEF Cluster, JobEnd
<1>5. CASE UNCHANGED vars  BY <1>5 DEF vars, JobTurned
<1> QED  BY <1>1, <1>2, <1>3, <1>4, <1>5 DEF Next

LEMMA KeepsEvidenceShape == ASSUME IInv, [Next]_vars PROVE EvidenceShape'
<1>t. TypeOK /\ EvidenceShape /\ NoJob.phase = "none" /\ Nothing.id = 0
  BY DEF IInv, NoJob, Nothing
<1>1. CASE Proceeds
  <2>0. pc' = pc /\ live' = live /\ todo' \subseteq todo  BY <1>1 DEF Proceeds
  <2>1. ASSUME pc \notin {"idle", "admit"}, NEW id \in Ids, Terminal(live[id])
        PROVE  job'[id] = live[id] \/ job'[id] = NoJob
    <3>1. job[id] = live[id] \/ job[id] = NoJob  BY <1>t, <2>1 DEF EvidenceShape
    <3>2. live[id] # NoJob  BY <1>t, <2>1 DEF Terminal
    <3> QED  BY <2>1, <3>1, <3>2, JobTurns DEF JobTurned
  <2>2. ASSUME pc = "capture", held'.id # 0, Final(held'.row.state) PROVE held'.id \notin Running'
    <3>1. Running' \subseteq Running  BY <2>2, RunningSteps
    <3>2. CASE held' = held  BY <1>t, <2>2, <3>1, <3>2 DEF EvidenceShape
    <3>3. ASSUME NEW id \in Ids, CaptureRead(id), held' # held PROVE held'.id \notin Running
      <4>1. held' = [id |-> id, row |-> rec[id]]  BY <3>3 DEF CaptureRead
      <4>2. held'.id = id /\ held'.row = rec[id]  BY <4>1
      <4> QED  BY <2>2, <4>2 DEF Running, Final
    <3> QED  BY <1>t, <2>2, <3>1, <3>2, <3>3, HeldSteps DEF GroupCount, AdmitClaim
  <2> QED  BY <1>t, <2>0, <2>1, <2>2 DEF EvidenceShape
<1>2. CASE CycleBegin
  <2>1. held = Nothing /\ held' = Nothing  BY <1>2 DEF CycleBegin, IInv, PhaseShape
  <2> QED  BY <1>t, <1>2, <2>1 DEF CycleBegin, EvidenceShape
<1>3. CASE Restart  BY <1>3 DEF Restart, EvidenceShape
<1>4. ASSUME NEW read \in BOOLEAN, PhaseEnd(read) PROVE EvidenceShape'
  <2>1. /\ held' = Nothing /\ job' = job /\ pc # "idle" /\ pc' = PhaseAfter(pc)
        /\ todo' = {} \/ todo' = Agenda(pc')
        /\ pc' # "idle" => live' = live
    BY <1>4 DEF PhaseEnd
  <2>2. pc' # "idle" => pc # "admit"  BY <2>1 DEF PhaseAfter
  <2>3. ASSUME pc' = "sweep" PROVE \A id \in todo' : Terminal(live'[id])
    BY <2>1, <2>3 DEF Agenda
  <2> QED  BY <1>t, <2>1, <2>2, <2>3 DEF EvidenceShape
<1> QED  BY <1>1, <1>2, <1>3, <1>4, PhaseSteps

-----------------------------------------------------------------------------
\* The invariant holds at first, and every step keeps it.
LEMMA IInvInit == Init => IInv
<1> SUFFICES ASSUME Init PROVE IInv  OBVIOUS
<1>1. TypeOK  BY TInit DEF TInv
<1>2. \A id \in Ids : rec[id] = NoRow /\ NoRow.kind = "none" /\ NoRow.state = "none"
  BY DEF Init, NoRow
<1>3. NoJob.kind = "none"  BY DEF NoJob
<1>4. RowShape /\ QueueSeqUnique /\ NoOrphanItems /\ NeverClaimsUnsaved
  BY <1>2 DEF RowShape, QueueSeqUnique, NoOrphanItems, NeverClaimsUnsaved, Exists
<1>5. JobShape /\ ViewShape  BY <1>3 DEF Init, JobShape, ViewShape
<1>6. PhaseShape /\ EvidenceShape  BY DEF Init, PhaseShape, EvidenceShape, Nothing
<1>7. SlotShape
  <2>1. Running = {}  BY <1>2 DEF Running
  <2>2. Cardinality(Running) = 0  BY <2>1, FS_EmptySet
  <2>3. pc = "idle"  BY DEF Init
  <2> QED  BY <2>2, <2>3, Finite DEF SlotShape
<1> QED  BY <1>1, <1>4, <1>5, <1>6, <1>7 DEF IInv

LEMMA IInvStep == IInv /\ [Next]_vars => IInv'
<1> SUFFICES ASSUME IInv, [Next]_vars PROVE IInv'  OBVIOUS
<1>1. TypeOK'  BY KeepsTypes
<1> QED
  BY <1>1, KeepsRowShape, KeepsPhaseShape, KeepsJobShape, KeepsViewShape, KeepsEvidenceShape,
     KeepsSlotShape, KeepsSeqUnique, KeepsItems, KeepsSaved DEF IInv

(***************************************************************************)
(* The whole invariant, which the run ytdl_invariant checks on a small     *)
(* instance: what every phase, page and job may rely on about the rows it  *)
(* looked at earlier, whatever the handlers did in between.                *)
(***************************************************************************)
THEOREM Invariant == Spec => []IInv
BY IInvInit, IInvStep, PTL DEF Spec

(***************************************************************************)
(* Never more rows in a slot than the limit allows, for any number of      *)
(* users, requests, failures and restarts: admitQueued counts once and     *)
(* claims one by one, and no handler or phase puts a row into a slot.      *)
(***************************************************************************)
THEOREM SlotsAreLimited == Spec => []SlotLimit
<1>1. IInv => SlotLimit  BY DEF IInv, SlotShape, SlotLimit
<1> QED  BY <1>1, Invariant, PTL

(***************************************************************************)
(* Queue numbers tell the rows apart although MAX + 1 hands a number out   *)
(* again after a dismissal.                                                *)
(***************************************************************************)
THEOREM NumbersAreUnique == Spec => []QueueSeqUnique
<1>1. IInv => QueueSeqUnique  BY DEF IInv
<1> QED  BY <1>1, Invariant, PTL

(***************************************************************************)
(* Every item has its group, and the group has been expanded, although     *)
(* groups are dismissed while their expansion is being written.            *)
(***************************************************************************)
THEOREM ItemsHaveGroups == Spec => []NoOrphanItems
<1>1. IInv => NoOrphanItems  BY DEF IInv
<1> QED  BY <1>1, Invariant, PTL

(***************************************************************************)
(* A row never claims completed for what no worker saved (0012 FR-018):    *)
(* captureTerminal and refreshGroups write what they read some steps ago,  *)
(* but what a worker has saved stays saved and an expanded group gets no   *)
(* further items.                                                          *)
(***************************************************************************)
THEOREM CompletedIsSaved == Spec => []NeverClaimsUnsaved
<1>1. IInv => NeverClaimsUnsaved  BY DEF IInv
<1> QED  BY <1>1, Invariant, PTL

\* What a removal of a worker that is there comes down to.
LEMMA RemovedIsLetGo ==
  ASSUME IInv, [Next]_vars, NEW id \in Ids, Removed(id)
  PROVE  LetGo(id)
BY JobTurns DEF Removed, JobTurned

(***************************************************************************)
(* No worker is stranded mid-write: what the cycle clears up it saw        *)
(* finished when the cycle began, and until the cycle admits again no new  *)
(* attempt can have taken the name; a dismissal looks at the worker first. *)
(* Only the cluster and the retry handler remove one that still works.     *)
(***************************************************************************)
THEOREM NobodyIsStranded == Spec => NoWorkerStranded
<1> DEFINE Kept1 == \A id \in Ids : Removed(id) /\ ~Terminal(job[id]) =>
                      JobGone(id) \/ id \in retries \ retries'
<1>1. ASSUME IInv, [Next]_vars PROVE Kept1
  <2> SUFFICES ASSUME NEW id \in Ids, Removed(id), ~Terminal(job[id])
               PROVE  JobGone(id) \/ id \in retries \ retries'
    OBVIOUS
  <2>1. LetGo(id)  BY <1>1, RemovedIsLetGo
  <2>2. pc \notin {"idle", "admit"} => ~Terminal(live[id])
    BY <1>1 DEF IInv, EvidenceShape, Removed
  <2>3. CASE id = held.id /\ \E heard, deleted \in BOOLEAN : CaptureWrite(heard, TRUE, deleted)
    <3>1. pc = "capture" /\ held.id # 0  BY <2>3 DEF CaptureWrite
    <3> QED  BY <1>1, <2>2, <2>3, <3>1 DEF IInv, PhaseShape, Pending
  <2>4. CASE pc = "sweep" /\ id \in todo
    BY <1>1, <2>2, <2>4 DEF IInv, EvidenceShape
  <2> QED  BY <2>1, <2>2, <2>3, <2>4 DEF LetGo
<1> HIDE DEF Kept1
<1>2. IInv /\ [Next]_vars => [Kept1]_vars  BY <1>1
<1>3. Spec => [][Kept1]_vars  BY <1>2, Invariant, PTL DEF Spec
<1> QED  BY <1>3 DEF Kept1, NoWorkerStranded

(***************************************************************************)
(* The evidence of an ending outlives the row's ignorance of it: as long   *)
(* as the row says the download runs, its finished worker is removed only  *)
(* in the step that records the ending or takes the row away, although     *)
(* what captureFinished writes it read before handlers changed the row.    *)
(***************************************************************************)
THEOREM EvidenceIsKept == Spec => EvidenceKept
<1> DEFINE Told(id) == \/ Final(rec'[id].state) \/ rec'[id] = NoRow
                       \/ JobGone(id) \/ id \in retries \ retries'
           Kept2 == \A id \in Ids : Removed(id) /\ Terminal(job[id]) /\ id \in Running => Told(id)
<1>1. ASSUME IInv, [Next]_vars PROVE Kept2
  <2> SUFFICES ASSUME NEW id \in Ids, Removed(id), id \in Running PROVE Told(id)
    OBVIOUS
  <2>1. LetGo(id)  BY <1>1, RemovedIsLetGo
  <2>2. Exists(id) /\ TypeOK
    <3>1. NoRow.state = "none"  BY DEF NoRow
    <3>2. TypeOK /\ (~Exists(id) => rec[id] = NoRow)  BY <1>1 DEF IInv, RowShape
    <3> QED  BY <3>1, <3>2 DEF Running
  <2>3. ASSUME NEW heard \in BOOLEAN, NEW deleted \in BOOLEAN, id = held.id,
               CaptureWrite(heard, TRUE, deleted)
        PROVE  Final(rec'[id].state)
    <3> DEFINE state == StateOf(live[id])
               reason == CaptureReason(id, held.row, heard)
    <3>1. /\ pc = "capture" /\ id # 0
          /\ rec' = CaptureTerminal(id, held.row, state, reason)
      BY <2>3 DEF CaptureWrite
    <3>2. Terminal(live[id])  BY <1>1, <2>3, <3>1 DEF IInv, PhaseShape, Pending
    <3>3. Final(state)  BY <3>2 DEF StateOf, Terminal, Final
    <3>4. held.row.state # state
      BY <1>1, <2>3, <3>1, <3>3 DEF IInv, EvidenceShape
    <3> HIDE DEF state, reason
    <3>5. rec' = SetYtdlState(id, state, reason, TRUE)
      BY <3>1, <3>3, <3>4 DEF CaptureTerminal
    <3>6. rec' = [rec EXCEPT ![id] = Written(rec[id], state, reason, TRUE)]
      BY <2>2, <3>5 DEF SetYtdlState
    <3>7. Written(rec[id], state, reason, TRUE).state = state
      <4> DEFINE r == rec[id]
      <4>1. r \in Row  BY <2>2 DEF TypeOK
      <4>2. Written(r, state, reason, TRUE) =
              [[[r EXCEPT !.state = state] EXCEPT !.reason = reason] EXCEPT !.finished = "recent"]
        BY <4>1 DEF Written, Row
      <4> HIDE DEF r
      <4>3. [[[r EXCEPT !.state = state] EXCEPT !.reason = reason] EXCEPT !.finished = "recent"].state
              = state
        BY <4>1 DEF Row
      <4> QED  BY <4>2, <4>3 DEF r
    <3> QED  BY <2>2, <3>3, <3>6, <3>7 DEF TypeOK
  <2>4. pc = "expand" /\ id \in todo => id \notin Running
    BY <1>1, <2>2 DEF IInv, PhaseShape, Running
  <2> QED  BY <2>1, <2>2, <2>3, <2>4 DEF LetGo
<1> HIDE DEF Kept2
<1>2. IInv /\ [Next]_vars => [Kept2]_vars  BY <1>1
<1>3. Spec => [][Kept2]_vars  BY <1>2, Invariant, PTL DEF Spec
<1> QED  BY <1>3 DEF Kept2, EvidenceKept

-----------------------------------------------------------------------------
Waiting == {id \in Ids : rec[id].state = "queued"}

\* The abstract module's own count is the count.
LEMMA SameCount == ASSUME NEW S PROVE Slots!Cardinality(S) = Cardinality(S)
BY DEF Slots!Cardinality, Cardinality

LEMMA JoinsJoin == ASSUME IInv, Joins PROVE Slots!Join
<1>1. TypeOK /\ RowShape  BY DEF IInv
<1>2. \A id \in Ids : Born(id) => rec[id] = NoRow
  <2> SUFFICES ASSUME NEW id \in Ids, Born(id) PROVE rec[id] = NoRow  OBVIOUS
  <2>1. issued < id /\ issued \in Int /\ id \in Int
    BY <1>1, YtdlAssumption DEF Born, TypeOK, Ids
  <2>2. ~(id <= issued)  BY <2>1
  <2> QED  BY <1>1, <2>2 DEF RowShape
<1>3. NoRow.state = "none"  BY DEF NoRow
<1>4. \A id \in Ids : Joined(id)  BY DEF Joins
<1>5. ASSUME NEW id \in Ids
      PROVE  /\ id \in Waiting => id \in Waiting'
             /\ id \in Waiting' => id \notin Running
             /\ id \in Running' <=> id \in Running
  <2>1. CASE Born(id)
    <3>1. rec[id].state = "none"  BY <1>2, <1>3, <2>1
    <3>2. rec'[id].state \notin {"scheduled", "downloading"}  BY <2>1 DEF Born
    <3> QED  BY <3>1, <3>2 DEF Waiting, Running
  <2>2. CASE Again(id)  BY <2>2 DEF Again, Waiting, Running
  <2>3. CASE Expanded(id)
    <3>1. rec[id].kind = "group"  BY <1>1, <2>3 DEF RowShape, Expanded
    <3> QED  BY <2>3, <3>1 DEF Expanded, Kept, Waiting, Running
  <2>4. CASE rec'[id] = rec[id]  BY <2>4 DEF Waiting, Running
  <2> QED  BY <1>4, <2>1, <2>2, <2>3, <2>4 DEF Joined
<1>6. Waiting \subseteq Waiting' /\ Waiting' \subseteq Ids \ Running  BY <1>5 DEF Waiting
<1>7. Running' = Running  BY <1>5 DEF Running
<1> QED  BY <1>6, <1>7 DEF Slots!Join, Waiting

LEMMA ClaimsStart ==
  ASSUME IInv, Claims
  PROVE  (\E id \in Waiting : Slots!Start(id)) \/ UNCHANGED <<Waiting, Running>>
<1>1. TypeOK /\ RowShape /\ SlotShape  BY DEF IInv
<1>2. PICK id \in Ids : AdmitClaim(id)  BY DEF Claims
<1>3. pc = "admit" /\ id \in todo /\ rec' = MarkYtdlAdmitted(id)  BY <1>2 DEF AdmitClaim, Take
<1>4. \A i \in Ids : i # id => rec'[i] = rec[i]  BY <1>1, <1>3, ClaimWritten
<1>5. CASE rec'[id] = rec[id]  BY <1>4, <1>5 DEF Waiting, Running
<1>6. CASE rec'[id] # rec[id]
  <2>1. /\ rec[id].state = "queued" /\ rec'[id].state = "scheduled"
        /\ rec'[id].kind = rec[id].kind
    BY <1>1, <1>3, <1>6, ClaimWritten DEF Kept
  <2>2. rec[id].kind # "group"  BY <1>1, <2>1 DEF RowShape
  <2>3. id \in Waiting  BY <2>1 DEF Waiting
  <2>4. Waiting' = Waiting \ {id} /\ Running' = Running \cup {id}
    BY <1>4, <2>1, <2>2 DEF Waiting, Running
  <2>5. Cardinality(Running) < Limit
    <3>1. Running \subseteq Ids /\ todo \subseteq Ids  BY <1>1 DEF Running, TypeOK
    <3>2. /\ IsFiniteSet(todo) /\ Cardinality(todo) \in Nat
          /\ Cardinality(Running) \in Nat /\ Limit \in Nat
      BY <3>1, Finite
    <3>3. Cardinality(todo) # 0  BY <1>3, <3>2, FS_EmptySet
    <3>4. Cardinality(Running) + Cardinality(todo) <= Limit  BY <1>1, <1>3 DEF SlotShape
    <3> QED  BY <3>2, <3>3, <3>4
  <2> QED  BY <2>3, <2>4, <2>5, SameCount DEF Slots!Start, Waiting
<1> QED  BY <1>5, <1>6

LEMMA OthersLeave == ASSUME IInv, Leaves \/ Dismisses PROVE Slots!Leave
<1>1. NoRow.state = "none"  BY DEF NoRow
<1>2. CASE Leaves
  <2> SUFFICES ASSUME NEW id \in Ids
               PROVE  /\ id \in Waiting' => id \in Waiting
                      /\ id \in Running' => id \in Running
    BY DEF Slots!Leave, Waiting, Running
  <2>1. Left(id)  BY <1>2 DEF Leaves
  <2> QED  BY <2>1 DEF Left, Kept, Final, Waiting, Running
<1>3. CASE Dismisses
  BY <1>1, <1>3 DEF Dismisses, DeleteYtdlDownload, Slots!Leave, Waiting, Running
<1> QED  BY <1>2, <1>3

LEMMA SlotsInit == Init => Slots!Init
<1> SUFFICES ASSUME Init PROVE Slots!Init  OBVIOUS
<1>1. \A id \in Ids : rec[id] = NoRow  BY DEF Init
<1>2. NoRow.state = "none"  BY DEF NoRow
<1> QED  BY <1>1, <1>2 DEF Slots!Init, Running

LEMMA SlotsStep == IInv /\ [Next]_vars => [Slots!Next]_(Slots!SlotVars)
<1> SUFFICES ASSUME IInv, [Next]_vars PROVE [Slots!Next]_(Slots!SlotVars)  OBVIOUS
<1>1. CASE Joins  BY <1>1, JoinsJoin DEF Slots!Next
<1>2. CASE Claims  BY <1>2, ClaimsStart DEF Slots!Next, Slots!SlotVars, Waiting
<1>3. CASE Leaves \/ Dismisses  BY <1>3, OthersLeave DEF Slots!Next
<1> QED  BY <1>1, <1>2, <1>3, Kinds

(***************************************************************************)
(* The queue with its rows, workers, cycles and handlers is a line in      *)
(* front of a limited number of slots: a download starts only from the     *)
(* line, only through an admission, and only when a slot is free; no       *)
(* handler, failure or restart starts one.                                 *)
(***************************************************************************)
THEOREM ImplementsSlots == Spec => KeepsSlots
BY SlotsInit, SlotsStep, Invariant, PTL DEF Spec, KeepsSlots, Slots!Spec

-----------------------------------------------------------------------------
(***************************************************************************)
(* The waiting line by itself (YtdlQueue): what any sequence of admissions *)
(* promises.  The line's numbers tell its candidates apart, and the last   *)
(* batch is what Admit chose of it; the three properties of one admission  *)
(* follow from the theorems about Admit.                                   *)
(***************************************************************************)
VARIABLES queue, running, lastSeq, passed

Q == INSTANCE YtdlQueue WITH MaxQueued <- MaxRequests

\* The line counts as its neighbours do, and what its cycles call is the Admit of the first part.
LEMMA SameLineCount == ASSUME NEW S PROVE Q!Cardinality(S) = Cardinality(S)
BY DEF Q!Cardinality, Cardinality

LEMMA SameAdmit == ASSUME NEW queued, NEW slots PROVE Q!Admit(queued, slots) = Admit(queued, slots)
<1>1. \A c, d : Q!Ahead(c, d) <=> Ahead(c, d)  BY DEF Q!Ahead, Ahead
<1>2. Q!Attributed(queued) = Attributed(queued)  BY DEF Q!Attributed, Attributed
<1>3. \A c : Q!Rivals(queued, c) = Rivals(queued, c)  BY <1>1, <1>2 DEF Q!Rivals, Rivals
<1>4. \A c : Q!Round(queued, c) = Round(queued, c)  BY <1>3, SameLineCount DEF Q!Round, Round
<1>5. \A c, d : Q!UserBefore(queued, c, d) <=> UserBefore(queued, c, d)
  BY <1>2, <1>4 DEF Q!UserBefore, UserBefore
<1>6. \A c, d : Q!DealtBefore(queued, c, d) <=> DealtBefore(queued, c, d)
  BY <1>4, <1>5 DEF Q!DealtBefore, DealtBefore
<1>7. \A c : Q!Position(queued, c) = Position(queued, c)
  BY <1>2, <1>6, SameLineCount DEF Q!Position, Position
<1> QED  BY <1>2, <1>7 DEF Q!Admit, Admit

\* The numbers in the line have been handed out, and the line is well formed.
QueueShape ==
  /\ Line(queue)
  /\ \A c \in queue : c.seq <= lastSeq

\* The last admission was Admit's answer to a well-formed line.
LastBatch ==
  /\ Line(batch.queued)
  /\ batch.admitted = Admit(batch.queued, batch.slots)

LineInv == Q!TypeOK /\ QueueShape /\ LastBatch /\ IsFiniteSet(running)

LEMMA QueueLimit == Q!Limit \in Nat \ {0}
BY YtdlAssumption DEF Q!Limit

\* A candidate has an integer to be told apart by.
LEMMA CandidateLine ==
  ASSUME NEW q \in SUBSET Q!Candidate, IsFiniteSet(q), \A c, d \in q : c.seq = d.seq => c = d
  PROVE  Line(q)
BY YtdlAssumption DEF Line, Q!Candidate

LEMMA LineInit == Q!Init => LineInv
<1> SUFFICES ASSUME Q!Init PROVE LineInv  OBVIOUS
<1> USE DEF Q!Init, Q!NoBatch
<1>1. Q!TypeOK
  BY QueueLimit, YtdlAssumption DEF Q!TypeOK
<1>2. QueueShape  BY FS_EmptySet DEF QueueShape, Line
<1>3. LastBatch  BY FS_EmptySet DEF LastBatch, Line, Admit, Attributed
<1> QED  BY <1>1, <1>2, <1>3, FS_EmptySet DEF LineInv

LEMMA LineStep == LineInv /\ [Q!Next]_(Q!vars) => LineInv'
<1> SUFFICES ASSUME LineInv, [Q!Next]_(Q!vars) PROVE LineInv'  OBVIOUS
<1> USE YtdlAssumption, QueueLimit
<1>0. /\ Q!TypeOK /\ Line(queue) /\ (\A c \in queue : c.seq <= lastSeq) /\ LastBatch
      /\ IsFiniteSet(running) /\ queue \subseteq Q!Candidate /\ lastSeq \in 0..MaxRequests
  BY DEF LineInv, QueueShape, Q!TypeOK
<1>1. ASSUME NEW u \in Users, NEW direct \in BOOLEAN, Q!Enqueue(u, direct) PROVE LineInv'
  <2> DEFINE new == [id |-> lastSeq + 1, user |-> u, direct |-> direct, seq |-> lastSeq + 1]
  <2>1. new \in Q!Candidate  BY <1>0, <1>1 DEF Q!Enqueue, Q!Candidate
  <2>2. queue' = queue \cup {new} /\ lastSeq' = lastSeq + 1  BY <1>1 DEF Q!Enqueue
  <2>3. queue' \subseteq Q!Candidate /\ lastSeq' \in 0..MaxRequests
    BY <1>0, <1>1, <2>1, <2>2 DEF Q!Enqueue
  <2>4. IsFiniteSet(queue')  BY <1>0, <2>2, FS_AddElement DEF Line
  <2>5. \A c \in queue : c.seq \in Int /\ c.seq < new.seq  BY <1>0 DEF Line
  <2>6. \A c, d \in queue' : c.seq = d.seq => c = d  BY <1>0, <2>2, <2>5 DEF Line
  <2>7. \A c \in queue' : c.seq <= lastSeq'  BY <1>0, <2>2, <2>5
  <2>8. Line(queue')
    <3> HIDE DEF new
    <3> QED  BY <2>3, <2>4, <2>6, CandidateLine
  <2>9. Q!TypeOK'  BY <1>0, <1>1, <2>3 DEF Q!Enqueue, Q!TypeOK
  <2> QED  BY <1>0, <1>1, <2>7, <2>8, <2>9 DEF Q!Enqueue, LineInv, QueueShape, LastBatch
<1>2. ASSUME NEW u \in Users, Q!DeleteAccount(u) PROVE LineInv'
  <2> DEFINE Orphan(c) == [c EXCEPT !.user = IF @ = u THEN NoUser ELSE @]
  <2>1. queue' = {Orphan(c) : c \in queue}  BY <1>2 DEF Q!DeleteAccount
  <2>2. \A c \in queue : Orphan(c) \in Q!Candidate /\ Orphan(c).seq = c.seq
    BY <1>0 DEF Q!Candidate
  <2>3. queue' \subseteq Q!Candidate  BY <2>1, <2>2
  <2>4. IsFiniteSet(queue')
    <3> DEFINE orphan == [c \in queue |-> Orphan(c)]
    <3>1. orphan \in Surjection(queue, queue')  BY <2>1 DEF Surjection
    <3>2. IsFiniteSet(queue)  BY <1>0 DEF Line
    <3> HIDE DEF orphan
    <3> QED  BY <3>1, <3>2, FS_Surjection
  <2>5. ASSUME NEW c \in queue', NEW d \in queue', c.seq = d.seq PROVE c = d
    <3>1. PICK e \in queue, f \in queue : c = Orphan(e) /\ d = Orphan(f)  BY <2>1
    <3>2. e.seq = f.seq  BY <2>2, <2>5, <3>1
    <3>3. e = f  BY <1>0, <3>2 DEF Line
    <3> QED  BY <3>1, <3>3
  <2>6. \A c \in queue' : c.seq <= lastSeq'  BY <1>0, <1>2, <2>1, <2>2 DEF Q!DeleteAccount
  <2>7. Line(queue')  BY <2>3, <2>4, <2>5, CandidateLine
  <2>8. Q!TypeOK'  BY <1>0, <1>2, <2>3 DEF Q!DeleteAccount, Q!TypeOK
  <2> QED  BY <1>0, <1>2, <2>6, <2>7, <2>8 DEF Q!DeleteAccount, LineInv, QueueShape, LastBatch
<1>3. ASSUME Q!AdmitQueued PROVE LineInv'
  <2> DEFINE free == Q!Limit - Cardinality(running)
             admitted == Admit(queue, free)
  <2>1. Cardinality(running) \in Nat  BY <1>0, FS_CardinalityType
  <2>2. free \in 1..Q!Limit
    <3>1. free > 0  BY <1>3, SameLineCount DEF Q!AdmitQueued
    <3> QED  BY <2>1, <3>1, QueueLimit
  <2>3. IsFiniteSet(admitted) /\ admitted \subseteq queue  BY <1>0, <2>2, AdmitFitsSlots
  <2>4. /\ queue' = queue \ admitted /\ running' = running \cup admitted /\ lastSeq' = lastSeq
        /\ batch' = [queued |-> queue, slots |-> free, admitted |-> admitted]
        /\ passed' = [u \in Users |->
                        IF Q!Served(u, admitted) \/ ~Q!Waiting(u, queue) THEN 0
                        ELSE passed[u] + Cardinality(admitted)]
    <3>1. Q!Cardinality(running) = Cardinality(running)  BY SameLineCount
    <3>2. Q!Admit(queue, free) = admitted  BY SameAdmit
    <3>3. Q!Cardinality(admitted) = Cardinality(admitted)  BY SameLineCount
    <3> HIDE DEF admitted
    <3> QED  BY <1>3, <3>1, <3>2, <3>3 DEF Q!AdmitQueued
  <2> HIDE DEF free, admitted
  <2>5. IsFiniteSet(queue')  BY <1>0, <2>4, FS_Subset DEF Line
  <2>6. Line(queue')  BY <1>0, <2>4, <2>5 DEF Line
  <2>7. QueueShape'  BY <1>0, <2>4, <2>6 DEF QueueShape
  <2>8. LastBatch'  BY <1>0, <2>4 DEF LastBatch, free, admitted
  <2>9. IsFiniteSet(running')  BY <1>0, <2>3, <2>4, FS_Union
  <2>10. Cardinality(admitted) \in Nat  BY <2>3, FS_CardinalityType
  <2>11. passed' \in [Users -> Nat]  BY <1>0, <2>4, <2>10 DEF Q!TypeOK
  <2>12. Q!TypeOK'
    BY <1>0, <2>2, <2>3, <2>4, <2>11 DEF Q!TypeOK
  <2> QED  BY <2>7, <2>8, <2>9, <2>12 DEF LineInv
<1>4. ASSUME NEW c \in running, Q!Finish(c) PROVE LineInv'
  <2>1. IsFiniteSet(running')  BY <1>0, <1>4, FS_RemoveElement DEF Q!Finish
  <2>2. Q!TypeOK'  BY <1>0, <1>4 DEF Q!Finish, Q!TypeOK
  <2> QED  BY <1>0, <1>4, <2>1, <2>2 DEF Q!Finish, LineInv, QueueShape, LastBatch
<1>5. ASSUME UNCHANGED Q!vars PROVE LineInv'
  BY <1>0, <1>5 DEF Q!vars, LineInv, Q!TypeOK, QueueShape, LastBatch
<1> QED  BY <1>1, <1>2, <1>3, <1>4, <1>5 DEF Q!Next

LEMMA LineHolds == Q!Spec => []LineInv
BY LineInit, LineStep, PTL DEF Q!Spec

-----------------------------------------------------------------------------
\* Rows and counters keep their types (the queue admitQueued reads, the batch it starts).
THEOREM QueueTypes == Q!Spec => []Q!TypeOK
<1>1. LineInv => Q!TypeOK  BY DEF LineInv
<1> QED  BY <1>1, LineHolds, PTL

(***************************************************************************)
(* No slot idles while somebody with an account waits, and no admission    *)
(* starts one download too many (admitQueued with queue.go's Admit).       *)
(***************************************************************************)
THEOREM SlotsAreFilled == Q!Spec => []NoSlotIdles
<1>1. LineInv => NoSlotIdles
  <2> SUFFICES ASSUME LineInv PROVE NoSlotIdles  OBVIOUS
  <2> DEFINE A == Attributed(batch.queued)
             S == Admit(batch.queued, batch.slots)
  <2>1. Line(batch.queued) /\ batch.admitted = S  BY DEF LineInv, LastBatch
  <2>2. batch.slots \in Nat  BY QueueLimit DEF LineInv, Q!TypeOK
  <2>3. IsFiniteSet(A) /\ S \subseteq A  BY <2>1, RoundType DEF Admit
  <2>4. IsFiniteSet(S) /\ Cardinality(S) <= batch.slots  BY <2>1, <2>2, AdmitFitsSlots
  <2>5. A \ S # {} => Cardinality(S) = batch.slots  BY <2>1, <2>2, AdmitFillsSlots
  <2>6. Cardinality(S) <= Cardinality(A)  BY <2>3, FS_Subset
  <2>7. Cardinality(A) \in Nat /\ Cardinality(S) \in Nat  BY <2>3, <2>4, FS_CardinalityType
  <2>8. A \ S = {} => A = S  BY <2>3
  <2>9. Cardinality(S) = IF Cardinality(A) < batch.slots THEN Cardinality(A) ELSE batch.slots
    <3> HIDE DEF A, S
    <3> QED  BY <2>2, <2>4, <2>5, <2>6, <2>7, <2>8
  <2>10. {c \in batch.queued : c.user # NoUser} = A  BY DEF Attributed
  <2> HIDE DEF A, S
  <2> QED  BY <2>1, <2>9, <2>10 DEF NoSlotIdles
<1> QED  BY <1>1, LineHolds, PTL

(***************************************************************************)
(* The slots of one admission rotate between users (queue.go).             *)
(***************************************************************************)
THEOREM SlotsAreShared == Q!Spec => []SlotsRotate
<1>1. LineInv => SlotsRotate
  <2> SUFFICES ASSUME LineInv, NEW c \in Unserved, c.user # NoUser,
                      NEW d \in batch.admitted
               PROVE  Share(d.user) <= Share(c.user) + 1
    BY DEF SlotsRotate
  <2>1. Line(batch.queued) /\ batch.admitted = Admit(batch.queued, batch.slots)
    BY DEF LineInv, LastBatch
  <2>2. batch.slots \in Int  BY QueueLimit DEF LineInv, Q!TypeOK
  <2>3. c \in Attributed(batch.queued) \ Admit(batch.queued, batch.slots)
    BY <2>1 DEF Unserved, Attributed
  <2>4. Cardinality(Dealt(batch.queued, batch.slots, d.user))
          <= Cardinality(Dealt(batch.queued, batch.slots, c.user)) + 1
    BY <2>1, <2>2, <2>3, AdmitRotates
  <2>5. \A v : Dealt(batch.queued, batch.slots, v) = {x \in batch.admitted : x.user = v}
    BY <2>1 DEF Dealt
  <2> QED  BY <2>4, <2>5 DEF Share
<1> QED  BY <1>1, LineHolds, PTL

(***************************************************************************)
(* Within one user a pasted link goes before bulk work, and submission     *)
(* order decides between equals (queue.go).                                *)
(***************************************************************************)
THEOREM OwnOrderIsKept == Q!Spec => []OwnOrderKept
<1>1. LineInv => OwnOrderKept
  <2> SUFFICES ASSUME LineInv, NEW c \in batch.admitted, NEW d \in Unserved, c.user = d.user
               PROVE  /\ d.direct => c.direct
                      /\ c.direct = d.direct => c.seq < d.seq
    BY DEF OwnOrderKept
  <2>1. Line(batch.queued) /\ batch.admitted = Admit(batch.queued, batch.slots)
    BY DEF LineInv, LastBatch
  <2>2. batch.slots \in Int  BY QueueLimit DEF LineInv, Q!TypeOK
  <2>3. c \in Attributed(batch.queued)  BY <2>1 DEF Admit
  <2>4. d \in Attributed(batch.queued) \ Admit(batch.queued, batch.slots)
    BY <2>1, <2>3 DEF Unserved, Attributed
  <2>5. Ahead(c, d)  BY <2>1, <2>2, <2>4, AdmitKeepsOwnOrder
  <2> QED  BY <2>5, Zenon DEF Ahead
<1> QED  BY <1>1, LineHolds, PTL
=============================================================================
