----------------------------- MODULE ClipStore_proofs -----------------------------
(***************************************************************************)
(* Safety of the stored media of an event, for any posts, media, matcher, *)
(* quality order and number of faults: the types, what a listed or played *)
(* clip owes to the bytes, and what the popularity of a clip counts.      *)
(***************************************************************************)
EXTENDS ClipStore, FiniteSetTheorems, WellFoundedInduction, NaturalsInduction, TLAPS

(* Only the compatibility activities reach these points.                  *)
LegacyPcs == {"insert", "share", "drop", "retire", "mark", "reclaim"}

(* DestroyEvent has withdrawn every share of the event.                   *)
Revoked == \A m \in Media : share[m] \in {"none", "removed"}

(* Destroying, past the withdrawal.                                       *)
Deleting == destroy.pc \in {"list", "delete", "mark"}

PcInv ==
    /\ path # "legacy" => main.pc \notin LegacyPcs /\ late.pc \notin LegacyPcs
    /\ path # "selection" => operator.pc = "idle"
    /\ \A a \in {main, late} : a.pc = "discard" => removed

(* The rows of a reversible selection: one level of ownership below live  *)
(* rows that all have a share.                                            *)
RowsInv ==
    /\ Live(owner) # {}
    /\ \A m \in Known(owner) : owner[m] \in Live(owner)
    /\ \A m \in Live(owner) : share[m] # "none"
    /\ \A m \in Media : share[m] # "none" => m \in Known(owner)

(* Shares are withdrawn together, before anything is deleted.             *)
RevokedInv ==
    /\ (\E m \in Media : share[m] = "removed") => Revoked
    /\ Deleting => Revoked
    /\ (\E m \in Media : gone[m]) => Revoked

(* Until then every row has its bytes, and so has every clip that an      *)
(* attempt or the operator found.                                         *)
BytesInv ==
    ~removed /\ ~Revoked =>
        /\ Known(owner) \subseteq objects
        /\ \A a \in {main, late, operator} : a.ready \subseteq objects

(* Derived popularity counts accepted posts; placed popularity counts     *)
(* credits, which only live rows hold.                                    *)
SupportInv == \A m \in Live(owner) : pop[m] = Support(m, outcome)

CreditInv ==
    /\ \A c \in Clips : credit[c] # None => credit[c] \in Live(owner)
    /\ \A c \in Clips : outcome[c] = "accepted" => credit[c] # None
    /\ \A m \in Live(owner) : pop[m] = Cardinality({c \in Clips : credit[c] = m})

SelectionInv == RowsInv /\ RevokedInv /\ BytesInv /\ SupportInv

StoreInv ==
    /\ TypeOK
    /\ PcInv
    /\ path = "selection" => SelectionInv
    /\ path = "atomic" => CreditInv

-----------------------------------------------------------------------------
(* The operators of the planner and of the placement. *)

(* A plan of PlanSelection keeps the rows, keeps every live root live and *)
(* leaves each row with a live owner (domain/video/selection.go:118-186). *)
LEMMA PlanKeepsRoots ==
    ASSUME NEW own \in Owners, NEW order, NEW eligible,
           \A k \in Known(own) : Root(own, k) \in Live(own),
           NEW plan \in PlanSelection(own, order, eligible)
    PROVE  /\ plan \in Owners
           /\ Known(plan) = Known(own)
           /\ Live(own) \subseteq Live(plan)
           /\ \A m \in Known(plan) : plan[m] \in Live(plan)
  <1>1. plan \in Owners
    BY DEF PlanSelection
  <1>2. PICK selected \in PublicSets(own, order, eligible) :
            \A m \in Media : plan[m] \in IF own[m] = None THEN {None}
                                         ELSE Keepers(own, selected, eligible, m)
    BY DEF PlanSelection
  <1>3. selected \subseteq Known(own) /\ Live(own) \subseteq selected
    BY SelectionAssumption DEF PublicSets, Known, Live
  <1>4. selected \subseteq Live(plan)
    BY <1>2, <1>3 DEF Keepers, Known, Live
  <1>5. ASSUME NEW m \in Known(own)
        PROVE  plan[m] \in selected
    <2>1. plan[m] \in Keepers(own, selected, eligible, m)
      BY <1>2 DEF Known
    <2>2. Best({k \in selected : <<m, k>> \in Match}) \subseteq selected
      BY DEF Best
    <2> QED BY <2>1, <2>2, <1>3 DEF Keepers
  <1>6. selected \subseteq Media
    BY <1>3 DEF Known
  <1>7. Known(plan) = Known(own)
    <2>1. \A m \in Media : m \notin Known(own) => plan[m] = None
      BY <1>2 DEF Known
    <2> QED BY <2>1, <1>5, <1>6, SelectionAssumption DEF Known
  <1> QED BY <1>1, <1>3, <1>4, <1>5, <1>7

(* The ownership a placement leaves, before any selection: the row of its *)
(* clip exists and the winner is live (video_placement_repo.go:83-189).   *)
LEMMA PlacementKeepsRows ==
    ASSUME owner \in Owners, NEW r \in Requests, PlacementApplies(r)
    PROVE  /\ PlacedOwner(r) \in Owners
           /\ Winner(r) \in Live(PlacedOwner(r))
           /\ Known(PlacedOwner(r)) = Known(owner) \cup {Content[r.clip]}
  <1> DEFINE m == Content[r.clip]
             w == Winner(r)
             own == PlacedOwner(r)
  <1>1. m \in Media /\ w \in Media /\ r.losers \subseteq Media
    BY StoreAssumption DEF Requests, Winner
  <1>2. \A k \in Media : own[k] = IF k = m /\ owner[m] = None THEN w
                                  ELSE IF k \in r.losers \ {w} THEN w ELSE owner[k]
    BY DEF PlacedOwner
  <1>3. own \in Owners
    BY <1>1 DEF PlacedOwner, Owners
  <1>4. /\ owner[w] = w \/ (w = m /\ owner[w] = None)
        /\ \A l \in r.losers \ {w} : owner[l] \in {l, w}
    BY DEF PlacementApplies, Winner
  <1> HIDE DEF m, w, own
  <1>5. own[w] = w
    BY <1>1, <1>2, <1>4
  <1>6. Known(own) = Known(owner) \cup {m}
    BY <1>1, <1>2, <1>4, SelectionAssumption DEF Known, Owners
  <1> QED BY <1>1, <1>3, <1>5, <1>6 DEF Live, m, w, own

(* When one step reaches a live row before a placement, two steps reach   *)
(* one after it (video_placement_repo.go:83-189).                         *)
LEMMA PlacementKeepsRoots ==
    ASSUME owner \in Owners, NEW r \in Requests, PlacementApplies(r),
           \A k \in Known(owner) : owner[k] \in Live(owner)
    PROVE  \A k \in Known(PlacedOwner(r)) : Root(PlacedOwner(r), k) \in Live(PlacedOwner(r))
  <1> DEFINE w == Winner(r)
             own == PlacedOwner(r)
  <1>1. w \in Media /\ own[w] = w
    BY PlacementKeepsRows DEF Live
  <1>2. \A k \in Media : own[k] \in {w, owner[k]}
    BY DEF PlacedOwner
  <1> SUFFICES ASSUME NEW k \in Known(own)
               PROVE  Root(own, k) \in Live(own)
    OBVIOUS
  <1> HIDE DEF w, own
  <1>3. CASE own[k] = w
    BY <1>1, <1>3 DEF Root, Live
  <1>4. CASE own[k] # w
    <2>1. k \in Media /\ own[k] = owner[k] /\ k \in Known(owner)
      BY <1>2, <1>4 DEF Known
    <2>2. owner[k] \in Media /\ owner[owner[k]] = owner[k]
      BY <2>1 DEF Live
    <2> QED BY <1>1, <1>2, <2>1, <2>2 DEF Root, Live
  <1> QED BY <1>3, <1>4

(* The posts credited to one of some rows.                                *)
CreditedTo(cr, S) == {c \in Clips : cr[c] \in S}

(* Two sets of posts without a common one.                                *)
LEMMA CardinalityOfDisjoint ==
    ASSUME NEW A, NEW B, IsFiniteSet(A), IsFiniteSet(B), A \cap B = {}
    PROVE  /\ IsFiniteSet(A \cup B)
           /\ Cardinality(A) \in Nat /\ Cardinality(B) \in Nat
           /\ Cardinality(A \cup B) = Cardinality(A) + Cardinality(B)
  <1>1. IsFiniteSet(A \cup B) /\ Cardinality(A \cup B) = Cardinality(A) + Cardinality(B) - Cardinality(A \cap B)
    BY FS_Union
  <1>2. Cardinality(A \cap B) = 0
    BY FS_EmptySet
  <1>3. Cardinality(A) \in Nat /\ Cardinality(B) \in Nat
    BY FS_CardinalityType
  <1> QED BY <1>1, <1>2, <1>3

(* The sum of PlacedPopularity over a set of rows counts the posts that   *)
(* are credited to them (video_placement_repo.go:514-568).                *)
LEMMA VotesCountCredits ==
    ASSUME NEW S \in SUBSET Media, NEW votes, NEW cr \in Credits,
           \A l \in S : votes[l] = Cardinality(CreditedTo(cr, {l}))
    PROVE  VotesOf(votes, S) = Cardinality(CreditedTo(cr, S))
  <1> DEFINE first(s) == CHOOSE x \in s : TRUE
             eq(g) == g = [s \in SUBSET S |-> IF s = {} THEN 0 ELSE votes[first(s)] + g[s \ {first(s)}]]
             iter == CHOOSE g : eq(g)
             count(s) == Cardinality(CreditedTo(cr, s))
             counts == [s \in SUBSET S |-> count(s)]
  <1>1. VotesOf(votes, S) = iter[S]
    BY DEF VotesOf, MapThenSumSet, MapThenFoldSet
  <1>2. ASSUME NEW s \in SUBSET S, s # {}
        PROVE  /\ first(s) \in s /\ s \ {first(s)} \in SUBSET S
               /\ count(s) = votes[first(s)] + count(s \ {first(s)})
    <2>1. first(s) \in s
      BY <1>2
    <2> DEFINE x == first(s)
               A == CreditedTo(cr, {x})
               B == CreditedTo(cr, s \ {x})
    <2>2. A \cap B = {} /\ A \cup B = CreditedTo(cr, s)
      BY <2>1 DEF CreditedTo
    <2>3. IsFiniteSet(A) /\ IsFiniteSet(B)
      BY StoreAssumption, FS_Subset DEF CreditedTo
    <2>5. Cardinality(A \cup B) = Cardinality(A) + Cardinality(B)
      <3> HIDE DEF A, B
      <3> QED BY <2>2, <2>3, CardinalityOfDisjoint
    <2> HIDE DEF first
    <2> QED BY <2>1, <2>2, <2>5
  <1>3. count({}) = 0
    <2>1. CreditedTo(cr, {}) = {}
      BY DEF CreditedTo
    <2> QED BY <2>1, FS_EmptySet
  <1> HIDE DEF first, count
  <1>4. eq(counts)
    BY <1>2, <1>3
  <1>5. eq(iter)
    BY <1>4
  <1>6. \A s \in SUBSET S : iter[s] = count(s)
    <2> DEFINE T == {s \in SUBSET S : iter[s] # count(s)}
    <2>1. IsFiniteSet(S)
      BY StoreAssumption, FS_Subset
    <2>2. IsWellFoundedOn(StrictSubsetOrdering(S), FiniteSubsetsOf(S))
      BY <2>1, FS_StrictSubsetOrderingWellFounded
    <2>3. T \subseteq FiniteSubsetsOf(S)
      BY <2>1, FS_Subset DEF FiniteSubsetsOf
    <2>4. ASSUME T # {} PROVE FALSE
      <3>1. PICK s \in T : \A y \in T : ~ (<<y, s>> \in StrictSubsetOrdering(S))
        BY <2>2, <2>3, <2>4, WFMin
      <3>2. s # {}
        BY <3>1, <1>5, <1>3
      <3>3. first(s) \in s /\ s \ {first(s)} \in SUBSET S /\ s \ {first(s)} \subseteq s /\ s \ {first(s)} # s
        BY <3>1, <3>2, <1>2
      <3>4. iter[s \ {first(s)}] = count(s \ {first(s)})
        BY <3>1, <3>3 DEF StrictSubsetOrdering
      <3>5. iter[s] = votes[first(s)] + iter[s \ {first(s)}]
        BY <1>5, <3>1, <3>2
      <3> QED BY <3>1, <3>2, <3>4, <3>5, <1>2
    <2> QED BY <2>4
  <1> QED BY <1>1, <1>6 DEF count

(* One level of ownership: the walk of ResolveShare ends at the owner     *)
(* (video_repo.go:432-460, the recursive query of superseded_by).         *)
LEMMA TerminalIsOwner ==
    ASSUME NEW own \in Owners, NEW m \in Known(own),
           \A k \in Known(own) : own[k] \in Live(own)
    PROVE  Terminal(own, m) = own[m]
  <1> DEFINE N == Cardinality(Media)
             eq(g) == g = [i \in 0 .. N |-> IF i = 0 THEN m ELSE own[g[i - 1]]]
             step == CHOOSE g : eq(g)
             steps == [i \in 0 .. N |-> IF i = 0 THEN m ELSE own[m]]
  <1>1. Terminal(own, m) = step[N]
    BY DEF Terminal
  <1>2. m \in Media /\ own[m] \in Media /\ own[own[m]] = own[m]
    BY DEF Known, Live
  <1>3. N \in Nat /\ N # 0
    BY <1>2, StoreAssumption, FS_CardinalityType, FS_EmptySet
  <1> HIDE DEF N
  <1>4. eq(steps)
    <2>1. ASSUME NEW i \in 0 .. N
          PROVE  steps[i] = IF i = 0 THEN m ELSE own[steps[i - 1]]
      BY <1>2, <1>3
    <2> QED BY <2>1
  <1>5. eq(step)
    BY <1>4
  <1> HIDE DEF step, steps
  <1>6. \A i \in 1 .. N : step[i] = own[m]
    <2> DEFINE T == {i \in 1 .. N : step[i] # own[m]}
    <2>1. T \subseteq Nat
      BY <1>3
    <2>2. ASSUME T # {} PROVE FALSE
      <3>1. PICK i \in T : \A j \in T : ~ (<<j, i>> \in OpToRel(<, Nat))
        BY <2>1, <2>2, NatLessThanWellFounded, WFMin
      <3>2. \A j \in T : ~ (j < i)
        BY <2>1, <3>1 DEF OpToRel
      <3>a. i \in 1 .. N /\ step[i] # own[m]
        BY <3>1
      <3>b. \A j \in 1 .. N : j < i => step[j] = own[m]
        BY <3>2
      <3> HIDE DEF T
      <3>3. i \in 0 .. N /\ i - 1 \in 0 .. N /\ i # 0
        BY <3>a, <1>3
      <3>4. step[i] = own[step[i - 1]]
        BY <3>3, <1>5
      <3>5. step[i - 1] \in {m, own[m]}
        <4>1. CASE i = 1
          BY <4>1, <1>3, <1>5
        <4>2. CASE i # 1
          BY <4>2, <3>a, <3>b, <1>3
        <4> QED BY <4>1, <4>2
      <3> QED BY <3>a, <3>4, <3>5, <1>2
    <2> QED BY <2>2
  <1> QED BY <1>1, <1>3, <1>6

-----------------------------------------------------------------------------
(* Type correctness. *)

RowsTyped ==
    /\ owner \in Owners /\ pop \in Popularities /\ gone \in Reclaims
    /\ seen \in Seq(Media)
    /\ share \in Shares /\ outcome \in Outcomes /\ credit \in Credits
    /\ receipts \subseteq Clips /\ objects \subseteq Media /\ staged \subseteq Clips

(* An attempt that runs.                                                  *)
Running(a) ==
    /\ a \in Attempts /\ a.pc # "idle" /\ a.of \in Requests
    /\ a.pc \in {"mark", "reclaim"} => a.loser \in Media

(* The popularity a placement computes is a number: on the path that keeps *)
(* it, it is the credits of the winner (video_placement_repo.go:144-181). *)
LEMMA PlacedPopularityIsCredits ==
    ASSUME owner \in Owners, pop \in Popularities, credit \in Credits, CreditInv,
           NEW r \in Requests, PlacementApplies(r)
    PROVE  \A k \in Live(PlacedOwner(r)) :
              PlacedPopularity(r)[k] = Cardinality({c \in Clips : PlacedCredit(r)[c] = k})
  <1> DEFINE m == Content[r.clip]
             w == Winner(r)
             L == r.losers \ {w}
             merged == {l \in L : owner[l] = l}
             held(s) == CreditedTo(credit, s)
  <1>1. m \in Media /\ w \in Media /\ L \subseteq Media /\ r.clip \in Clips
    BY StoreAssumption DEF Requests, Winner
  <1>2. /\ owner[w] = w \/ (w = m /\ owner[w] = None)
        /\ \A l \in L : owner[l] \in {l, w}
        /\ credit[r.clip] \in {None, w} \cup L
        /\ owner[w] = None => Voted(r)
    BY DEF PlacementApplies, Winner
  <1>3. Voted(r) <=> credit[r.clip] = None
    BY <1>1 DEF CreditInv, Voted
  <1>4. \A c \in Clips : credit[c] \in L <=> credit[c] \in merged
    BY <1>1, <1>2, SelectionAssumption DEF CreditInv, Live
  <1>5. \A s : IsFiniteSet(held(s)) /\ Cardinality(held(s)) \in Nat
    BY StoreAssumption, FS_Subset, FS_CardinalityType DEF CreditedTo
  <1>6. VotesOf(pop, merged) = Cardinality(held(merged))
    <2>1. \A l \in merged : pop[l] = Cardinality(CreditedTo(credit, {l}))
      <3>1. \A l : CreditedTo(credit, {l}) = {c \in Clips : credit[c] = l}
        BY DEF CreditedTo
      <3> QED BY <3>1, <1>1 DEF CreditInv, Live
    <2>2. merged \in SUBSET Media
      BY <1>1
    <2> HIDE DEF merged
    <2> QED BY <2>1, <2>2, VotesCountCredits
  <1>7. ASSUME NEW k \in Live(PlacedOwner(r))
        PROVE  PlacedPopularity(r)[k] = Cardinality({c \in Clips : PlacedCredit(r)[c] = k})
    <2>1. CASE k # w
      <3>1. k \in Media /\ owner[k] = k /\ k \notin L
        BY <2>1, <1>1, <1>2, SelectionAssumption DEF Live, PlacedOwner
      <3>2. PlacedPopularity(r)[k] = pop[k]
        BY <3>1, <2>1, SelectionAssumption DEF PlacedPopularity
      <3>3. {c \in Clips : PlacedCredit(r)[c] = k} = {c \in Clips : credit[c] = k}
        BY <3>1, <2>1, <1>1, <1>2, SelectionAssumption DEF PlacedCredit
      <3> QED BY <3>1, <3>2, <3>3 DEF CreditInv, Live
    <2>2. CASE k = w
      <3> DEFINE A == held({w})
                 B == held(merged)
                 C == IF credit[r.clip] = None THEN {r.clip} ELSE {}
                 created == owner[w] = None
                 base == IF created THEN 1 ELSE pop[w]
                 added == IF Voted(r) /\ ~created THEN 1 ELSE 0
      <3>1. PlacedPopularity(r)[k] = base + added + VotesOf(pop, merged)
        BY <2>2, <1>1 DEF PlacedPopularity
      <3>2. {c \in Clips : PlacedCredit(r)[c] = k} = (A \cup B) \cup C
        BY <2>2, <1>1, <1>2, <1>4 DEF PlacedCredit, CreditedTo
      <3>3. A \cap B = {} /\ (A \cup B) \cap C = {}
        BY <1>1, SelectionAssumption DEF CreditedTo
      <3>4. IsFiniteSet(C) /\ Cardinality(C) = added + (IF created THEN 1 ELSE 0)
        <4>1. CASE credit[r.clip] = None
          <5>1. C = {r.clip} /\ added + (IF created THEN 1 ELSE 0) = 1
            BY <4>1, <1>3
          <5> QED BY <5>1, FS_Singleton
        <4>2. CASE credit[r.clip] # None
          <5>1. C = {} /\ added + (IF created THEN 1 ELSE 0) = 0
            BY <4>2, <1>2, <1>3
          <5> QED BY <5>1, FS_EmptySet
        <4> QED BY <4>1, <4>2
      <3>5. Cardinality(A) = IF created THEN 0 ELSE pop[w]
        <4>1. CASE created
          <5>1. A = {}
            BY <4>1, <1>1, SelectionAssumption DEF CreditInv, Live, CreditedTo
          <5> QED BY <4>1, <5>1, FS_EmptySet
        <4>2. CASE ~created
          <5>1. A = {c \in Clips : credit[c] = w}
            BY DEF CreditedTo
          <5> QED BY <4>2, <5>1, <1>1, <1>2 DEF CreditInv, Live
        <4> QED BY <4>1, <4>2
      <3>6. Cardinality((A \cup B) \cup C) = Cardinality(A) + Cardinality(B) + Cardinality(C)
        <4>1. IsFiniteSet(A) /\ IsFiniteSet(B)
          BY <1>5
        <4> HIDE DEF A, B, C
        <4>2. /\ IsFiniteSet(A \cup B) /\ Cardinality(A) \in Nat /\ Cardinality(B) \in Nat
              /\ Cardinality(A \cup B) = Cardinality(A) + Cardinality(B)
          BY <3>3, <4>1, CardinalityOfDisjoint
        <4>3. Cardinality((A \cup B) \cup C) = Cardinality(A \cup B) + Cardinality(C)
          BY <3>3, <3>4, <4>2, CardinalityOfDisjoint
        <4> QED BY <4>2, <4>3
      <3>7. pop[w] \in Nat /\ Cardinality(B) \in Nat
        BY <1>1, <1>5 DEF Popularities
      <3>8. VotesOf(pop, merged) = Cardinality(B)
        BY <1>6
      <3>9. added \in {0, 1} /\ (created => added = 0)
        OBVIOUS
      <3> DEFINE all == Cardinality({c \in Clips : PlacedCredit(r)[c] = k})
                 sum == PlacedPopularity(r)[k]
      <3>10. /\ sum = base + added + Cardinality(B)
             /\ all = Cardinality(A) + Cardinality(B) + Cardinality(C)
        BY <3>1, <3>2, <3>6, <3>8
      <3> HIDE DEF A, B, C, created, added, all, sum
      <3>11. sum = all
        BY <3>10, <3>4, <3>5, <3>7, <3>9
      <3> QED BY <3>11 DEF sum, all
    <2> QED BY <2>1, <2>2
  <1> QED BY <1>7

(* The two transactions leave typed rows (video_placement_repo.go:83-189, *)
(* video_selection_repo.go, applySelectionTx).                            *)
LEMMA PlacementIsTyped ==
    ASSUME RowsTyped, CreditInv, NEW r \in Requests, PlacementApplies(r)
    PROVE  /\ PlacedOwner(r) \in Owners /\ PlacedPopularity(r) \in Popularities
           /\ PlacedShare(r) \in Shares /\ PlacedCredit(r) \in Credits
           /\ PlacedSeen(r) \in Seq(Media) /\ Accepted(r) \in Outcomes
  <1>1. Content[r.clip] \in Media /\ Winner(r) \in Media
    BY StoreAssumption DEF Requests, Winner
  <1>2. PlacedOwner(r) \in Owners /\ Winner(r) \in Live(PlacedOwner(r))
    BY PlacementKeepsRows DEF RowsTyped
  <1>3. PlacedShare(r) \in Shares
    BY DEF PlacedShare, Shares, ShareStates, RowsTyped
  <1>4. PlacedCredit(r) \in Credits
    BY <1>1 DEF PlacedCredit, Credits, RowsTyped
  <1>5. PlacedSeen(r) \in Seq(Media)
    BY <1>1 DEF PlacedSeen, RowsTyped
  <1>6. Accepted(r) \in Outcomes
    BY DEF Accepted, Outcomes, RowsTyped
  <1>7. ASSUME NEW k \in Media
        PROVE  PlacedPopularity(r)[k] \in Nat
    <2>1. CASE k = Winner(r)
      <3>1. PlacedPopularity(r)[k] = Cardinality({c \in Clips : PlacedCredit(r)[c] = k})
        BY <2>1, <1>2, PlacedPopularityIsCredits DEF RowsTyped
      <3>2. IsFiniteSet({c \in Clips : PlacedCredit(r)[c] = k})
        BY StoreAssumption, FS_Subset
      <3> QED BY <3>1, <3>2, FS_CardinalityType
    <2>2. CASE k # Winner(r)
      <3>1. PlacedPopularity(r)[k] \in {1, pop[k]}
        BY <2>2 DEF PlacedPopularity
      <3> QED BY <3>1 DEF RowsTyped, Popularities
    <2> QED BY <2>1, <2>2
  <1>8. PlacedPopularity(r) \in Popularities
    <2>1. PlacedPopularity(r) = [k \in Media |-> PlacedPopularity(r)[k]]
      BY DEF PlacedPopularity
    <2> QED BY <2>1, <1>7 DEF Popularities
  <1> QED BY <1>2, <1>3, <1>4, <1>5, <1>6, <1>8

(* A count of accepted posts is a number.                                 *)
LEMMA SupportIsNat ==
    ASSUME NEW m, NEW out
    PROVE  Support(m, out) \in Nat
  <1>1. IsFiniteSet({c \in Clips : out[c] = "accepted" /\ <<Content[c], m>> \in Match})
    BY StoreAssumption, FS_Subset
  <1> QED BY <1>1, FS_CardinalityType DEF Support

(* An applied selection leaves typed rows (applySelectionTx).             *)
LEMMA SelectionIsTyped ==
    ASSUME NEW plan \in Owners, NEW pp, NEW shr \in Shares, NEW out \in Outcomes, NEW cr \in Credits,
           \A m \in Media : plan[m] # m => pp[m] \in Nat,
           ApplySelection(plan, pp, shr, out, cr)
    PROVE  owner' \in Owners /\ pop' \in Popularities /\ share' \in Shares /\ credit' \in Credits
  <1>1. owner' = plan
    BY DEF ApplySelection
  <1>2. pop' \in Popularities
    BY SupportIsNat DEF ApplySelection, Popularities
  <1>3. share' \in Shares
    BY DEF ApplySelection, Shares, ShareStates
  <1>4. credit' \in Credits
    BY StoreAssumption DEF ApplySelection, Credits, Owners
  <1> QED BY <1>1, <1>2, <1>3, <1>4

(* The rows of the combined transaction: what the plan of SelectionPlans  *)
(* keeps of the rows it starts from (video_selection_repo.go).            *)
LEMMA SelectedPlan ==
    ASSUME RowsTyped, RowsInv, NEW a, a.of \in Requests, NEW plan \in SelectionPlans(a)
    PROVE  /\ SelectionCommits(a) /\ PlacementApplies(a.of)
           /\ plan \in Owners
           /\ Known(plan) = Known(owner) \cup {Content[a.of.clip]}
           /\ Live(PlacedOwner(a.of)) \subseteq Live(plan)
           /\ Winner(a.of) \in Live(plan)
           /\ \A m \in Known(plan) : plan[m] \in Live(plan)
  <1>1. SelectionCommits(a)
    BY DEF SelectionPlans
  <1>2. PlacementApplies(a.of)
    BY <1>1 DEF SelectionCommits
  <1>3. PICK eligible : plan \in PlanSelection(PlacedOwner(a.of), PlacedSeen(a.of), eligible)
    BY <1>1 DEF SelectionPlans, Selections
  <1>4. /\ PlacedOwner(a.of) \in Owners
        /\ Winner(a.of) \in Live(PlacedOwner(a.of))
        /\ Known(PlacedOwner(a.of)) = Known(owner) \cup {Content[a.of.clip]}
    BY <1>2, PlacementKeepsRows DEF RowsTyped
  <1>5. \A k \in Known(PlacedOwner(a.of)) : Root(PlacedOwner(a.of), k) \in Live(PlacedOwner(a.of))
    BY <1>2, PlacementKeepsRoots DEF RowsTyped, RowsInv
  <1>6. /\ plan \in Owners
        /\ Known(plan) = Known(PlacedOwner(a.of))
        /\ Live(PlacedOwner(a.of)) \subseteq Live(plan)
        /\ \A m \in Known(plan) : plan[m] \in Live(plan)
    BY <1>3, <1>4, <1>5, PlanKeepsRoots
  <1> QED BY <1>1, <1>2, <1>4, <1>6

(* The popularity a placement hands to the selection, where the selection *)
(* does not derive it anew.                                               *)
LEMMA PlacedElsewhere ==
    ASSUME RowsTyped, NEW r \in Requests, NEW m \in Media, m # Winner(r)
    PROVE  PlacedPopularity(r)[m] \in Nat
  BY DEF PlacedPopularity, RowsTyped, Popularities

(* Every step of an attempt keeps the types (persist.go, the placement    *)
(* activity and the compatibility activities).                            *)
LEMMA StepTyped ==
    ASSUME RowsTyped, PcInv, path = "selection" => RowsInv, path = "atomic" => CreditInv,
           removed \in BOOLEAN, NEW a, Running(a), NEW b, Step(a, b)
    PROVE  RowsTyped' /\ Running(b)
  <1>r. a.of \in Requests /\ a.of.clip \in Clips /\ Content[a.of.clip] \in Media
    BY StoreAssumption DEF Running, Requests
  <1>w. Winner(a.of) \in Media /\ a.of.winner \in Media /\ a.of.losers \subseteq Media
    BY <1>r DEF Winner, Requests
  <1>a. a \in Attempts /\ a.pc # "idle"
    BY DEF Running
  <1>s. LoadSelection \in Snapshots
    BY DEF LoadSelection, Snapshots, RowsTyped
  <1>e. ASSUME NEW pc \in Pcs \ {"idle", "mark", "reclaim"}
        PROVE  Running(End(a, pc)) /\ Running(After(a, pc))
    <2>1. End(a, pc) \in Attempts /\ End(a, pc).pc = pc /\ End(a, pc).of = a.of
      BY <1>a, <1>r DEF End, Idle, Attempts
    <2>2. After(a, pc) \in Attempts /\ After(a, pc).pc = pc /\ After(a, pc).of = a.of
      BY <1>a, <1>r DEF After, Attempts
    <2> QED BY <2>1, <2>2, <1>r DEF Running
  <1>1. CASE Load(a, b)
    <2>1. b \in Attempts /\ b.pc = "copy" /\ b.of = a.of
      BY <1>1, <1>a, <1>s DEF Load, Attempts, Pcs
    <2> QED BY <1>1, <2>1, <1>r DEF Load, Running, RowsTyped, rows, bytes
  <1>2. CASE Copy(a, b)
    <2>1. b \in Attempts /\ b.pc \in {"head", "commit"} /\ b.of = a.of
      BY <1>2, <1>a DEF Copy, Attempts, Pcs
    <2> QED BY <1>2, <2>1, <1>r DEF Copy, Running, RowsTyped, rows
  <1>3. CASE HeadObjects(a, b)
    <2>1. Prepared(Content[a.of.clip]) \in SUBSET Media
      BY DEF Prepared, RowsTyped
    <2>2. b \in Attempts /\ b.pc = "commit" /\ b.of = a.of
      BY <1>3, <1>a, <2>1 DEF HeadObjects, Attempts, Pcs
    <2> QED BY <1>3, <2>2, <1>r DEF HeadObjects, Running, RowsTyped, rows, bytes
  <1>4. CASE RejectRemoved(a, b)
    <2>1. Running(b)
      BY <1>4, <1>e DEF RejectRemoved, Pcs
    <2> QED BY <1>4, <2>1 DEF RejectRemoved, RowsTyped, Outcomes, bytes
  <1>5. CASE CommitSelected(a, b)
    <2>1. Running(b)
      BY <1>5, <1>e DEF CommitSelected, Pcs
    <2>2. CASE UNCHANGED rows
      BY <1>5, <2>1, <2>2 DEF CommitSelected, RowsTyped, rows, bytes
    <2>3. CASE ~UNCHANGED rows
      <3>1. PICK plan \in SelectionPlans(a) :
                ApplySelection(plan, PlacedPopularity(a.of), PlacedShare(a.of), Accepted(a.of), PlacedCredit(a.of))
        BY <1>5, <2>3 DEF CommitSelected
      <3>2. path = "selection"
        BY <1>5 DEF CommitSelected
      <3>3. plan \in Owners /\ Winner(a.of) \in Live(plan)
        BY <1>r, <3>2, SelectedPlan
      <3>4. \A m \in Media : plan[m] # m => PlacedPopularity(a.of)[m] \in Nat
        BY <1>r, <3>3, PlacedElsewhere DEF Live
      <3>5. PlacedShare(a.of) \in Shares
        BY DEF PlacedShare, Shares, ShareStates, RowsTyped
      <3>6. PlacedCredit(a.of) \in Credits
        BY <1>w DEF PlacedCredit, Credits, RowsTyped
      <3>7. PlacedSeen(a.of) \in Seq(Media)
        BY <1>r DEF PlacedSeen, RowsTyped
      <3>8. Accepted(a.of) \in Outcomes
        BY DEF Accepted, Outcomes, RowsTyped
      <3>9. owner' \in Owners /\ pop' \in Popularities /\ share' \in Shares /\ credit' \in Credits
        BY <3>1, <3>3, <3>4, <3>5, <3>6, <3>8, SelectionIsTyped
      <3>10. /\ seen' = PlacedSeen(a.of) /\ outcome' = Accepted(a.of)
             /\ receipts' = receipts \cup {a.of.clip} /\ UNCHANGED gone /\ UNCHANGED bytes
        BY <1>5, <2>3 DEF CommitSelected
      <3> QED BY <1>r, <2>1, <3>7, <3>8, <3>9, <3>10 DEF RowsTyped, bytes
    <2> QED BY <2>2, <2>3
  <1>6. CASE CommitPlaced(a, b)
    <2>1. Running(b)
      BY <1>6, <1>e DEF CommitPlaced, Pcs
    <2>2. path = "atomic" /\ PlacementApplies(a.of)
      BY <1>6 DEF CommitPlaced
    <2>3. /\ PlacedOwner(a.of) \in Owners /\ PlacedPopularity(a.of) \in Popularities
          /\ PlacedShare(a.of) \in Shares /\ PlacedCredit(a.of) \in Credits
          /\ PlacedSeen(a.of) \in Seq(Media) /\ Accepted(a.of) \in Outcomes
      BY <1>r, <2>2, PlacementIsTyped
    <2> QED BY <1>6, <2>1, <2>3 DEF CommitPlaced, RowsTyped, bytes
  <1>7. CASE CommitRefused(a, b)
    <2>1. Running(b)
      BY <1>7, <1>e DEF CommitRefused, Pcs
    <2> QED BY <1>7, <2>1 DEF CommitRefused, RowsTyped, rows, bytes
  <1>8. CASE Clean(a, b)
    <2>1. Running(b)
      BY <1>8, <1>e DEF Clean, Pcs
    <2> QED BY <1>8, <2>1 DEF Clean, RowsTyped, rows
  <1>9. CASE PromoteCopy(a, b)
    <2>1. b \in Attempts /\ b.pc = "insert" /\ b.of = a.of
      BY <1>9, <1>a DEF PromoteCopy, Attempts, Pcs
    <2> QED BY <1>9, <2>1, <1>r DEF PromoteCopy, Running, RowsTyped, rows
  <1>10. CASE InsertAsset(a, b)
    <2>1. b \in Attempts /\ b.pc = "share" /\ b.of = a.of
      BY <1>10, <1>a DEF InsertAsset, Attempts, Pcs
    <2>2. owner' \in Owners /\ pop' \in Popularities /\ seen' \in Seq(Media)
      BY <1>10, <1>r DEF InsertAsset, RowsTyped, Owners, Popularities
    <2> QED BY <1>10, <2>1, <2>2, <1>r DEF InsertAsset, Running, RowsTyped, bytes
  <1>11. CASE MintShare(a, b)
    <2>1. b \in Attempts /\ b.pc = "drop" /\ b.of = a.of
      BY <1>11, <1>a DEF MintShare, Attempts, Pcs
    <2>2. share' \in Shares
      BY <1>11 DEF MintShare, RowsTyped, Shares, ShareStates
    <2> QED BY <1>11, <2>1, <2>2, <1>r DEF MintShare, Running, RowsTyped, bytes
  <1>12. CASE AddPopularity(a, b)
    <2>1. b \in Attempts /\ b.pc = "drop" /\ b.of = a.of
      BY <1>12, <1>a DEF AddPopularity, Attempts, Pcs
    <2>2. pop' \in Popularities
      BY <1>12, <1>w DEF AddPopularity, RowsTyped, Popularities
    <2> QED BY <1>12, <2>1, <2>2, <1>r DEF AddPopularity, Running, RowsTyped, bytes
  <1>13. CASE DeleteStaging(a, b)
    <2>1. b \in Attempts /\ b.pc = "retire" /\ b.of = a.of
      BY <1>13, <1>a DEF DeleteStaging, Attempts, Pcs
    <2> QED BY <1>13, <2>1, <1>r DEF DeleteStaging, Running, RowsTyped, rows
  <1>14. CASE Supersede(a, b)
    <2>1. PICK l \in a.left \ {Winner(a.of)} :
              /\ owner' = IF owner[l] = l THEN [owner EXCEPT ![l] = Winner(a.of)] ELSE owner
              /\ pop' = IF owner[l] = l
                        THEN [pop EXCEPT ![Winner(a.of)] = pop[Winner(a.of)] + pop[l]] ELSE pop
              /\ b = [a EXCEPT !.pc = "mark", !.loser = l]
      BY <1>14 DEF Supersede
    <2>2. l \in Media
      BY <1>a DEF Attempts
    <2>3. b \in Attempts /\ b.pc = "mark" /\ b.of = a.of /\ b.loser = l
      BY <2>1, <2>2, <1>a DEF Attempts, Pcs
    <2>4. owner' \in Owners
      BY <2>1, <2>2, <1>w DEF RowsTyped, Owners
    <2>5. pop' \in Popularities
      BY <2>1, <2>2, <1>w DEF RowsTyped, Popularities
    <2> QED BY <1>14, <2>2, <2>3, <2>4, <2>5, <1>r DEF Supersede, Running, RowsTyped, bytes
  <1>15. CASE MarkSuperseded(a, b)
    <2>1. b \in Attempts /\ b.pc = "reclaim" /\ b.of = a.of /\ b.loser = a.loser
      BY <1>15, <1>a DEF MarkSuperseded, Attempts, Pcs
    <2>2. a.loser \in Media
      BY <1>15 DEF MarkSuperseded, Running
    <2>3. share' \in Shares
      BY <1>15 DEF MarkSuperseded, RowsTyped, Shares, ShareStates
    <2> QED BY <1>15, <2>1, <2>2, <2>3, <1>r DEF MarkSuperseded, Running, RowsTyped, bytes
  <1>16. CASE ReclaimLoser(a, b)
    <2>1. b \in Attempts /\ b.pc = "retire" /\ b.of = a.of
      BY <1>16, <1>a DEF ReclaimLoser, Attempts, Pcs
    <2>2. gone' \in Reclaims /\ objects' \subseteq Media
      BY <1>16 DEF ReclaimLoser, RowsTyped, Reclaims
    <2> QED BY <1>16, <2>1, <2>2, <1>r DEF ReclaimLoser, Running, RowsTyped
  <1>17. CASE RecordOutcome(a, b)
    <2>1. Running(b)
      BY <1>17, <1>e DEF RecordOutcome, Pcs
    <2>2. outcome' \in Outcomes
      BY <1>17 DEF RecordOutcome, Accepted, Outcomes, RowsTyped
    <2> QED BY <1>17, <2>1, <2>2 DEF RecordOutcome, RowsTyped, bytes
  <1> QED BY <1>1, <1>2, <1>3, <1>4, <1>5, <1>6, <1>7, <1>8, <1>9, <1>10, <1>11, <1>12,
             <1>13, <1>14, <1>15, <1>16, <1>17 DEF Step

(* What the workflow asks for is typed (event_pipeline_validation.go,     *)
(* dedupAndPromote), and so is the attempt that starts on it.             *)
LEMMA DecideTyped ==
    ASSUME alias \in Owners, NEW c \in Clips, NEW r \in Decide(c)
    PROVE  r \in Requests
  <1> DEFINE m == Content[c]
             matched == {k \in Live(alias) : <<m, k>> \in Match}
  <1>1. m \in Media /\ matched \subseteq Media /\ Best(matched) \subseteq matched
    BY StoreAssumption DEF Live, Best
  <1>2. \A new \in BOOLEAN, exact \in BOOLEAN, w \in Media, L \in SUBSET Media :
            Request(c, new, w, L, exact) \in Requests
    BY DEF Request, Requests
  <1> HIDE DEF m, matched
  <1>3. CASE alias[m] # None
    <2>1. r = Request(c, FALSE, alias[m], {}, TRUE)
      BY <1>3 DEF Decide, m
    <2>2. alias[m] \in Media
      BY <1>1, <1>3 DEF Owners
    <2> QED BY <1>2, <2>1, <2>2
  <1>4. CASE alias[m] = None /\ matched = {}
    <2>1. r = Request(c, TRUE, m, {}, FALSE)
      BY <1>4 DEF Decide, m, matched
    <2> QED BY <1>1, <1>2, <2>1
  <1>5. CASE alias[m] = None /\ matched # {}
    <2>1. PICK best \in Best(matched) :
              r = IF IsUpgrade(m, best) THEN Request(c, TRUE, m, matched, FALSE)
                  ELSE Request(c, FALSE, best, IF path = "legacy" THEN matched \ {best} ELSE {}, FALSE)
      BY <1>5 DEF Decide, m, matched
    <2>2. best \in Media /\ (IF path = "legacy" THEN matched \ {best} ELSE {}) \in SUBSET Media
      BY <1>1
    <2> QED BY <1>1, <1>2, <2>1, <2>2
  <1> QED BY <1>3, <1>4, <1>5

(* A new attempt runs, and has found no object yet.                       *)
LEMMA AttemptRuns ==
    ASSUME NEW r \in Requests
    PROVE  Running(Attempt(r)) /\ Attempt(r).pc = "load" /\ Attempt(r).ready = {} /\ Attempt(r) # Idle
  <1>1. /\ Attempt(r) \in Attempts
        /\ Attempt(r).pc = "load" /\ Attempt(r).of = r /\ Attempt(r).ready = {}
    BY DEF Attempt, Idle, Attempts, Requests, Pcs
  <1>2. Idle.pc = "idle"
    BY DEF Idle
  <1> QED BY <1>1, <1>2 DEF Running

(* An actor at rest has found no object.                                  *)
LEMMA IdleIsTyped == Idle \in Attempts /\ Idle.pc = "idle" /\ Idle.ready = {}
  BY DEF Idle, Attempts, Pcs

(* The memory restored from the rows names rows (LoadEventAssets).        *)
LEMMA ProjectionTyped == ProjectSelection \in Owners
  <1>1. \A own, shr, gn : Project(own, shr, gn) \in Owners
    BY DEF Project, Owners
  <1> QED BY <1>1 DEF ProjectSelection, Owners

(* The types, in the form the steps use them.                             *)
Typed ==
    /\ path \in Paths /\ removed \in BOOLEAN /\ expired \in BOOLEAN
    /\ RowsTyped
    /\ alias \in Owners
    /\ main # Idle => request \in Requests /\ Running(main)
    /\ late # Idle => Running(late)
    /\ operator \in Attempts
    /\ destroy \in [pc : {"idle", "revoke", "list", "delete", "mark"}, left : SUBSET Media,
                    at : Media \cup {None}]
    /\ destroy.pc = "mark" => destroy.at \in Media
    /\ faults \in 0 .. MaxFaults

(* The two forms of the types agree.                                      *)
LEMMA TypedIsTypeOK == (TypeOK <=> Typed) /\ (TypeOK' <=> Typed')
  <1>1. TypeOK <=> Typed
    BY IdleIsTyped DEF TypeOK, Typed, RowsTyped, Running
  <1>2. TypeOK' <=> Typed'
    BY IdleIsTyped DEF TypeOK, Typed, RowsTyped, Running
  <1> QED BY <1>1, <1>2

(* The initial state is typed.                                            *)
LEMMA InitTyped == Init => TypeOK
  <1> SUFFICES ASSUME Init PROVE Typed
    BY TypedIsTypeOK
  <1> DEFINE shown == Content[First]
  <1>1. shown \in Media /\ First \in Clips
    BY StoreAssumption
  <1>2. owner \in Owners /\ pop \in Popularities /\ gone \in Reclaims /\ alias \in Owners
    BY <1>1 DEF Init, Owners, Popularities, Reclaims
  <1>3. share \in Shares /\ outcome \in Outcomes /\ credit \in Credits
    BY <1>1 DEF Init, Shares, ShareStates, Outcomes, Credits
  <1>4. seen \in Seq(Media) /\ receipts \subseteq Clips /\ objects \subseteq Media /\ staged \subseteq Clips
    BY <1>1, StoreAssumption DEF Init
  <1>5. RowsTyped
    BY <1>2, <1>3, <1>4 DEF RowsTyped
  <1>6. operator \in Attempts
    BY IdleIsTyped DEF Init
  <1>7. destroy \in [pc : {"idle", "revoke", "list", "delete", "mark"}, left : SUBSET Media,
                     at : Media \cup {None}]
        /\ destroy.pc # "mark"
    BY DEF Init, NoRun
  <1>8. /\ path \in Paths /\ removed \in BOOLEAN /\ expired \in BOOLEAN
        /\ main = Idle /\ late = Idle
    BY Zenon DEF Init
  <1>9. faults \in 0 .. MaxFaults
    BY StoreAssumption DEF Init
  <1> QED BY <1>2, <1>5, <1>6, <1>7, <1>8, <1>9 DEF Typed

(* Every step keeps the types (persist.go, the workflow, the DestroyEvent *)
(* activities, the selection command).                                    *)
LEMMA NextTyped == StoreInv /\ [Next]_vars => TypeOK'
  <1> SUFFICES ASSUME StoreInv, [Next]_vars PROVE Typed'
    BY TypedIsTypeOK
  <1>t. Typed /\ PcInv /\ (path = "selection" => RowsInv) /\ (path = "atomic" => CreditInv)
    BY TypedIsTypeOK DEF StoreInv, SelectionInv
  <1>i. Idle.pc = "idle" /\ \A r \in Requests : Running(Attempt(r))
    BY IdleIsTyped, AttemptRuns
  <1>s. LoadSelection \in Snapshots
    BY <1>t DEF LoadSelection, Snapshots, RowsTyped, Typed
  <1>1. ASSUME NEW c \in Clips, Begin(c)
        PROVE  Typed'
    <2>1. PICK r \in Decide(c) : request' = r /\ main' = Attempt(r)
      BY <1>1 DEF Begin
    <2>2. r \in Requests
      BY <1>t, <2>1, DecideTyped DEF Typed
    <2> QED BY <1>1, <1>t, <1>i, <2>1, <2>2 DEF Begin, Typed, RowsTyped, event, rows, bytes
  <1>2. CASE Fail
    <2>1. faults' \in 0 .. MaxFaults
      BY <1>2, <1>t, StoreAssumption DEF Fail, Typed
    <2> QED BY <1>2, <1>t, <1>i, <2>1 DEF Fail, Typed, RowsTyped, event, rows, bytes, flow
  <1>3. CASE Timeout
    <2>1. faults' \in 0 .. MaxFaults
      BY <1>3, <1>t, StoreAssumption DEF Timeout, Typed
    <2> QED BY <1>3, <1>t, <1>i, <2>1 DEF Timeout, Typed, RowsTyped, event, rows, bytes, flow
  <1>4. CASE GiveUp
    <2>1. faults' \in 0 .. MaxFaults
      BY <1>4, <1>t, StoreAssumption DEF GiveUp, Typed
    <2> QED BY <1>4, <1>t, <2>1, ProjectionTyped DEF GiveUp, Typed, RowsTyped, event, rows, bytes
  <1>5. CASE Return
    <2>1. request \in Requests
      BY <1>5, <1>t, <1>i DEF Return, Typed
    <2>2. Content[request.clip] \in Media /\ request.winner \in Media
      BY <2>1, StoreAssumption DEF Requests
    <2>3. alias' \in Owners
      BY <1>5, <1>t, <2>2, ProjectionTyped DEF Return, Typed, Owners
    <2> QED BY <1>5, <1>t, <2>3 DEF Return, Typed, RowsTyped, event, rows, bytes
  <1>6. CASE MainStep
    <2>1. Running(main)
      BY <1>6, <1>t, <1>i DEF MainStep, Typed, Step, Load, Copy, HeadObjects, RejectRemoved, CommitSelected,
            CommitPlaced, CommitRefused, Clean, PromoteCopy, InsertAsset, MintShare, AddPopularity,
            DeleteStaging, Supersede, MarkSuperseded, ReclaimLoser, RecordOutcome
    <2>2. RowsTyped' /\ Running(main)'
      BY <1>6, <1>t, <2>1, StepTyped DEF MainStep, Typed
    <2>3. request \in Requests
      BY <1>t, <1>i, <2>1 DEF Typed, Running
    <2> QED BY <1>6, <1>t, <2>2, <2>3 DEF MainStep, Typed, event, flow
  <1>7. CASE LateStep
    <2>1. Running(late)
      BY <1>7, <1>t, <1>i DEF LateStep, Typed, Step, Load, Copy, HeadObjects, RejectRemoved, CommitSelected,
            CommitPlaced, CommitRefused, Clean, PromoteCopy, InsertAsset, MintShare, AddPopularity,
            DeleteStaging, Supersede, MarkSuperseded, ReclaimLoser, RecordOutcome
    <2>2. RowsTyped' /\ Running(late)'
      BY <1>7, <1>t, <2>1, StepTyped DEF LateStep, Typed
    <2> QED BY <1>7, <1>t, <2>2 DEF LateStep, Typed, event, flow
  <1>8. CASE Vanish
    BY <1>8, <1>t DEF Vanish, Typed, RowsTyped, event, rows, bytes, flow
  <1>9. CASE Overturn
    <2>1. faults' \in 0 .. MaxFaults
      BY <1>9, <1>t, StoreAssumption DEF Overturn, Typed
    <2>2. destroy' = destroy \/ destroy' = [NoRun EXCEPT !.pc = "revoke"]
      BY <1>9 DEF Overturn
    <2>3. outcome' \in Outcomes
      BY <1>9, <1>t DEF Overturn, Typed, RowsTyped, Outcomes
    <2>4. removed' \in BOOLEAN
      BY <1>9 DEF Overturn
    <2> QED BY <1>9, <1>t, <2>1, <2>2, <2>3, <2>4 DEF Overturn, NoRun, Typed, RowsTyped, bytes, flow
  <1>10. CASE Expire
    <2>1. expired' \in BOOLEAN
      BY <1>10 DEF Expire
    <2> QED BY <1>10, <1>t, <2>1 DEF Expire, Typed, RowsTyped, rows, bytes, flow
  <1>11. CASE PlanMediaRetention
    BY <1>11, <1>t DEF PlanMediaRetention, NoRun, Typed, RowsTyped, event, rows, bytes, flow
  <1>12. CASE RemoveByEvent
    <2>1. share' \in Shares
      BY <1>12, <1>t DEF RemoveByEvent, Typed, RowsTyped, Shares, ShareStates
    <2> QED BY <1>12, <1>t, <2>1 DEF RemoveByEvent, Typed, RowsTyped, event, bytes, flow
  <1>13. CASE ListUnreclaimed
    <2>1. Unreclaimed \in SUBSET Media
      BY DEF Unreclaimed
    <2> QED BY <1>13, <1>t, <2>1 DEF ListUnreclaimed, Typed, RowsTyped, event, rows, bytes, flow
  <1>14. CASE DeleteObject
    BY <1>14, <1>t DEF DeleteObject, Typed, RowsTyped, event, rows, flow
  <1>15. CASE MarkObjectReclaimed
    <2>1. gone' \in Reclaims
      BY <1>15, <1>t DEF MarkObjectReclaimed, Typed, RowsTyped, Reclaims
    <2> QED BY <1>15, <1>t, <2>1 DEF MarkObjectReclaimed, Typed, RowsTyped, event, bytes, flow
  <1>16. CASE DestroyDone
    BY <1>16, <1>t DEF DestroyDone, NoRun, Typed, RowsTyped, event, rows, bytes, flow
  <1>17. CASE DestroyFails
    <2>1. faults' \in 0 .. MaxFaults
      BY <1>17, <1>t, StoreAssumption DEF DestroyFails, Typed
    <2> QED BY <1>17, <1>t, <2>1 DEF DestroyFails, NoRun, Typed, RowsTyped, event, rows, bytes, flow
  <1>18. CASE PrepareSelection
    <2>1. faults' \in 0 .. MaxFaults
      BY <1>18, <1>t, StoreAssumption DEF PrepareSelection, Typed
    <2>2. Prepared(None) \in SUBSET Media
      BY <1>t DEF Prepared, Typed, RowsTyped
    <2>3. operator' \in Attempts
      BY <1>18, <1>s, <2>2 DEF PrepareSelection, Idle, Attempts, Pcs
    <2> QED BY <1>18, <1>t, <2>1, <2>3 DEF PrepareSelection, Typed, RowsTyped, event, rows, bytes, flow
  <1>19. CASE CommitSelection
    <2>1. operator' \in Attempts
      BY <1>19, IdleIsTyped DEF CommitSelection
    <2>2. owner' \in Owners /\ pop' \in Popularities /\ share' \in Shares /\ credit' \in Credits
      <3>1. CASE UNCHANGED <<owner, pop, share, credit>>
        BY <1>t, <3>1 DEF Typed, RowsTyped
      <3>2. CASE ~UNCHANGED <<owner, pop, share, credit>>
        <4>1. PICK plan \in Selections(owner, seen, share, credit, operator.ready) :
                  ApplySelection(plan, pop, share, outcome, credit)
          BY <1>19, <3>2 DEF CommitSelection
        <4>2. plan \in Owners
          BY <4>1 DEF Selections, PlanSelection
        <4> QED BY <1>t, <4>1, <4>2, SelectionIsTyped DEF Typed, RowsTyped, Popularities
      <3> QED BY <3>1, <3>2
    <2> QED BY <1>19, <1>t, <2>1, <2>2 DEF CommitSelection, Typed, RowsTyped, event, bytes, flow
  <1>20. CASE UNCHANGED vars
    BY <1>20, <1>t DEF vars, Typed, RowsTyped, event, rows, bytes, flow
  <1> QED BY <1>1, <1>2, <1>3, <1>4, <1>5, <1>6, <1>7, <1>8, <1>9, <1>10, <1>11, <1>12, <1>13, <1>14,
             <1>15, <1>16, <1>17, <1>18, <1>19, <1>20 DEF Next, Workflow, Destroying

-----------------------------------------------------------------------------
(* The points of an attempt. *)

(* Away from the compatibility path an attempt stays away from it, a      *)
(* discarded placement belongs to a removed event, and what an attempt    *)
(* found was in the bucket (persist.go, the placement activity).          *)
LEMMA StepOffLegacy ==
    ASSUME NEW a, Running(a), NEW b, Step(a, b), path # "legacy", a.pc \notin LegacyPcs,
           a.pc = "discard" => removed
    PROVE  /\ b.pc \notin LegacyPcs
           /\ b.pc = "discard" => removed
           /\ b.ready \subseteq a.ready \/ b.ready \subseteq objects
           /\ \/ Load(a, b) \/ Copy(a, b) \/ HeadObjects(a, b) \/ RejectRemoved(a, b)
              \/ CommitSelected(a, b) \/ CommitPlaced(a, b) \/ CommitRefused(a, b) \/ Clean(a, b)
  <1>a. a \in Attempts
    BY DEF Running
  <1>1. \/ Load(a, b) \/ Copy(a, b) \/ HeadObjects(a, b) \/ RejectRemoved(a, b)
        \/ CommitSelected(a, b) \/ CommitPlaced(a, b) \/ CommitRefused(a, b) \/ Clean(a, b)
    BY DEF Step, PromoteCopy, InsertAsset, MintShare, AddPopularity, DeleteStaging, Supersede,
           MarkSuperseded, ReclaimLoser, RecordOutcome, LegacyPcs
  <1>2. \A pc : /\ End(a, pc).pc = pc /\ End(a, pc).ready = {}
                /\ After(a, pc).pc = pc /\ After(a, pc).ready = {}
    BY <1>a DEF End, After, Idle, Attempts
  <1>3. Prepared(Content[a.of.clip]) \subseteq objects
    BY DEF Prepared
  <1>4. CASE Load(a, b) \/ Copy(a, b) \/ HeadObjects(a, b)
    <2>1. b.pc \in {"copy", "head", "commit"}
      BY <1>4, <1>a DEF Load, Copy, HeadObjects, Attempts
    <2>2. b.ready = a.ready \/ b.ready = Prepared(Content[a.of.clip])
      BY <1>4, <1>a DEF Load, Copy, HeadObjects, Attempts
    <2> QED BY <1>1, <1>3, <2>1, <2>2 DEF LegacyPcs
  <1>5. CASE RejectRemoved(a, b)
    BY <1>1, <1>2, <1>5 DEF RejectRemoved, LegacyPcs
  <1>6. CASE CommitSelected(a, b) \/ CommitPlaced(a, b) \/ CommitRefused(a, b) \/ Clean(a, b)
    <2>1. b.pc \in {"clean", "failed", "done"} /\ b.ready = {}
      BY <1>2, <1>6 DEF CommitSelected, CommitPlaced, CommitRefused, Clean
    <2> QED BY <1>1, <2>1 DEF LegacyPcs
  <1> QED BY <1>1, <1>4, <1>5, <1>6

(* A step is taken by an attempt that runs.                               *)
LEMMA StepIsRunning ==
    ASSUME NEW a, a # Idle => Running(a), NEW b, Step(a, b)
    PROVE  Running(a)
  BY IdleIsTyped DEF Step, Load, Copy, HeadObjects, RejectRemoved, CommitSelected, CommitPlaced,
     CommitRefused, Clean, PromoteCopy, InsertAsset, MintShare, AddPopularity, DeleteStaging,
     Supersede, MarkSuperseded, ReclaimLoser, RecordOutcome

(* Only a removal makes an attempt discard its placement (persist.go).    *)
LEMMA DiscardIsRemoved ==
    ASSUME NEW a \in Attempts, NEW b, Step(a, b), b.pc = "discard"
    PROVE  removed
  <1>1. \A pc : End(a, pc).pc = pc /\ After(a, pc).pc = pc
    BY DEF End, After, Idle, Attempts
  <1>2. CASE Load(a, b) \/ Copy(a, b) \/ HeadObjects(a, b)
    BY <1>2 DEF Load, Copy, HeadObjects, Attempts
  <1>3. CASE RejectRemoved(a, b)
    BY <1>3 DEF RejectRemoved
  <1>4. CASE CommitSelected(a, b) \/ CommitPlaced(a, b) \/ CommitRefused(a, b) \/ Clean(a, b) \/ RecordOutcome(a, b)
    BY <1>1, <1>4 DEF CommitSelected, CommitPlaced, CommitRefused, Clean, RecordOutcome
  <1>5. CASE PromoteCopy(a, b) \/ InsertAsset(a, b) \/ MintShare(a, b) \/ AddPopularity(a, b)
    BY <1>5 DEF PromoteCopy, InsertAsset, MintShare, AddPopularity, Attempts
  <1>6. CASE DeleteStaging(a, b) \/ Supersede(a, b) \/ MarkSuperseded(a, b) \/ ReclaimLoser(a, b)
    BY <1>6 DEF DeleteStaging, Supersede, MarkSuperseded, ReclaimLoser, Attempts
  <1> QED BY <1>2, <1>3, <1>4, <1>5, <1>6 DEF Step

(* A removal is final, and the points of every activity stay in its path. *)
LEMMA PcInvHolds ==
    /\ Init => PcInv
    /\ Typed /\ PcInv /\ [Next]_vars => PcInv'
  <1>i. Idle.pc = "idle"
    BY IdleIsTyped
  <1>1. Init => PcInv
    BY <1>i DEF Init, PcInv, LegacyPcs
  <1>2. ASSUME Typed, PcInv, [Next]_vars
        PROVE  PcInv'
    <2>p. UNCHANGED path /\ (removed => removed')
      BY <1>2 DEF Next, vars, event, Workflow, Begin, GiveUp, Return, MainStep, LateStep, Fail, Timeout,
            Vanish, Overturn, Expire, PlanMediaRetention, Destroying, RemoveByEvent, ListUnreclaimed,
            DeleteObject, MarkObjectReclaimed, DestroyDone, DestroyFails, PrepareSelection, CommitSelection
    <2>o. path # "selection" => operator'.pc = "idle"
      <3>1. CASE PrepareSelection
        BY <3>1 DEF PrepareSelection
      <3>2. CASE CommitSelection
        BY <3>2, <1>i DEF CommitSelection
      <3>3. CASE UNCHANGED operator
        BY <1>2, <3>3 DEF PcInv
      <3>4. UNCHANGED operator \/ PrepareSelection \/ CommitSelection
        BY <1>2 DEF Next, vars, Workflow, Begin, GiveUp, Return, MainStep, LateStep, Fail, Timeout,
            Vanish, Overturn, Expire, PlanMediaRetention, Destroying, RemoveByEvent, ListUnreclaimed,
            DeleteObject, MarkObjectReclaimed, DestroyDone, DestroyFails
      <3> QED BY <3>1, <3>2, <3>3, <3>4
    <2> DEFINE good(a) == /\ path # "legacy" => a.pc \notin LegacyPcs
                          /\ a.pc = "discard" => removed
    <2>g. good(main) /\ good(late) /\ good(Idle) /\ \A r \in Requests : good(Attempt(r))
      BY <1>2, <1>i, AttemptRuns DEF PcInv, LegacyPcs
    <2>1. CASE MainStep
      <3>1. Running(main)
        BY <1>2, <2>1, StepIsRunning DEF Typed, MainStep
      <3>2. path # "legacy" => main'.pc \notin LegacyPcs
        BY <2>1, <2>g, <3>1, StepOffLegacy DEF MainStep
      <3>3. main'.pc = "discard" => removed
        BY <2>1, <3>1, DiscardIsRemoved DEF MainStep, Running
      <3> QED BY <2>1, <2>p, <2>o, <2>g, <3>2, <3>3 DEF PcInv, MainStep
    <2>2. CASE LateStep
      <3>1. Running(late)
        BY <1>2, <2>2, StepIsRunning DEF Typed, LateStep
      <3>2. path # "legacy" => late'.pc \notin LegacyPcs
        BY <2>2, <2>g, <3>1, StepOffLegacy DEF LateStep
      <3>3. late'.pc = "discard" => removed
        BY <2>2, <3>1, DiscardIsRemoved DEF LateStep, Running
      <3> QED BY <2>2, <2>p, <2>o, <2>g, <3>2, <3>3 DEF PcInv, LateStep
    <2>3. CASE ~MainStep /\ ~LateStep
      <3>1. main' \in {main, Idle} \/ \E r \in Requests : main' = Attempt(r)
        <4>1. ASSUME NEW c \in Clips, Begin(c) PROVE \E r \in Requests : main' = Attempt(r)
          BY <1>2, <4>1, DecideTyped DEF Begin, Typed
        <4>2. CASE Fail \/ Timeout
          BY <1>2, <4>2 DEF Fail, Timeout, Typed
        <4> QED BY <1>2, <2>3, <4>1, <4>2 DEF Next, vars, Workflow, GiveUp, Return, Vanish, Overturn, Expire,
               PlanMediaRetention, Destroying, RemoveByEvent, ListUnreclaimed, DeleteObject,
               MarkObjectReclaimed, DestroyDone, DestroyFails, PrepareSelection, CommitSelection
      <3>2. late' \in {late, main, Idle}
        BY <1>2, <2>3 DEF Next, vars, Workflow, Begin, Fail, Timeout, GiveUp, Return, Vanish, Overturn, Expire,
               PlanMediaRetention, Destroying, RemoveByEvent, ListUnreclaimed, DeleteObject,
               MarkObjectReclaimed, DestroyDone, DestroyFails, PrepareSelection, CommitSelection
      <3>3. good(main') /\ good(late')
        <4> HIDE DEF good
        <4> QED BY <2>g, <3>1, <3>2
      <3> QED BY <2>p, <2>o, <3>3 DEF PcInv
    <2> QED BY <2>1, <2>2, <2>3
  <1> QED BY <1>1, <1>2

-----------------------------------------------------------------------------
(* The reversible selection. *)

(* While a live row is public no share was withdrawn, nothing was deleted *)
(* and no deletion has begun (persist.go:729-755 revokes first).          *)
LEMMA PublicIsNotRevoked ==
    ASSUME RowsInv, RevokedInv, \A m \in Live(owner) : share[m] = "active"
    PROVE  /\ ~Revoked /\ ~Deleting
           /\ \A m \in Media : share[m] # "removed" /\ ~gone[m]
  <1>1. PICK m \in Live(owner) : share[m] = "active"
    BY DEF RowsInv
  <1>2. ~Revoked
    BY <1>1 DEF Revoked, Live
  <1> QED BY <1>2 DEF RevokedInv

(* A committed selection: live rows are public, the others keep a share   *)
(* only if they had one (applySelectionTx).                               *)
LEMMA SelectionApplied ==
    ASSUME NEW plan \in Owners, Live(plan) # {},
           \A m \in Known(plan) : plan[m] \in Live(plan),
           NEW pp, NEW shr, NEW cr, NEW out, out = outcome',
           \A m \in Media : shr[m] # "removed" /\ (shr[m] # "none" => m \in Known(plan)),
           ~Deleting, \A m \in Media : ~gone[m],
           ApplySelection(plan, pp, shr, out, cr), UNCHANGED <<destroy, gone>>
    PROVE  RowsInv' /\ RevokedInv' /\ SupportInv' /\ owner' = plan
  <1>1. /\ owner' = plan
        /\ \A m \in Media : /\ plan[m] = m => share'[m] = "active" /\ pop'[m] = Support(m, out)
                            /\ plan[m] # m => share'[m] = shr[m]
    BY DEF ApplySelection
  <1>2. \A m \in Media : m \in Live(plan) => m \in Known(plan)
    BY SelectionAssumption DEF Live, Known
  <1>3. RowsInv'
    BY <1>1, <1>2 DEF RowsInv, Live, Known
  <1>4. RevokedInv'
    <2>1. \A m \in Media : share'[m] # "removed" /\ ~gone'[m]
      BY <1>1
    <2>2. ~Deleting'
      BY DEF Deleting
    <2> QED BY <2>1, <2>2 DEF RevokedInv
  <1>5. SupportInv'
    BY <1>1 DEF SupportInv, Live
  <1> QED BY <1>1, <1>3, <1>4, <1>5

(* A recorded outcome other than an acceptance counts for nothing.        *)
LEMMA SupportDependsOnAccepted ==
    ASSUME NEW m, NEW out1, NEW out2,
           \A c \in Clips : out1[c] = "accepted" <=> out2[c] = "accepted"
    PROVE  Support(m, out1) = Support(m, out2)
  <1>1. {c \in Clips : out1[c] = "accepted" /\ <<Content[c], m>> \in Match}
        = {c \in Clips : out2[c] = "accepted" /\ <<Content[c], m>> \in Match}
    OBVIOUS
  <1> QED BY <1>1 DEF Support

(* The combined transaction (video_selection_repo.go).                    *)
LEMMA CommitKeepsSelection ==
    ASSUME Typed, path = "selection", SelectionInv, NEW a, Running(a), NEW b, CommitSelected(a, b),
           ~removed => a.ready \subseteq objects \/ Revoked,
           UNCHANGED <<event, destroy>>
    PROVE  RowsInv' /\ RevokedInv' /\ SupportInv'
           /\ (~removed /\ ~Revoked' => ~Revoked /\ Known(owner') \subseteq objects')
  <1>1. CASE UNCHANGED rows
    BY <1>1 DEF CommitSelected, SelectionInv, RowsInv, RevokedInv, SupportInv, BytesInv, Revoked, Deleting,
          Live, Known, rows, bytes
  <1>2. CASE ~UNCHANGED rows
    <2>1. /\ ~removed /\ outcome' = Accepted(a.of) /\ UNCHANGED gone /\ UNCHANGED bytes
          /\ \E plan \in SelectionPlans(a) :
                ApplySelection(plan, PlacedPopularity(a.of), PlacedShare(a.of), Accepted(a.of), PlacedCredit(a.of))
      BY <1>2 DEF CommitSelected
    <2>2. PICK plan \in SelectionPlans(a) :
              ApplySelection(plan, PlacedPopularity(a.of), PlacedShare(a.of), Accepted(a.of), PlacedCredit(a.of))
      BY <2>1
    <2>3. a.of \in Requests /\ a.of.losers \subseteq Media
      BY DEF Running, Requests
    <2>4. /\ SelectionCommits(a) /\ PlacementApplies(a.of)
          /\ plan \in Owners
          /\ Known(plan) = Known(owner) \cup {Content[a.of.clip]}
          /\ Winner(a.of) \in Live(plan)
          /\ \A m \in Known(plan) : plan[m] \in Live(plan)
      BY <2>3, SelectedPlan DEF Typed, SelectionInv
    <2>5. \A m \in Live(owner) : share[m] = "active"
      BY <2>4 DEF SelectionCommits
    <2>6. /\ ~Revoked /\ ~Deleting
          /\ \A m \in Media : share[m] # "removed" /\ ~gone[m]
      BY <2>5, PublicIsNotRevoked DEF SelectionInv
    <2>7. ASSUME NEW m \in Media
          PROVE  PlacedShare(a.of)[m] # "removed" /\ (PlacedShare(a.of)[m] # "none" => m \in Known(plan))
      <3>1. m = Winner(a.of) => m \in Known(plan)
        BY <2>4, SelectionAssumption DEF Live, Known
      <3>2. share[m] # "none" => m \in Known(plan)
        BY <2>4 DEF SelectionInv, RowsInv
      <3> QED BY <2>6, <3>1, <3>2 DEF PlacedShare
    <2>8. RowsInv' /\ RevokedInv' /\ SupportInv' /\ owner' = plan
      BY <2>1, <2>2, <2>4, <2>6, <2>7, SelectionApplied
    <2>9. Known(plan) \subseteq objects
      <3>1. Known(owner) \subseteq objects /\ a.ready \subseteq objects
        BY <2>1, <2>6 DEF SelectionInv, BytesInv
      <3>2. owner[Content[a.of.clip]] = None => Content[a.of.clip] \in a.ready
        BY <2>4 DEF SelectionCommits
      <3>3. Content[a.of.clip] \in Media
        BY <2>3, StoreAssumption DEF Requests
      <3> QED BY <2>4, <3>1, <3>2, <3>3 DEF Known
    <2> QED BY <2>1, <2>6, <2>8, <2>9 DEF bytes
  <1> QED BY <1>1, <1>2

(* The operator's transaction (video_selection_repo.go:20-94).            *)
LEMMA ReselectionKeepsSelection ==
    ASSUME Typed, path = "selection", SelectionInv, CommitSelection
    PROVE  RowsInv' /\ RevokedInv' /\ SupportInv'
           /\ (~Revoked' => ~Revoked) /\ Known(owner') = Known(owner)
  <1>1. CASE UNCHANGED <<owner, pop, share, credit>>
    BY <1>1 DEF CommitSelection, SelectionInv, RowsInv, RevokedInv, SupportInv, Revoked, Deleting, Live, Known
  <1>2. CASE ~UNCHANGED <<owner, pop, share, credit>>
    <2>1. PICK plan \in Selections(owner, seen, share, credit, operator.ready) :
              ApplySelection(plan, pop, share, outcome, credit)
      BY <1>2 DEF CommitSelection
    <2>2. UNCHANGED <<gone, outcome, destroy>>
      BY DEF CommitSelection
    <2>3. PICK eligible : plan \in PlanSelection(owner, seen, eligible)
      BY <2>1 DEF Selections
    <2>4. \A m \in Live(owner) : share[m] = "active"
      BY <2>1 DEF Selections
    <2>5. /\ ~Revoked /\ ~Deleting
          /\ \A m \in Media : share[m] # "removed" /\ ~gone[m]
      BY <2>4, PublicIsNotRevoked DEF SelectionInv
    <2>6. owner \in Owners /\ \A k \in Known(owner) : Root(owner, k) \in Live(owner)
      BY DEF SelectionInv, RowsInv, Root, Live, Typed, RowsTyped
    <2>7. /\ plan \in Owners
          /\ Known(plan) = Known(owner)
          /\ Live(owner) \subseteq Live(plan)
          /\ \A m \in Known(plan) : plan[m] \in Live(plan)
      BY <2>3, <2>6, PlanKeepsRoots
    <2>8. RowsInv' /\ RevokedInv' /\ SupportInv' /\ owner' = plan
      BY <2>1, <2>2, <2>5, <2>7, SelectionApplied DEF SelectionInv, RowsInv
    <2> QED BY <2>5, <2>7, <2>8
  <1> QED BY <1>1, <1>2

(* One step of an attempt of the current path (persist.go).               *)
LEMMA StepKeepsSelection ==
    ASSUME Typed, PcInv, path = "selection", SelectionInv, NEW a \in {main, late}, Running(a),
           NEW b, Step(a, b), UNCHANGED <<event, destroy>>
    PROVE  /\ RowsInv' /\ RevokedInv' /\ SupportInv'
           /\ ~removed /\ ~Revoked' =>
                 ~Revoked /\ Known(owner') \subseteq objects' /\ objects \subseteq objects' /\ b.ready \subseteq objects'
  <1>1. a.pc \notin LegacyPcs /\ (a.pc = "discard" => removed)
    BY DEF PcInv
  <1>2. /\ b.ready \subseteq a.ready \/ b.ready \subseteq objects
        /\ \/ Load(a, b) \/ Copy(a, b) \/ HeadObjects(a, b) \/ RejectRemoved(a, b)
           \/ CommitSelected(a, b) \/ CommitPlaced(a, b) \/ CommitRefused(a, b) \/ Clean(a, b)
    BY <1>1, StepOffLegacy
  <1>3. ~removed /\ ~Revoked => a.ready \subseteq objects /\ Known(owner) \subseteq objects
    BY DEF SelectionInv, BytesInv
  <1>4. CASE CommitSelected(a, b)
    <2>1. UNCHANGED objects
      BY <1>4 DEF CommitSelected, bytes
    <2>2. /\ RowsInv' /\ RevokedInv' /\ SupportInv'
          /\ ~removed /\ ~Revoked' => ~Revoked /\ Known(owner') \subseteq objects'
      BY <1>3, <1>4, CommitKeepsSelection
    <2> QED BY <1>2, <1>3, <2>1, <2>2
  <1>5. CASE ~CommitSelected(a, b)
    <2>1. UNCHANGED <<owner, pop, share, gone>>
      BY <1>2, <1>5 DEF Load, Copy, HeadObjects, RejectRemoved, CommitPlaced, CommitRefused, Clean, rows, bytes
    <2>2. \A c \in Clips : outcome'[c] = "accepted" <=> outcome[c] = "accepted"
      <3>1. CASE RejectRemoved(a, b)
        BY <3>1 DEF RejectRemoved, Typed, RowsTyped, Outcomes
      <3>2. CASE ~RejectRemoved(a, b)
        BY <1>2, <1>5, <3>2 DEF Load, Copy, HeadObjects, CommitPlaced, CommitRefused, Clean, rows
      <3> QED BY <3>1, <3>2
    <2>3. \A m : Support(m, outcome') = Support(m, outcome)
      BY <2>2, SupportDependsOnAccepted
    <2>4. removed \/ objects \subseteq objects'
      BY <1>1, <1>2, <1>5 DEF Load, Copy, HeadObjects, RejectRemoved, CommitPlaced, CommitRefused, Clean, bytes
    <2>5. RowsInv'
      BY <2>1 DEF SelectionInv, RowsInv, Live, Known
    <2>6. RevokedInv' /\ (Revoked' <=> Revoked)
      BY <2>1 DEF SelectionInv, RevokedInv, Revoked, Deleting
    <2>7. SupportInv'
      BY <2>1, <2>3 DEF SelectionInv, SupportInv, Live
    <2> QED BY <1>2, <1>3, <2>1, <2>4, <2>5, <2>6, <2>7
  <1> QED BY <1>4, <1>5

(* The initial state shows one clip, whose bytes are stored.              *)
LEMMA InitSelection == Init /\ path = "selection" => SelectionInv
  <1> SUFFICES ASSUME Init, path = "selection" PROVE SelectionInv
    OBVIOUS
  <1> DEFINE shown == Content[First]
  <1>1. shown \in Media /\ First \in Clips /\ <<shown, shown>> \in Match
    BY StoreAssumption, SelectionAssumption
  <1>2. /\ owner = [m \in Media |-> IF m = shown THEN m ELSE None]
        /\ share = [m \in Media |-> IF m = shown THEN "active" ELSE "none"]
        /\ pop = [m \in Media |-> IF m = shown THEN 1 ELSE 0]
        /\ gone = [m \in Media |-> FALSE]
        /\ outcome = [c \in Clips |-> IF c = First THEN "accepted" ELSE "pending"]
        /\ objects = {shown}
        /\ main = Idle /\ late = Idle /\ operator = Idle /\ destroy = NoRun
    BY DEF Init
  <1>3. Live(owner) = {shown} /\ Known(owner) = {shown} /\ owner[shown] = shown
    BY <1>1, <1>2, SelectionAssumption DEF Live, Known
  <1>4. RowsInv
    BY <1>1, <1>2, <1>3 DEF RowsInv
  <1>5. RevokedInv
    BY <1>2 DEF RevokedInv, Deleting, NoRun
  <1>6. BytesInv
    BY <1>2, <1>3, IdleIsTyped DEF BytesInv
  <1>7. SupportInv
    <2>1. {c \in Clips : outcome[c] = "accepted" /\ <<Content[c], shown>> \in Match} = {First}
      BY <1>1, <1>2
    <2>2. Support(shown, outcome) = 1
      BY <2>1, FS_Singleton DEF Support
    <2> QED BY <1>1, <1>2, <1>3, <2>2 DEF SupportInv
  <1> QED BY <1>4, <1>5, <1>6, <1>7 DEF SelectionInv

(* Every step keeps the invariant of the reversible selection.            *)
LEMMA NextSelection ==
    Typed /\ PcInv /\ path = "selection" /\ SelectionInv /\ [Next]_vars => SelectionInv'
  <1> SUFFICES ASSUME Typed, PcInv, path = "selection", SelectionInv, [Next]_vars
               PROVE  SelectionInv'
    OBVIOUS
  <1>i. Idle.ready = {} /\ \A r \in Requests : Attempt(r).ready = {}
    BY IdleIsTyped, AttemptRuns
  <1>b. ~removed /\ ~Revoked => /\ Known(owner) \subseteq objects
                                /\ main.ready \subseteq objects /\ late.ready \subseteq objects
                                /\ operator.ready \subseteq objects
    BY DEF SelectionInv, BytesInv
  <1>k. ASSUME UNCHANGED <<owner, pop, share, gone, outcome>>
        PROVE  RowsInv' /\ SupportInv' /\ (Revoked' <=> Revoked) /\ Known(owner') = Known(owner)
               /\ (\E m \in Media : share'[m] = "removed") = (\E m \in Media : share[m] = "removed")
               /\ (\E m \in Media : gone'[m]) = (\E m \in Media : gone[m])
    BY <1>k DEF SelectionInv, RowsInv, SupportInv, Revoked, Live, Known
  <1>1. CASE MainStep
    <2>1. Running(main) /\ UNCHANGED <<event, destroy, late, operator>>
      BY <1>1, StepIsRunning DEF MainStep, Typed
    <2>2. /\ RowsInv' /\ RevokedInv' /\ SupportInv'
          /\ ~removed /\ ~Revoked' =>
                ~Revoked /\ Known(owner') \subseteq objects' /\ objects \subseteq objects' /\ main'.ready \subseteq objects'
      BY <1>1, <2>1, StepKeepsSelection DEF MainStep
    <2>3. BytesInv'
      BY <1>b, <2>1, <2>2 DEF BytesInv, event
    <2> QED BY <2>2, <2>3 DEF SelectionInv
  <1>2. CASE LateStep
    <2>1. Running(late) /\ UNCHANGED <<event, destroy, main, operator>>
      BY <1>2, StepIsRunning DEF LateStep, Typed
    <2>2. /\ RowsInv' /\ RevokedInv' /\ SupportInv'
          /\ ~removed /\ ~Revoked' =>
                ~Revoked /\ Known(owner') \subseteq objects' /\ objects \subseteq objects' /\ late'.ready \subseteq objects'
      BY <1>2, <2>1, StepKeepsSelection DEF LateStep
    <2>3. BytesInv'
      BY <1>b, <2>1, <2>2 DEF BytesInv, event
    <2> QED BY <2>2, <2>3 DEF SelectionInv
  <1>3. CASE CommitSelection
    <2>1. /\ RowsInv' /\ RevokedInv' /\ SupportInv'
          /\ (~Revoked' => ~Revoked) /\ Known(owner') = Known(owner)
      BY <1>3, ReselectionKeepsSelection
    <2>2. BytesInv'
      BY <1>3, <1>b, <1>i, <2>1 DEF CommitSelection, BytesInv, event, bytes
    <2> QED BY <2>1, <2>2 DEF SelectionInv
  <1>4. CASE PrepareSelection
    <2>1. operator'.ready = Prepared(None) /\ Prepared(None) \subseteq objects
      BY <1>4 DEF PrepareSelection, Idle, Prepared
    <2>2. UNCHANGED <<rows, bytes, event, destroy, main, late>>
      BY <1>4 DEF PrepareSelection
    <2>3. RevokedInv'
      BY <1>k, <2>2 DEF rows, SelectionInv, RevokedInv, Deleting
    <2>4. BytesInv'
      BY <1>b, <1>k, <2>1, <2>2 DEF BytesInv, rows, bytes, event
    <2> QED BY <1>k, <2>2, <2>3, <2>4 DEF rows, SelectionInv
  <1>5. CASE Overturn
    <2>1. UNCHANGED <<owner, pop, share, gone>> /\ removed'
      BY <1>5 DEF Overturn
    <2>2. \A c \in Clips : outcome'[c] = "accepted" <=> outcome[c] = "accepted"
      BY <1>5 DEF Overturn, Typed, RowsTyped, Outcomes
    <2>3. \A m : Support(m, outcome') = Support(m, outcome)
      BY <2>2, SupportDependsOnAccepted
    <2>4. RowsInv' /\ SupportInv'
      BY <2>1, <2>3 DEF SelectionInv, RowsInv, SupportInv, Live, Known
    <2>5. RevokedInv'
      <3>1. UNCHANGED destroy \/ ~Deleting'
        BY <1>5 DEF Overturn, NoRun, Deleting
      <3> QED BY <2>1, <3>1 DEF SelectionInv, RevokedInv, Revoked, Deleting
    <2> QED BY <2>1, <2>4, <2>5 DEF SelectionInv, BytesInv
  <1>6. CASE RemoveByEvent
    <2>1. UNCHANGED <<owner, pop, gone, outcome, event, bytes>> /\ Revoked'
          /\ \A m \in Media : share'[m] # "none" <=> share[m] # "none"
      BY <1>6 DEF RemoveByEvent, Revoked
    <2>2. RowsInv' /\ SupportInv'
      BY <2>1 DEF SelectionInv, RowsInv, SupportInv, Live, Known
    <2>3. RevokedInv' /\ BytesInv'
      BY <2>1 DEF RevokedInv, BytesInv
    <2> QED BY <2>2, <2>3 DEF SelectionInv
  <1>7. CASE MarkObjectReclaimed
    <2>1. Deleting /\ UNCHANGED <<owner, pop, share, outcome, event, bytes>>
      BY <1>7 DEF MarkObjectReclaimed, Deleting
    <2>2. Revoked /\ Revoked'
      BY <2>1 DEF SelectionInv, RevokedInv, Revoked
    <2>3. RowsInv' /\ SupportInv'
      BY <2>1 DEF SelectionInv, RowsInv, SupportInv, Live, Known
    <2> QED BY <2>2, <2>3 DEF SelectionInv, RevokedInv, BytesInv
  <1>8. CASE ListUnreclaimed \/ DeleteObject \/ DestroyDone
    <2>1. Deleting /\ UNCHANGED <<owner, pop, share, gone, outcome>>
      BY <1>8 DEF ListUnreclaimed, DeleteObject, DestroyDone, Deleting, rows
    <2>2. Revoked /\ Revoked'
      BY <2>1 DEF SelectionInv, RevokedInv, Revoked
    <2> QED BY <1>k, <2>1, <2>2 DEF SelectionInv, RevokedInv, BytesInv
  <1>9. CASE PlanMediaRetention \/ DestroyFails
    <2>1. ~Deleting' /\ UNCHANGED <<rows, bytes, event, main, late, operator>>
      BY <1>9 DEF PlanMediaRetention, DestroyFails, NoRun, Deleting
    <2>2. RevokedInv'
      BY <1>k, <2>1 DEF rows, SelectionInv, RevokedInv
    <2>3. BytesInv'
      BY <1>b, <1>k, <2>1 DEF BytesInv, rows, bytes, event
    <2> QED BY <1>k, <2>1, <2>2, <2>3 DEF rows, SelectionInv
  <1>10. CASE \/ \E c \in Clips : Begin(c)
              \/ Fail \/ Timeout \/ GiveUp \/ Return \/ Vanish \/ Expire \/ UNCHANGED vars
    <2>1. UNCHANGED <<owner, pop, share, gone, outcome, objects, removed, destroy, operator>>
      BY <1>10 DEF Begin, Fail, Timeout, GiveUp, Return, Vanish, Expire, vars, rows, bytes, event
    <2>2. main'.ready \in {main.ready, {}}
      <3>1. ASSUME NEW c \in Clips, Begin(c) PROVE main'.ready = {}
        BY <1>i, <3>1, DecideTyped DEF Begin, Typed
      <3> QED BY <1>10, <1>i, <3>1 DEF Fail, Timeout, GiveUp, Return, Vanish, Expire, vars, Typed
    <2>3. late'.ready \in {late.ready, main.ready, {}}
      BY <1>10, <1>i DEF Begin, Fail, Timeout, GiveUp, Return, Vanish, Expire, vars
    <2>4. RevokedInv'
      BY <1>k, <2>1 DEF SelectionInv, RevokedInv, Deleting
    <2>5. BytesInv'
      BY <1>b, <1>k, <2>1, <2>2, <2>3 DEF BytesInv
    <2> QED BY <1>k, <2>1, <2>4, <2>5 DEF SelectionInv
  <1> QED BY <1>1, <1>2, <1>3, <1>4, <1>5, <1>6, <1>7, <1>8, <1>9, <1>10 DEF Next, Workflow, Destroying

-----------------------------------------------------------------------------
(* The atomic placement. *)

(* The transaction moves the votes with the credits                       *)
(* (video_placement_repo.go:83-189).                                      *)
LEMMA PlacementKeepsCredits ==
    ASSUME RowsTyped, CreditInv, NEW r \in Requests, PlacementApplies(r),
           owner' = PlacedOwner(r), credit' = PlacedCredit(r), pop' = PlacedPopularity(r),
           outcome' = Accepted(r)
    PROVE  CreditInv'
  <1> DEFINE w == Winner(r)
  <1>1. w \in Live(PlacedOwner(r)) /\ w \in Media /\ PlacedOwner(r) \in Owners
    BY PlacementKeepsRows DEF RowsTyped, Live
  <1>2. ASSUME NEW c \in Clips, credit'[c] # None
        PROVE  credit'[c] \in Live(owner')
    <2>1. credit'[c] = IF c = r.clip \/ credit[c] \in r.losers \ {w} THEN w ELSE credit[c]
      BY DEF PlacedCredit
    <2>2. CASE credit'[c] = w
      BY <1>1, <2>2
    <2>3. CASE credit'[c] # w
      <3>1. credit'[c] = credit[c] /\ credit[c] \notin r.losers \ {w}
        BY <2>1, <2>3
      <3>2. credit[c] \in Media /\ owner[credit[c]] = credit[c]
        BY <1>2, <3>1 DEF CreditInv, Live
      <3>3. PlacedOwner(r)[credit[c]] = credit[c]
        BY <3>1, <3>2, SelectionAssumption DEF PlacedOwner
      <3> QED BY <3>1, <3>2, <3>3 DEF Live
    <2> QED BY <2>2, <2>3
  <1>3. ASSUME NEW c \in Clips, outcome'[c] = "accepted"
        PROVE  credit'[c] # None
    <2>1. w # None
      BY <1>1, SelectionAssumption
    <2>2. c = r.clip \/ outcome[c] = "accepted"
      BY <1>3 DEF Accepted, RowsTyped, Outcomes
    <2> QED BY <2>1, <2>2 DEF PlacedCredit, CreditInv
  <1>4. ASSUME NEW k \in Live(owner')
        PROVE  pop'[k] = Cardinality({c \in Clips : credit'[c] = k})
    BY <1>4, PlacedPopularityIsCredits DEF RowsTyped
  <1> QED BY <1>2, <1>3, <1>4 DEF CreditInv

(* The initial clip is credited with its post.                            *)
LEMMA InitCredits == Init /\ path = "atomic" => CreditInv
  <1> SUFFICES ASSUME Init, path = "atomic" PROVE CreditInv
    OBVIOUS
  <1> DEFINE shown == Content[First]
  <1>1. shown \in Media /\ First \in Clips /\ shown # None
    BY StoreAssumption, SelectionAssumption
  <1>2. /\ owner = [m \in Media |-> IF m = shown THEN m ELSE None]
        /\ pop = [m \in Media |-> IF m = shown THEN 1 ELSE 0]
        /\ outcome = [c \in Clips |-> IF c = First THEN "accepted" ELSE "pending"]
        /\ credit = [c \in Clips |-> IF c = First THEN shown ELSE None]
    BY DEF Init
  <1>3. Live(owner) = {shown}
    BY <1>1, <1>2, SelectionAssumption DEF Live
  <1>4. {c \in Clips : credit[c] = shown} = {First}
    BY <1>1, <1>2
  <1>5. pop[shown] = Cardinality({c \in Clips : credit[c] = shown})
    BY <1>1, <1>2, <1>4, FS_Singleton
  <1> QED BY <1>1, <1>2, <1>3, <1>5 DEF CreditInv

(* Every step keeps the credits: retries and late attempts of a placement *)
(* are answered by PlacementApplies (video_placement_repo.go:83-189).     *)
LEMMA NextCredits ==
    Typed /\ PcInv /\ path = "atomic" /\ CreditInv /\ [Next]_vars => CreditInv'
  <1> SUFFICES ASSUME Typed, PcInv, path = "atomic", CreditInv, [Next]_vars
               PROVE  CreditInv'
    OBVIOUS
  <1>1. ASSUME NEW a \in {main, late}, a # Idle => Running(a), NEW b, Step(a, b)
        PROVE  CreditInv'
    <2>1. Running(a)
      BY <1>1, StepIsRunning
    <2>2. a.pc \notin LegacyPcs /\ (a.pc = "discard" => removed)
      BY DEF PcInv
    <2>3. \/ Load(a, b) \/ Copy(a, b) \/ HeadObjects(a, b) \/ RejectRemoved(a, b)
          \/ CommitPlaced(a, b) \/ CommitRefused(a, b) \/ Clean(a, b)
      BY <1>1, <2>1, <2>2, StepOffLegacy DEF CommitSelected
    <2>4. CASE CommitPlaced(a, b)
      BY <2>1, <2>4, PlacementKeepsCredits DEF CommitPlaced, Running, Typed
    <2>5. CASE RejectRemoved(a, b)
      <3>1. \A c \in Clips : outcome'[c] = "accepted" => outcome[c] = "accepted"
        BY <2>5 DEF RejectRemoved, Typed, RowsTyped, Outcomes
      <3> QED BY <2>5, <3>1 DEF RejectRemoved, CreditInv, Live
    <2>6. CASE Load(a, b) \/ Copy(a, b) \/ HeadObjects(a, b) \/ CommitRefused(a, b) \/ Clean(a, b)
      BY <2>6 DEF Load, Copy, HeadObjects, CommitRefused, Clean, CreditInv, Live, rows
    <2> QED BY <2>3, <2>4, <2>5, <2>6
  <1>2. CASE MainStep
    BY <1>1, <1>2 DEF MainStep, Typed
  <1>3. CASE LateStep
    BY <1>1, <1>3 DEF LateStep, Typed
  <1>4. CASE Overturn
    <2>1. \A c \in Clips : outcome'[c] = "accepted" => outcome[c] = "accepted"
      BY <1>4 DEF Overturn, Typed, RowsTyped, Outcomes
    <2> QED BY <1>4, <2>1 DEF Overturn, CreditInv, Live
  <1>5. ~CommitSelection
    BY DEF PcInv, CommitSelection
  <1>6. CASE ~MainStep /\ ~LateStep /\ ~Overturn
    <2>1. UNCHANGED <<owner, pop, credit, outcome>>
      BY <1>5, <1>6 DEF Next, vars, rows, Workflow, Begin, GiveUp, Return, Fail, Timeout, Vanish, Expire,
         PlanMediaRetention, Destroying, RemoveByEvent, ListUnreclaimed, DeleteObject, MarkObjectReclaimed,
         DestroyDone, DestroyFails, PrepareSelection
    <2> QED BY <2>1 DEF CreditInv, Live
  <1> QED BY <1>2, <1>3, <1>4, <1>6

-----------------------------------------------------------------------------
(* Theorems. *)

(* The inductive invariant of the stored media: its rows, its attempts and *)
(* its bytes, on either placement path.                                   *)
LEMMA StoreInvHolds == Spec => []StoreInv
  <1>1. Init => StoreInv
    BY InitTyped, PcInvHolds, InitSelection, InitCredits DEF StoreInv
  <1>2. StoreInv /\ [Next]_vars => StoreInv'
    <2> SUFFICES ASSUME StoreInv, [Next]_vars PROVE StoreInv'
      OBVIOUS
    <2>1. Typed /\ TypeOK'
      BY NextTyped, TypedIsTypeOK DEF StoreInv
    <2>2. PcInv'
      BY <2>1, PcInvHolds DEF StoreInv
    <2>3. UNCHANGED path
      BY DEF Next, vars, event, Workflow, Begin, GiveUp, Return, MainStep, LateStep, Fail, Timeout,
            Vanish, Overturn, Expire, PlanMediaRetention, Destroying, RemoveByEvent, ListUnreclaimed,
            DeleteObject, MarkObjectReclaimed, DestroyDone, DestroyFails, PrepareSelection, CommitSelection
    <2>4. path' = "selection" => SelectionInv'
      BY <2>1, <2>3, NextSelection DEF StoreInv
    <2>5. path' = "atomic" => CreditInv'
      BY <2>1, <2>3, NextCredits DEF StoreInv
    <2> QED BY <2>1, <2>2, <2>4, <2>5 DEF StoreInv
  <1> QED BY <1>1, <1>2, PTL DEF Spec

(* Type correctness: the rows, the attempts in progress and what they     *)
(* remember keep their shapes, and an attempt that runs has a request     *)
(* (persist.go, the video repositories).                                  *)
THEOREM ClipTypeOK == Spec => []TypeOK
  <1>1. StoreInv => TypeOK
    BY DEF StoreInv
  <1> QED BY <1>1, StoreInvHolds, PTL

(* What the API lists or plays for an event that stands has its bytes,    *)
(* whatever placements, late attempts, reselections and deletions overlap *)
(* (video_repo.go, ResolveShare and ListLiveForEvents).                   *)
THEOREM ServedHasBytesHolds == Spec => []ServedHasBytes
  <1>1. StoreInv => ServedHasBytes
    <2> SUFFICES ASSUME StoreInv, path = "selection", ~removed
                 PROVE  /\ Listed \subseteq objects
                        /\ \A m \in Media : ResolveShare(m) = "serving" => Terminal(owner, m) \in objects
      BY DEF ServedHasBytes
    <2>1. SelectionInv /\ owner \in Owners
      BY DEF StoreInv, TypeOK
    <2>2. \A m \in Live(owner) : m \in Known(owner)
      BY SelectionAssumption DEF Live, Known
    <2>3. CASE Revoked
      BY <2>3 DEF Revoked, Listed, ResolveShare
    <2>4. CASE ~Revoked
      <3>1. Known(owner) \subseteq objects
        BY <2>1, <2>4 DEF SelectionInv, BytesInv
      <3>2. Listed \subseteq objects
        BY <2>2, <3>1 DEF Listed, Live
      <3>3. ASSUME NEW m \in Media, ResolveShare(m) = "serving"
            PROVE  Terminal(owner, m) \in objects
        <4>1. m \in Known(owner)
          BY <2>1, <3>3 DEF ResolveShare, SelectionInv, RowsInv
        <4>2. Terminal(owner, m) = owner[m] /\ owner[m] \in Live(owner)
          BY <2>1, <4>1, TerminalIsOwner DEF SelectionInv, RowsInv
        <4> QED BY <2>2, <3>1, <4>2
      <3> QED BY <3>2, <3>3
    <2> QED BY <2>3, <2>4
  <1> QED BY <1>1, StoreInvHolds, PTL

(* Popularity counts the accepted posts that show a selected clip, or the *)
(* posts credited to it, through retries, late attempts, mergers and      *)
(* restorations (video_selection_repo.go, video_placement_repo.go).       *)
THEOREM PopularityIsSupportHolds == Spec => []PopularityIsSupport
  <1>1. StoreInv => PopularityIsSupport
    BY DEF StoreInv, SelectionInv, SupportInv, CreditInv, PopularityIsSupport
  <1> QED BY <1>1, StoreInvHolds, PTL

(* On the current path a withdrawn event stays withdrawn: no placement,   *)
(* retry or prepared reselection makes one of its shares public again     *)
(* (video_repo.go:536-558; video_placement_selection.go:80-112).          *)
THEOREM WithdrawalIsFinal == Spec => [][path = "selection" /\ Revoked => Revoked']_vars
  <1>1. StoreInv /\ [Next]_vars => [path = "selection" /\ Revoked => Revoked']_vars
    <2> SUFFICES ASSUME StoreInv, [Next]_vars, path = "selection", Revoked
                 PROVE  Revoked'
      OBVIOUS
    <2>1. Typed /\ PcInv /\ SelectionInv
      BY TypedIsTypeOK DEF StoreInv
    <2>2. \E m \in Live(owner) : share[m] # "active"
      BY <2>1 DEF SelectionInv, RowsInv, Revoked, Live
    <2>3. ASSUME NEW a \in {main, late}, a # Idle => Running(a), NEW b, Step(a, b)
          PROVE  UNCHANGED share
      <3>1. Running(a)
        BY <2>3, StepIsRunning
      <3>2. a.pc \notin LegacyPcs /\ (a.pc = "discard" => removed)
        BY <2>1 DEF PcInv
      <3>3. \/ Load(a, b) \/ Copy(a, b) \/ HeadObjects(a, b) \/ RejectRemoved(a, b)
            \/ CommitSelected(a, b) \/ CommitRefused(a, b) \/ Clean(a, b)
        BY <2>3, <3>1, <3>2, StepOffLegacy DEF CommitPlaced
      <3>4. CommitSelected(a, b) => UNCHANGED rows
        BY <2>2 DEF CommitSelected, SelectionPlans, SelectionCommits
      <3> QED BY <3>3, <3>4 DEF Load, Copy, HeadObjects, RejectRemoved, CommitRefused, Clean, rows
    <2>4. CASE MainStep
      BY <2>1, <2>3, <2>4 DEF MainStep, Typed, Revoked
    <2>5. CASE LateStep
      BY <2>1, <2>3, <2>5 DEF LateStep, Typed, Revoked
    <2>6. CASE CommitSelection
      BY <2>2, <2>6 DEF CommitSelection, Selections, Revoked
    <2>7. CASE RemoveByEvent
      BY <2>7 DEF RemoveByEvent, Revoked
    <2>8. CASE ~MainStep /\ ~LateStep /\ ~CommitSelection /\ ~RemoveByEvent
      <3>1. UNCHANGED share
        BY <2>8 DEF Next, vars, rows, Workflow, Begin, GiveUp, Return, Fail, Timeout, Vanish, Overturn, Expire,
           PlanMediaRetention, Destroying, ListUnreclaimed, DeleteObject, MarkObjectReclaimed,
           DestroyDone, DestroyFails, PrepareSelection
      <3> QED BY <3>1 DEF Revoked
    <2> QED BY <2>4, <2>5, <2>6, <2>7, <2>8
  <1> QED BY <1>1, StoreInvHolds, PTL DEF Spec

=============================================================================
