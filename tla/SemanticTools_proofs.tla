------------------------ MODULE SemanticTools_proofs ------------------------
(***************************************************************************)
(* What holds of every answer of the public tools: the listing operators   *)
(* and the version order its parts rest on, then the invariants of         *)
(* SemanticTools, each with the lemmas it needs.                           *)
(***************************************************************************)
EXTENDS SemanticTools, FiniteSetTheorems, WellFoundedInduction, TLAPS

(* The rank of an element is its place, counted from 0.                     *)
LEMMA RanksTellApart ==
  ASSUME NEW S, IsFiniteSet(S), NEW R, StrictlyOrders(R, S), NEW x \in S, NEW y \in S,
         <<x, y>> \in R
  PROVE  Cardinality(Preceding(x, S, R)) < Cardinality(Preceding(y, S, R))
<1> DEFINE before == Preceding(x, S, R)
           upTo == before \cup {x}
           after == Preceding(y, S, R)
<1>1. before \subseteq S /\ after \subseteq S /\ x \notin before /\ upTo \subseteq after
  BY DEF Preceding, StrictlyOrders
<1>2. IsFiniteSet(before) /\ IsFiniteSet(after) BY <1>1, FS_Subset
<1>3. Cardinality(upTo) = Cardinality(before) + 1 BY <1>1, <1>2, FS_AddElement
<1>4. Cardinality(upTo) <= Cardinality(after) BY <1>1, <1>2, FS_Subset
<1>5. Cardinality(before) \in Nat /\ Cardinality(after) \in Nat BY <1>2, FS_CardinalityType
<1>6. QED BY <1>3, <1>4, <1>5

LEMMA ListedIsInOrder ==
  ASSUME NEW S, IsFiniteSet(S), NEW R, StrictlyOrders(R, S)
  PROVE  /\ Cardinality(S) \in Nat /\ DOMAIN Listed(S, R) = 1..Cardinality(S)
         /\ Listed(S, R) \in Seq(S) /\ Len(Listed(S, R)) = Cardinality(S)
         /\ \A n \in 1..Cardinality(S) : Listed(S, R)[n] \in S
         /\ \A x \in S : \E n \in 1..Cardinality(S) : Listed(S, R)[n] = x
         /\ \A m, n \in 1..Cardinality(S) :
              m < n => <<Listed(S, R)[m], Listed(S, R)[n]>> \in R
<1> DEFINE size == Cardinality(S)
           rank == [x \in S |-> Cardinality(Preceding(x, S, R)) + 1]
<1>1. size \in Nat BY FS_CardinalityType
<1>2. ASSUME NEW x \in S
      PROVE  /\ Cardinality(Preceding(x, S, R)) \in Nat
             /\ rank[x] \in 1..size
  <2> DEFINE before == Preceding(x, S, R)
  <2>1. before \subseteq S /\ x \notin before BY DEF Preceding, StrictlyOrders
  <2>2. IsFiniteSet(before) BY <2>1, FS_Subset
  <2>3. Cardinality(before) \in Nat /\ Cardinality(before) <= size
    BY <2>1, <2>2, FS_Subset, FS_CardinalityType
  <2>4. Cardinality(before) # size BY <2>1, FS_Subset
  <2>5. QED BY <1>1, <2>3, <2>4
<1>3. \A x, y \in S : <<x, y>> \in R => rank[x] < rank[y]
  <2>1. TAKE x, y \in S
  <2>2. HAVE <<x, y>> \in R
  <2>3. QED BY <1>2, <2>2, RanksTellApart
<1>4. rank \in Injection(S, 1..size)
  <2>1. rank \in [S -> 1..size] BY <1>2
  <2>2. ASSUME NEW x \in S, NEW y \in S, rank[x] = rank[y]
        PROVE  x = y
    <3>1. x = y \/ <<x, y>> \in R \/ <<y, x>> \in R BY DEF StrictlyOrders
    <3>2. rank[x] \in Nat /\ rank[y] \in Nat BY <1>2
    <3>3. QED BY <1>3, <2>2, <3>1, <3>2
  <2> HIDE DEF rank
  <2>3. QED BY <2>1, <2>2 DEF Injection, IsInjective
<1>5. rank \in Surjection(S, 1..size)
  <2>1. IsFiniteSet(1..size) /\ Cardinality(1..size) = size BY <1>1, FS_Interval
  <2> HIDE DEF rank
  <2>2. QED BY <1>4, <2>1, FS_Injection
<1>6. \A n \in 1..size : \E x \in S : rank[x] = n
  <2> HIDE DEF rank
  <2>1. QED BY <1>5 DEF Surjection
<1>7. \A n \in 1..size : Listed(S, R)[n] \in S /\ rank[Listed(S, R)[n]] = n
  <2>1. TAKE n \in 1..size
  <2>2. PICK x \in S : rank[x] = n BY <1>6
  <2>3. Cardinality(Preceding(x, S, R)) = n - 1 BY <1>1, <1>2, <2>2
  <2>4. Listed(S, R)[n] = CHOOSE y \in S : Cardinality(Preceding(y, S, R)) = n - 1
    BY DEF Listed
  <2>5. Listed(S, R)[n] \in S /\ Cardinality(Preceding(Listed(S, R)[n], S, R)) = n - 1
    BY <2>3, <2>4
  <2>6. QED BY <1>1, <2>5
<1>8. \A x \in S : rank[x] \in 1..size /\ Listed(S, R)[rank[x]] = x
  <2> HIDE DEF rank
  <2>1. TAKE x \in S
  <2>2. rank[x] \in 1..size BY <1>2
  <2>3. QED BY <1>4, <1>7, <2>2 DEF Injection, IsInjective
<1>9. ASSUME NEW m \in 1..size, NEW n \in 1..size, m < n
      PROVE  <<Listed(S, R)[m], Listed(S, R)[n]>> \in R
  <2> DEFINE x == Listed(S, R)[m]
             y == Listed(S, R)[n]
  <2>1. x \in S /\ y \in S /\ rank[x] = m /\ rank[y] = n BY <1>7
  <2> HIDE DEF x, y, rank
  <2>2. x = y \/ <<x, y>> \in R \/ <<y, x>> \in R BY <2>1 DEF StrictlyOrders
  <2>3. <<x, y>> \in R BY <1>1, <1>3, <1>9, <2>1, <2>2
  <2>4. QED BY <2>3 DEF x, y
<1>10. DOMAIN Listed(S, R) = 1..size BY DEF Listed
<1>11. Listed(S, R) \in Seq(S) /\ Len(Listed(S, R)) = size
  <2>1. Listed(S, R) = [n \in 1..size |-> CHOOSE x \in S : Cardinality(Preceding(x, S, R)) = n - 1]
    BY DEF Listed
  <2>2. Listed(S, R) \in [1..size -> S] BY <1>7, <2>1
  <2>3. QED BY <1>1, <2>2, <1>10
<1> HIDE DEF rank
<1>12. QED BY <1>1, <1>7, <1>8, <1>9, <1>10, <1>11

LEMMA PlacesOfSequence ==
  ASSUME NEW T, NEW s \in Seq(T)
  PROVE  Len(s) \in Nat /\ DOMAIN s = 1..Len(s)
OBVIOUS

LEMMA WiderSequence ==
  ASSUME NEW S, NEW T, S \subseteq T, NEW s \in Seq(S)
  PROVE  s \in Seq(T)
OBVIOUS

LEMMA NaturalsAreOrdered ==
  ASSUME NEW S \in SUBSET Nat
  PROVE  StrictlyOrders({p \in S \X S : p[1] < p[2]}, S)
BY DEF StrictlyOrders

LEMMA AscendingLists ==
  ASSUME NEW S \in SUBSET Nat, IsFiniteSet(S)
  PROVE  /\ Ascending(S) \in Seq(S) /\ DOMAIN Ascending(S) = 1..Len(Ascending(S))
         /\ \A n \in DOMAIN Ascending(S) : Ascending(S)[n] \in S
         /\ \A x \in S : \E n \in DOMAIN Ascending(S) : Ascending(S)[n] = x
<1> DEFINE R == {p \in S \X S : p[1] < p[2]}
<1>1. StrictlyOrders(R, S) BY NaturalsAreOrdered
<1> HIDE DEF R
<1>2. /\ Cardinality(S) \in Nat /\ DOMAIN Listed(S, R) = 1..Cardinality(S)
      /\ Listed(S, R) \in Seq(S) /\ Len(Listed(S, R)) = Cardinality(S)
      /\ \A n \in 1..Cardinality(S) : Listed(S, R)[n] \in S
      /\ \A x \in S : \E n \in 1..Cardinality(S) : Listed(S, R)[n] = x
  BY <1>1, ListedIsInOrder
<1>3. Ascending(S) = Listed(S, R) BY DEF Ascending, R
<1>4. QED BY <1>2, <1>3

(* Picking places of a sequence loses none of them and adds nothing.        *)
LEMMA AtPicks ==
  ASSUME NEW s, NEW n \in Nat, DOMAIN s = 1..n, NEW S \in SUBSET DOMAIN s
  PROVE  /\ At(s, S) \in Seq({s[i] : i \in S})
         /\ \A i \in S : \E k \in DOMAIN At(s, S) : At(s, S)[k] = s[i]
         /\ \A k \in DOMAIN At(s, S) : \E i \in S : At(s, S)[k] = s[i]
<1> DEFINE places == Ascending(S)
<1>1. S \in SUBSET Nat /\ IsFiniteSet(S)
  <2>1. IsFiniteSet(1..n) BY FS_Interval
  <2>2. QED BY <2>1, FS_Subset
<1>2. /\ places \in Seq(S) /\ DOMAIN places = 1..Len(places)
      /\ \A k \in DOMAIN places : places[k] \in S
      /\ \A x \in S : \E k \in DOMAIN places : places[k] = x
  BY <1>1, AscendingLists
<1> HIDE DEF places
<1>3. At(s, S) = [k \in DOMAIN places |-> s[places[k]]] BY DEF At, places
<1>4. Len(places) \in Nat BY <1>2
<1>5. At(s, S) \in [1..Len(places) -> {s[i] : i \in S}] BY <1>2, <1>3
<1>6. At(s, S) \in Seq({s[i] : i \in S}) BY <1>4, <1>5
<1>7. QED BY <1>2, <1>3, <1>6

-----------------------------------------------------------------------------
(* The scalar that measures version nearness is strictly monotone in the    *)
(* version order, for every base its weights may be powers of.             *)
LEMMA ScaledLess ==
  ASSUME NEW x \in Nat, NEW y \in Nat, x < y
  PROVE  x * Base + Base <= y * Base
<1>1. Base \in Nat /\ x + 1 <= y
  BY ToolchainConstants
<1>2. (x + 1) * Base <= y * Base
  BY <1>1
<1>3. (x + 1) * Base = x * Base + Base
  BY <1>1
<1>4. QED BY <1>2, <1>3

\* One digit more keeps the order.
Digit(x, d) == x * Base + d
LEMMA DigitOrder ==
  ASSUME NEW x \in Nat, NEW y \in Nat, NEW a \in 0..Base - 1, NEW b \in 0..Base - 1
  PROVE  /\ Digit(x, a) \in Nat /\ Digit(y, b) \in Nat
         /\ Digit(x, a) < Digit(y, b) <=> x < y \/ (x = y /\ a < b)
<1>1. Base \in Nat /\ a \in Nat /\ b \in Nat /\ a < Base /\ b < Base
  BY ToolchainConstants
<1>2. x * Base \in Nat /\ y * Base \in Nat
  BY <1>1
<1>3. CASE x < y
  <2>1. x * Base + Base <= y * Base
    BY <1>3, ScaledLess
  <2>2. QED BY <1>1, <1>2, <1>3, <2>1 DEF Digit
<1>4. CASE y < x
  <2>1. y * Base + Base <= x * Base
    BY <1>4, ScaledLess
  <2>2. QED BY <1>1, <1>2, <1>4, <2>1 DEF Digit
<1>5. CASE x = y
  BY <1>1, <1>2, <1>5 DEF Digit
<1>6. QED BY <1>3, <1>4, <1>5

(* For all versions whose fields fit a digit, whatever the base: the        *)
(* distance "nearest" minimises is taken along the version order itself.   *)
THEOREM ScalarIsMonotone ==
  ASSUME NEW a \in Keys, NEW b \in Keys
  PROVE  ScalarKeepsOrder(a, b)
<1>1. PICK a1 \in 0..Base - 1, a2 \in 0..Base - 1, a3 \in 0..Base - 1, a4 \in 0..Base - 1,
           a5 \in 0..Base - 1 :
        a1 = a[1] /\ a2 = a[2] /\ a3 = a[3] /\ a4 = a[4] /\ a5 = a[5]
  BY ToolchainConstants DEF Keys
<1>2. PICK b1 \in 0..Base - 1, b2 \in 0..Base - 1, b3 \in 0..Base - 1, b4 \in 0..Base - 1,
           b5 \in 0..Base - 1 :
        b1 = b[1] /\ b2 = b[2] /\ b3 = b[3] /\ b4 = b[4] /\ b5 = b[5]
  BY ToolchainConstants DEF Keys
<1>3. a1 \in Nat /\ b1 \in Nat
  BY ToolchainConstants
<1>4. PICK x2 \in Nat, y2 \in Nat :
        /\ x2 = Digit(a1, a2) /\ y2 = Digit(b1, b2)
        /\ x2 < y2 <=> a1 < b1 \/ (a1 = b1 /\ a2 < b2)
        /\ y2 < x2 <=> b1 < a1 \/ (b1 = a1 /\ b2 < a2)
  <2>1. Digit(a1, a2) \in Nat /\ Digit(b1, b2) \in Nat
    BY <1>3, DigitOrder
  <2>2. Digit(a1, a2) < Digit(b1, b2) <=> a1 < b1 \/ (a1 = b1 /\ a2 < b2)
    BY <1>3, DigitOrder
  <2>3. Digit(b1, b2) < Digit(a1, a2) <=> b1 < a1 \/ (b1 = a1 /\ b2 < a2)
    BY <1>3, DigitOrder
  <2>4. QED BY <2>1, <2>2, <2>3
<1>5. PICK x3 \in Nat, y3 \in Nat :
        /\ x3 = Digit(x2, a3) /\ y3 = Digit(y2, b3)
        /\ x3 < y3 <=> x2 < y2 \/ (x2 = y2 /\ a3 < b3)
        /\ y3 < x3 <=> y2 < x2 \/ (y2 = x2 /\ b3 < a3)
  <2>1. Digit(x2, a3) \in Nat /\ Digit(y2, b3) \in Nat
    BY DigitOrder
  <2>2. Digit(x2, a3) < Digit(y2, b3) <=> x2 < y2 \/ (x2 = y2 /\ a3 < b3)
    BY DigitOrder
  <2>3. Digit(y2, b3) < Digit(x2, a3) <=> y2 < x2 \/ (y2 = x2 /\ b3 < a3)
    BY DigitOrder
  <2>4. QED BY <2>1, <2>2, <2>3
<1>6. PICK x4 \in Nat, y4 \in Nat :
        /\ x4 = Digit(x3, a4) /\ y4 = Digit(y3, b4)
        /\ x4 < y4 <=> x3 < y3 \/ (x3 = y3 /\ a4 < b4)
        /\ y4 < x4 <=> y3 < x3 \/ (y3 = x3 /\ b4 < a4)
  <2>1. Digit(x3, a4) \in Nat /\ Digit(y3, b4) \in Nat
    BY DigitOrder
  <2>2. Digit(x3, a4) < Digit(y3, b4) <=> x3 < y3 \/ (x3 = y3 /\ a4 < b4)
    BY DigitOrder
  <2>3. Digit(y3, b4) < Digit(x3, a4) <=> y3 < x3 \/ (y3 = x3 /\ b4 < a4)
    BY DigitOrder
  <2>4. QED BY <2>1, <2>2, <2>3
<1>7. PICK x5 \in Nat, y5 \in Nat :
        /\ x5 = Digit(x4, a5) /\ y5 = Digit(y4, b5)
        /\ x5 < y5 <=> x4 < y4 \/ (x4 = y4 /\ a5 < b5)
        /\ y5 < x5 <=> y4 < x4 \/ (y4 = x4 /\ b5 < a5)
  <2>1. Digit(x4, a5) \in Nat /\ Digit(y4, b5) \in Nat
    BY DigitOrder
  <2>2. Digit(x4, a5) < Digit(y4, b5) <=> x4 < y4 \/ (x4 = y4 /\ a5 < b5)
    BY DigitOrder
  <2>3. Digit(y4, b5) < Digit(x4, a5) <=> y4 < x4 \/ (y4 = x4 /\ b5 < a5)
    BY DigitOrder
  <2>4. QED BY <2>1, <2>2, <2>3
<1>8. version_scalar(a) = x5 /\ version_scalar(b) = y5
  BY <1>1, <1>2, <1>4, <1>5, <1>6, <1>7 DEF version_scalar, Digit
<1>9. Before(a, b) <=> x5 < y5
  <2>1. x2 < y2 <=> a1 < b1 \/ (a1 = b1 /\ a2 < b2)
    BY <1>4
  <2>2. x2 = y2 <=> a1 = b1 /\ a2 = b2
    BY <1>3, <1>4, ToolchainConstants
  <2>3. x3 = y3 <=> x2 = y2 /\ a3 = b3
    BY <1>5, ToolchainConstants
  <2>4. x4 = y4 <=> x3 = y3 /\ a4 = b4
    BY <1>6, ToolchainConstants
  <2>5. QED BY <1>1, <1>2, <1>5, <1>6, <1>7, <2>1, <2>2, <2>3, <2>4 DEF Before
<1>10. QED BY <1>8, <1>9 DEF ScalarKeepsOrder

LEMMA ScalarInNat ==
  ASSUME NEW k \in Keys
  PROVE  version_scalar(k) \in Nat
<1>1. /\ k[1] \in Nat /\ k[2] \in Nat /\ k[3] \in Nat /\ k[4] \in Nat /\ k[5] \in Nat
      /\ Base \in Nat
  BY ToolchainConstants DEF Keys
<1>2. k[1] * Base + k[2] \in Nat
  BY <1>1
<1>3. (k[1] * Base + k[2]) * Base + k[3] \in Nat
  BY <1>1, <1>2
<1>4. ((k[1] * Base + k[2]) * Base + k[3]) * Base + k[4] \in Nat
  BY <1>1, <1>3
<1>5. (((k[1] * Base + k[2]) * Base + k[3]) * Base + k[4]) * Base + k[5] \in Nat
  BY <1>1, <1>4
<1>6. QED BY <1>5 DEF version_scalar

(* A release between the pin and another in version order is closer to the  *)
(* pin by the distance the code takes.                                     *)
LEMMA BetweenIsCloser ==
  ASSUME NEW pin \in Keys, NEW v \in Keys, NEW far \in Keys,
         (Before(pin, v) /\ Before(v, far)) \/ (Before(far, v) /\ Before(v, pin))
  PROVE  ~(version_distance(far, pin) <= version_distance(v, pin))
<1>1. PICK sp \in Nat, sv \in Nat, sf \in Nat :
        sp = version_scalar(pin) /\ sv = version_scalar(v) /\ sf = version_scalar(far)
  BY ScalarInNat
<1>2. /\ Before(pin, v) <=> sp < sv
      /\ Before(v, far) <=> sv < sf
      /\ Before(far, v) <=> sf < sv
      /\ Before(v, pin) <=> sv < sp
  BY <1>1, ScalarIsMonotone DEF ScalarKeepsOrder
<1>3. /\ version_distance(far, pin) = IF sf < sp THEN sp - sf ELSE sf - sp
      /\ version_distance(v, pin) = IF sv < sp THEN sp - sv ELSE sv - sp
  BY <1>1 DEF version_distance, abs_diff
<1>4. (sp < sv /\ sv < sf) \/ (sf < sv /\ sv < sp)
  BY <1>2
<1>5. QED BY <1>3, <1>4

(* For every table of supported releases and every pin outside it: the      *)
(* release out_of_window_bounds names is supported, and none between it    *)
(* and the pin was passed over.                                            *)
THEOREM NearestIsNeighbour ==
  ASSUME NEW entries, NEW pin \in Keys, Canonical(entries) \subseteq Keys,
         \A i \in 1..Len(entries) : 1 \in 1..Len(entries[i])
  PROVE  AdviceIsNeighbour(entries, pin)
<1>1. ASSUME NEW advised \in nearest(entries, pin)
      PROVE  window_verdict(entries, advised) = "supported"
  <2>1. PICK i \in 1..Len(entries) : advised = entries[i][1]
    BY <1>1 DEF nearest, Canonical
  <2>2. supported_for(entries, advised)
    BY <2>1 DEF supported_for
  <2>3. QED BY <2>2 DEF window_verdict
<1>2. ASSUME NEW advised \in nearest(entries, pin), NEW v \in Canonical(entries)
      PROVE  ~(Before(pin, v) /\ Before(v, advised)) /\ ~(Before(advised, v) /\ Before(v, pin))
  <2>1. /\ version_distance(advised, pin) <= version_distance(v, pin)
        /\ advised \in Keys /\ v \in Keys
    BY <1>2 DEF nearest
  <2>2. QED BY <2>1, BetweenIsCloser
<1>3. QED BY <1>1, <1>2 DEF AdviceIsNeighbour

(* A project whose pin is outside the window is told a release it can move  *)
(* to: supported by the build at hand, and none nearer on its side.        *)
THEOREM AdviceCanBeFollowed == Spec => []AdvisedReleaseIsNeighbour
<1>1. Init => AdvisedReleaseIsNeighbour
  <2>1. Init => answer = NoAnswer BY DEF Init
  <2>2. NoAnswer.code = "none" BY DEF NoAnswer
  <2>3. QED BY <2>1, <2>2 DEF AdvisedReleaseIsNeighbour
<1>2. AdvisedReleaseIsNeighbour /\ [Next]_vars => AdvisedReleaseIsNeighbour'
  <2>1. SUFFICES ASSUME AdvisedReleaseIsNeighbour, [Next]_vars
                 PROVE  AdvisedReleaseIsNeighbour'
    OBVIOUS
  <2>2. CASE PinUnsupported
    <3>1. PICK window \in Windows, pin \in Pins :
            /\ window_verdict(window, pin) = "out_of_window"
            /\ answer' = [NoAnswer EXCEPT !.code = "bad_project", !.pin = pin, !.window = window]
      BY <2>2 DEF PinUnsupported
    <3>2. pin \in Keys
      BY <3>1, ToolConstants DEF window_verdict
    <3>3. /\ Canonical(window) \subseteq Keys
          /\ \A i \in 1..Len(window) : 1 \in 1..Len(window[i])
      <4>1. window \in Seq(Seq(Keys) \ {<<>>}) BY ToolConstants
      <4>2. ASSUME NEW i \in 1..Len(window)
            PROVE  1 \in 1..Len(window[i]) /\ window[i][1] \in Keys
        <5>1. window[i] \in Seq(Keys) /\ window[i] # <<>> BY <4>1
        <5>2. QED BY <5>1
      <4>3. QED BY <4>2 DEF Canonical
    <3>4. answer'.window = window /\ answer'.pin = pin BY <3>1 DEF NoAnswer
    <3>5. QED BY <3>2, <3>3, <3>4, NearestIsNeighbour DEF AdvisedReleaseIsNeighbour
  <2>3. CASE UNCHANGED answer BY <2>1, <2>3 DEF AdvisedReleaseIsNeighbour
  <2>4. CASE ~PinUnsupported /\ answer' # answer
    <3>1. answer'.code # "bad_project"
      BY <2>1, <2>4 DEF Next, vars, toolVars, Dispatch, Answer, WorkerUnavailable, Status, Respond,
        ProofPosition, Diagnostics, InspectDeclaration, ProofStep, Verify, FileReferences,
        FileDeclarations, ScanIndices, ScanAnswered, TargetProfile, SemanticSearch,
        DeclarationSearches, Responds, NeedsBuild, NoAnswer
    <3>2. QED BY <3>1 DEF AdvisedReleaseIsNeighbour
  <2>5. QED BY <2>2, <2>3, <2>4
<1>3. QED BY <1>1, <1>2, PTL DEF Spec

-----------------------------------------------------------------------------
(* What the notes of a response warn of.                                    *)
Words == {"", "missing_olean", "empty", "unresolved", "needs_build", "ambiguous", "tainted",
          "missing_imports", "bare_name", "cached", "missing_build", "stale_build", "unmodified",
          "partial", "rebinds", "inventory", "no_inventory", "similar", "axioms", "supply_imports", "advisory",
          "slow"}
Notes == [warning : Words, action : Words]
Warned(notes) == {notes[i].warning : i \in DOMAIN notes}

LEMMA NoteWarns ==
  ASSUME NEW about \in Words
  PROVE  /\ Warn(about) \in Notes /\ Warn(about).warning = about
         /\ Hint(about) \in Notes /\ Hint(about).warning = ""
         /\ WarnAndHint(about) \in Notes /\ WarnAndHint(about).warning = about
<1>1. "" \in Words BY DEF Words
<1>2. QED BY <1>1 DEF Warn, Hint, WarnAndHint, Notes

LEMMA NoneWarns == <<>> \in Seq(Notes) /\ Warned(<<>>) = {}
BY DEF Warned

LEMMA OneWarns ==
  ASSUME NEW note \in Notes
  PROVE  <<note>> \in Seq(Notes) /\ Warned(<<note>>) = {note.warning}
BY DEF Warned

LEMMA WhenWarns ==
  ASSUME NEW condition \in BOOLEAN, NEW note \in Notes
  PROVE  /\ When(condition, note) \in Seq(Notes)
         /\ Warned(When(condition, note)) = IF condition THEN {note.warning} ELSE {}
<1>1. CASE condition BY <1>1, OneWarns DEF When
<1>2. CASE ~condition BY <1>2, NoneWarns DEF When
<1>3. QED BY <1>1, <1>2

LEMMA BothWarn ==
  ASSUME NEW s \in Seq(Notes), NEW t \in Seq(Notes)
  PROVE  s \o t \in Seq(Notes) /\ Warned(s \o t) = Warned(s) \cup Warned(t)
<1>1. /\ s \o t \in Seq(Notes) /\ Len(s \o t) = Len(s) + Len(t)
      /\ \A i \in 1..Len(s) + Len(t) :
           (s \o t)[i] = IF i <= Len(s) THEN s[i] ELSE t[i - Len(s)]
  OBVIOUS
<1>2. /\ DOMAIN s = 1..Len(s) /\ DOMAIN t = 1..Len(t) /\ DOMAIN (s \o t) = 1..Len(s) + Len(t)
      /\ Len(s) \in Nat /\ Len(t) \in Nat
  BY <1>1
<1>3. Warned(s \o t) \subseteq Warned(s) \cup Warned(t)
  <2>1. ASSUME NEW i \in DOMAIN (s \o t)
        PROVE  (s \o t)[i].warning \in Warned(s) \cup Warned(t)
    <3>1. CASE i <= Len(s) BY <1>1, <1>2, <3>1 DEF Warned
    <3>2. CASE ~(i <= Len(s))
      <4>1. i - Len(s) \in DOMAIN t /\ (s \o t)[i] = t[i - Len(s)] BY <1>1, <1>2, <3>2
      <4>2. QED BY <4>1 DEF Warned
    <3>3. QED BY <3>1, <3>2
  <2>2. QED BY <2>1 DEF Warned
<1>4. ASSUME NEW i \in DOMAIN s
      PROVE  s[i].warning \in Warned(s \o t)
  <2>1. i \in DOMAIN (s \o t) /\ (s \o t)[i] = s[i] BY <1>1, <1>2
  <2>2. QED BY <2>1 DEF Warned
<1>5. ASSUME NEW i \in DOMAIN t
      PROVE  t[i].warning \in Warned(s \o t)
  <2>1. i + Len(s) \in DOMAIN (s \o t) /\ (s \o t)[i + Len(s)] = t[i] BY <1>1, <1>2
  <2>2. QED BY <2>1 DEF Warned
<1>6. QED BY <1>1, <1>3, <1>4, <1>5 DEF Warned

(* Notes that warn at least of these conditions.                            *)
Tells(notes, told) == notes \in Seq(Notes) /\ told \subseteq Warned(notes)

LEMMA WhenTells ==
  ASSUME NEW condition \in BOOLEAN, NEW about \in Words
  PROVE  /\ Tells(When(condition, Warn(about)), IF condition THEN {about} ELSE {})
         /\ Tells(When(condition, WarnAndHint(about)), IF condition THEN {about} ELSE {})
         /\ Tells(When(condition, Hint(about)), {})
<1>1. Warn(about) \in Notes /\ WarnAndHint(about) \in Notes /\ Hint(about) \in Notes
  BY NoteWarns
<1>2. Warn(about).warning = about /\ WarnAndHint(about).warning = about BY NoteWarns
<1>3. /\ When(condition, Warn(about)) \in Seq(Notes)
      /\ Warned(When(condition, Warn(about))) = IF condition THEN {about} ELSE {}
  BY <1>1, <1>2, WhenWarns
<1>4. /\ When(condition, WarnAndHint(about)) \in Seq(Notes)
      /\ Warned(When(condition, WarnAndHint(about))) = IF condition THEN {about} ELSE {}
  BY <1>1, <1>2, WhenWarns
<1>5. When(condition, Hint(about)) \in Seq(Notes) BY <1>1, WhenWarns
<1>6. QED BY <1>3, <1>4, <1>5 DEF Tells

LEMMA OneTells ==
  ASSUME NEW about \in Words
  PROVE  /\ Tells(<<Warn(about)>>, {about}) /\ Tells(<<WarnAndHint(about)>>, {about})
         /\ Tells(<<Hint(about)>>, {})
BY NoteWarns, OneWarns DEF Tells

LEMMA BothTell ==
  ASSUME NEW s, NEW t, NEW V, NEW W, Tells(s, V), Tells(t, W)
  PROVE  Tells(s \o t, V \cup W)
<1>1. s \in Seq(Notes) /\ t \in Seq(Notes) BY DEF Tells
<1>2. s \o t \in Seq(Notes) /\ Warned(s \o t) = Warned(s) \cup Warned(t) BY <1>1, BothWarn
<1>3. QED BY <1>2 DEF Tells

(* Whatever a handler warned of becomes an issue of the response, about the *)
(* same condition: the facade pairs advice with warnings, and drops no     *)
(* warning.                                                                *)
LEMMA WarningsBecomeIssues ==
  ASSUME NEW notes \in Seq(Notes), NEW c \in Warned(notes), c # ""
  PROVE  \E i \in DOMAIN semantic_issues(notes) : semantic_issues(notes)[i].about = c
<1>0. Len(notes) \in Nat /\ DOMAIN notes = 1..Len(notes) BY PlacesOfSequence
<1> DEFINE warned == {i \in DOMAIN notes : notes[i].warning # ""}
           warnings == At(notes, warned)
<1>1. PICK i \in warned : notes[i].warning = c BY DEF Warned
<1>2. PICK k \in DOMAIN warnings : warnings[k] = notes[i]
  <2>1. warned \in SUBSET DOMAIN notes OBVIOUS
  <2> HIDE DEF warned
  <2>2. QED BY <1>0, <1>1, <2>1, AtPicks
<1>3. Warnings(notes) = warnings BY DEF Warnings
<1> HIDE DEF warnings
<1>4. DOMAIN semantic_issues(notes) = DOMAIN warnings /\ semantic_issues(notes)[k].about = c
  BY <1>1, <1>2, <1>3 DEF semantic_issues
<1>5. QED BY <1>2, <1>4

(* Every condition met so far is in the result or among the warnings.       *)
Mentioned(c) ==
  <<mode, c>> \in Unflagged \/ c \in response.shows \/ c \in Warned(response.notes)
DegradeInv ==
  /\ "" \notin suffered /\ DOMAIN response = {"shows", "notes", "live"}
  /\ pc \in {"dispatch", "run"} => suffered = {}
  /\ pc = "search" => /\ mode = "proof_search"
                      /\ \A c \in suffered : <<mode, c>> \in Unflagged \/ c \in response.shows
  /\ pc = "respond" => response.notes \in Seq(Notes) /\ \A c \in suffered : Mentioned(c)
  /\ NoSilentDegrade

(* A handler that mentions what it met, and keeps what was shown before.    *)
LEMMA RespondsHonestly ==
  ASSUME DegradeInv, pc \in {"run", "search"},
         NEW conditions, NEW shows, NEW notes, NEW told, Tells(notes, told),
         Responds(conditions, shows, notes),
         "" \notin conditions, pc = "search" => response.shows \subseteq shows,
         \A c \in conditions : <<mode, c>> \in Unflagged \/ c \in shows \/ c \in told
  PROVE  DegradeInv'
<1>1. /\ pc' = "respond" /\ suffered' = suffered \cup conditions /\ mode' = mode
      /\ response'.shows = shows /\ response'.notes = notes
      /\ DOMAIN response' = {"shows", "notes", "live"}
  BY DEF Responds
<1>2. \A c \in suffered : <<mode, c>> \in Unflagged \/ c \in shows BY DEF DegradeInv
<1>3. \A c \in suffered \cup conditions :
        <<mode, c>> \in Unflagged \/ c \in shows \/ c \in Warned(notes)
  BY <1>2 DEF Tells
<1>4. Unflagged' = Unflagged /\ Warned(response.notes)' = Warned(notes)
  BY <1>1 DEF Unflagged, Warned
<1>5. \A c \in suffered' : Mentioned(c)' BY <1>1, <1>3, <1>4 DEF Mentioned
<1>6. "" \notin suffered' /\ notes \in Seq(Notes) BY <1>1 DEF DegradeInv, Tells
<1>7. QED BY <1>1, <1>5, <1>6 DEF DegradeInv, NoSilentDegrade

LEMMA NeedsBuildHonest ==
  ASSUME DegradeInv, pc = "run", NeedsBuild
  PROVE  DegradeInv'
<1>1. Tells(<<WarnAndHint("missing_olean")>>, {"missing_olean"}) BY OneTells DEF Words
<1>2. QED BY <1>1, RespondsHonestly DEF NeedsBuild

\* An answer of the worker that a handler shows as it came.
LEMMA ShownHonest ==
  ASSUME DegradeInv, pc = "run", NEW met, NEW shows, "" \notin met, Responds(met, shows, <<>>),
         \A c \in met : <<mode, c>> \in Unflagged \/ c \in shows
  PROVE  DegradeInv'
<1>1. Tells(<<>>, {}) BY NoneWarns DEF Tells
<1>2. QED BY <1>1, RespondsHonestly

LEMMA ProofPositionHonest ==
  ASSUME DegradeInv, ProofPosition
  PROVE  DegradeInv'
<1>1. pc = "run" /\ mode = "proof_position" BY DEF ProofPosition
<1>2. ASSUME NEW outcome \in Unanswerable, NEW tainted \in BOOLEAN,
             Responds({outcome} \cup (IF tainted THEN {"tainted_unread"} ELSE {}), {outcome}, <<>>)
      PROVE  DegradeInv'
  <2>1. "" \notin {outcome} \cup (IF tainted THEN {"tainted_unread"} ELSE {})
    BY DEF Unanswerable
  <2>2. \A c \in {outcome} \cup (IF tainted THEN {"tainted_unread"} ELSE {}) :
          <<mode, c>> \in Unflagged \/ c \in {outcome}
    BY <1>1 DEF Unflagged
  <2>3. QED BY <1>1, <1>2, <2>1, <2>2, ShownHonest
<1>3. ASSUME NEW goal \in GoalOutcomes, NEW tainted \in BOOLEAN, NEW missing \in BOOLEAN,
             Responds(({goal} \ {"state"}) \cup Tainted(tainted) \cup Missing(missing), {goal},
                      When(goal \notin {"state", "budget"}, WarnAndHint(goal))
                        \o When(tainted, WarnAndHint("tainted"))
                        \o When(missing, Warn("missing_imports")))
      PROVE  DegradeInv'
  <2>1. Tells(When(goal \notin {"state", "budget"}, WarnAndHint(goal)), {})
    <3>1. CASE goal \in {"state", "budget"} BY <3>1, NoneWarns DEF When, Tells
    <3>2. CASE goal \notin {"state", "budget"}
      <4>1. goal \in Words BY <3>2 DEF Words, GoalOutcomes
      <4>2. QED BY <3>2, <4>1, OneTells DEF When, Tells
    <3>3. QED BY <3>1, <3>2
  <2>2. /\ Tells(When(tainted, WarnAndHint("tainted")), Tainted(tainted))
        /\ Tells(When(missing, Warn("missing_imports")), Missing(missing))
    BY WhenTells DEF Words, Tainted, Missing
  <2> DEFINE met == ({goal} \ {"state"}) \cup Tainted(tainted) \cup Missing(missing)
             told == (({} \cup Tainted(tainted)) \cup Missing(missing))
             notes == When(goal \notin {"state", "budget"}, WarnAndHint(goal))
                        \o When(tainted, WarnAndHint("tainted"))
                        \o When(missing, Warn("missing_imports"))
  <2>3. Tells(notes, told)
    <3>1. Tells(When(goal \notin {"state", "budget"}, WarnAndHint(goal))
                  \o When(tainted, WarnAndHint("tainted")), {} \cup Tainted(tainted))
      BY <2>1, <2>2, BothTell
    <3>2. QED BY <2>2, <3>1, BothTell
  <2>4. "" \notin met BY DEF GoalOutcomes, Tainted, Missing
  <2>5. \A c \in met : c \in {goal} \/ c \in told OBVIOUS
  <2>6. Responds(met, {goal}, notes) BY <1>3
  <2> HIDE DEF met, told, notes
  <2>7. QED BY <1>1, <2>3, <2>4, <2>5, <2>6, RespondsHonestly
<1>4. QED BY <1>1, <1>2, <1>3, NeedsBuildHonest DEF ProofPosition

LEMMA DiagnosticsHonest ==
  ASSUME DegradeInv, Diagnostics
  PROVE  DegradeInv'
<1>1. pc = "run" /\ mode \in {"command", "file_diagnostics"} BY DEF Diagnostics
<1>2. CASE Responds({"empty"}, {}, <<Warn("empty")>>)
  <2>1. Tells(<<Warn("empty")>>, {"empty"}) BY OneTells DEF Words
  <2>2. QED BY <1>1, <1>2, <2>1, RespondsHonestly
<1>3. ASSUME NEW outcome \in Unanswerable \cup {"ok", "budget"},
             NEW tainted \in BOOLEAN, NEW missing \in BOOLEAN,
             Responds(({outcome} \ {"ok"}) \cup Tainted(tainted) \cup Missing(missing),
                      ({outcome} \cap {"header_parse_failed"}) \cup Missing(missing),
                      When(tainted, WarnAndHint("tainted"))
                        \o When(missing, WarnAndHint("missing_imports")))
      PROVE  DegradeInv'
  <2>1. Tells(When(tainted, WarnAndHint("tainted"))
                \o When(missing, WarnAndHint("missing_imports")),
              Tainted(tainted) \cup Missing(missing))
    BY WhenTells, BothTell DEF Words, Tainted, Missing
  <2>2. "" \notin ({outcome} \ {"ok"}) \cup Tainted(tainted) \cup Missing(missing)
    BY DEF Unanswerable, Tainted, Missing
  <2>3. \A c \in {outcome} \ {"ok"} :
          <<mode, c>> \in Unflagged \/ c \in {outcome} \cap {"header_parse_failed"}
    BY <1>1 DEF Unanswerable, Unflagged
  <2>4. QED BY <1>1, <1>3, <2>1, <2>2, <2>3, RespondsHonestly
<1>4. QED BY <1>1, <1>2, <1>3, NeedsBuildHonest DEF Diagnostics

LEMMA InspectDeclarationHonest ==
  ASSUME DegradeInv, InspectDeclaration
  PROVE  DegradeInv'
<1>1. pc = "run" /\ mode = "declaration" BY DEF InspectDeclaration
<1>2. CASE Responds({"empty"}, {}, <<Warn("empty")>>)
  <2>1. Tells(<<Warn("empty")>>, {"empty"}) BY OneTells DEF Words
  <2>2. QED BY <1>1, <1>2, <2>1, RespondsHonestly
<1>3. ASSUME NEW tainted \in BOOLEAN, NEW missed \in BOOLEAN,
             Responds(Tainted(tainted), {}, When(missed, Hint("bare_name")))
      PROVE  DegradeInv'
  <2>1. Tells(When(missed, Hint("bare_name")), {}) BY WhenTells DEF Words
  <2>2. "" \notin Tainted(tainted) /\ \A c \in Tainted(tainted) : <<mode, c>> \in Unflagged
    BY <1>1 DEF Tainted, Unflagged
  <2>3. QED BY <1>1, <1>3, <2>1, <2>2, RespondsHonestly
<1>4. QED BY <1>1, <1>2, <1>3, NeedsBuildHonest DEF InspectDeclaration

LEMMA FileReferencesHonest ==
  ASSUME DegradeInv, FileReferences
  PROVE  DegradeInv'
<1>1. pc = "run" /\ mode = "references" BY DEF FileReferences
<1>2. ASSUME NEW outcome \in {"unreadable", "invalid"}, Responds({outcome}, {outcome}, <<>>)
      PROVE  DegradeInv'
  BY <1>1, <1>2, ShownHonest
<1>3. ASSUME NEW outcome \in Unanswerable, NEW tainted \in BOOLEAN,
             Responds({outcome} \cup Tainted(tainted), {outcome}, <<>>)
      PROVE  DegradeInv'
  <2>1. "" \notin {outcome} \cup Tainted(tainted) BY DEF Unanswerable, Tainted
  <2>2. \A c \in Tainted(tainted) : <<mode, c>> \in Unflagged BY <1>1 DEF Tainted, Unflagged
  <2>3. QED BY <1>1, <1>3, <2>1, <2>2, ShownHonest
<1>4. ASSUME NEW other \in SUBSET {"other_result"},
             NEW tainted \in BOOLEAN, NEW missing \in BOOLEAN, NEW fresh \in BOOLEAN,
             Responds(other \cup Tainted(tainted) \cup Missing(missing), Missing(missing),
                      When(fresh, Hint("cached")))
      PROVE  DegradeInv'
  <2>1. Tells(When(fresh, Hint("cached")), {}) BY WhenTells DEF Words
  <2>2. "" \notin other \cup Tainted(tainted) \cup Missing(missing) BY DEF Tainted, Missing
  <2>3. \A c \in other \cup Tainted(tainted) : <<mode, c>> \in Unflagged
    BY <1>1 DEF Tainted, Unflagged
  <2>4. QED BY <1>1, <1>4, <2>1, <2>2, <2>3, RespondsHonestly
<1>5. QED BY <1>1, <1>2, <1>3, <1>4, NeedsBuildHonest DEF FileReferences

LEMMA FileDeclarationsHonest ==
  ASSUME DegradeInv, FileDeclarations
  PROVE  DegradeInv'
<1>1. pc = "run" /\ mode = "declarations" BY DEF FileDeclarations
<1>2. ASSUME NEW outcome \in Unanswerable \cup {"budget"}, NEW tainted \in BOOLEAN,
             Responds({outcome} \cup Tainted(tainted), {outcome}, <<>>)
      PROVE  DegradeInv'
  <2>1. "" \notin {outcome} \cup Tainted(tainted) BY DEF Unanswerable, Tainted
  <2>2. \A c \in Tainted(tainted) : <<mode, c>> \in Unflagged BY <1>1 DEF Tainted, Unflagged
  <2>3. QED BY <1>1, <1>2, <2>1, <2>2, ShownHonest
<1>3. ASSUME NEW tainted \in BOOLEAN, NEW missing \in BOOLEAN,
             Responds(Tainted(tainted) \cup Missing(missing), Missing(missing),
                      When(missing, WarnAndHint("missing_imports")))
      PROVE  DegradeInv'
  <2>1. Tells(When(missing, WarnAndHint("missing_imports")), Missing(missing))
    BY WhenTells DEF Words, Missing
  <2>2. "" \notin Tainted(tainted) \cup Missing(missing) BY DEF Tainted, Missing
  <2>3. \A c \in Tainted(tainted) : <<mode, c>> \in Unflagged BY <1>1 DEF Tainted, Unflagged
  <2>4. QED BY <1>1, <1>3, <2>1, <2>2, <2>3, RespondsHonestly
<1>4. QED BY <1>1, <1>2, <1>3, NeedsBuildHonest DEF FileDeclarations

LEMMA ScanAnsweredHonest ==
  ASSUME DegradeInv, ScanAnswered
  PROVE  DegradeInv'
<1> DEFINE incomplete == {scan.trust} \cap {"missing_build", "stale_build"}
           warned == incomplete # {} /\ (mode = "references" \/ scan.unbuilt)
           notes == When(warned, WarnAndHint(scan.trust))
<1>1. pc = "run" /\ Responds(incomplete, {scan.trust}, notes) BY DEF ScanAnswered
<1>2. Tells(notes, {})
  <2>1. CASE warned
    <3>1. scan.trust \in Words BY <2>1 DEF Words
    <3>2. QED BY <2>1, <3>1, OneTells DEF When, Tells
  <2>2. CASE ~warned BY <2>2, NoneWarns DEF When, Tells
  <2>3. QED BY <2>1, <2>2
<1> HIDE DEF notes
<1>3. QED BY <1>1, <1>2, RespondsHonestly

LEMMA ProofStepHonest ==
  ASSUME DegradeInv, ProofStep
  PROVE  DegradeInv'
<1>1. pc = "run" /\ mode = "proof_step" BY DEF ProofStep
<1>2. CASE Responds({"empty"}, {}, <<Warn("empty")>>)
  <2>1. Tells(<<Warn("empty")>>, {"empty"}) BY OneTells DEF Words
  <2>2. QED BY <1>1, <1>2, <2>1, RespondsHonestly
<1>3. CASE Responds({"missing_olean"}, {"missing_olean"},
                    <<Hint("unmodified"), WarnAndHint("missing_olean")>>)
  <2>1. Hint("unmodified") \in Notes /\ WarnAndHint("missing_olean") \in Notes
    BY NoteWarns DEF Words
  <2>2. Tells(<<Hint("unmodified"), WarnAndHint("missing_olean")>>, {}) BY <2>1 DEF Tells
  <2>3. QED BY <1>1, <1>3, <2>2, RespondsHonestly
<1>4. ASSUME NEW outcome \in Unanswerable \cup {"tried"}, NEW tainted \in BOOLEAN,
             NEW missing \in BOOLEAN, NEW partial \in BOOLEAN, NEW rebinds \in BOOLEAN,
             Responds(({outcome} \ {"tried"}) \cup Tainted(tainted) \cup Missing(missing),
                      {outcome} \cup Missing(missing),
                      <<Hint("unmodified")>> \o When(missing, WarnAndHint("missing_imports"))
                        \o When(tainted, WarnAndHint("tainted"))
                        \o When(partial, WarnAndHint("partial"))
                        \o When(rebinds, WarnAndHint("rebinds")))
      PROVE  DegradeInv'
  <2> DEFINE met == ({outcome} \ {"tried"}) \cup Tainted(tainted) \cup Missing(missing)
             shows == {outcome} \cup Missing(missing)
             n1 == <<Hint("unmodified")>> \o When(missing, WarnAndHint("missing_imports"))
             n2 == n1 \o When(tainted, WarnAndHint("tainted"))
             n3 == n2 \o When(partial, WarnAndHint("partial"))
             n4 == n3 \o When(rebinds, WarnAndHint("rebinds"))
  <2>1. /\ Tells(<<Hint("unmodified")>>, {})
        /\ Tells(When(missing, WarnAndHint("missing_imports")), {})
        /\ Tells(When(tainted, WarnAndHint("tainted")), Tainted(tainted))
        /\ Tells(When(partial, WarnAndHint("partial")), {})
        /\ Tells(When(rebinds, WarnAndHint("rebinds")), {})
    BY OneTells, WhenTells DEF Words, Tainted, Tells
  <2>2. Tells(n1, {} \cup {}) BY <2>1, BothTell
  <2>3. Tells(n2, ({} \cup {}) \cup Tainted(tainted))
    <3> HIDE DEF n1
    <3>1. QED BY <2>1, <2>2, BothTell
  <2>4. Tells(n3, (({} \cup {}) \cup Tainted(tainted)) \cup {})
    <3> HIDE DEF n2
    <3>1. QED BY <2>1, <2>3, BothTell
  <2>5. Tells(n4, ((({} \cup {}) \cup Tainted(tainted)) \cup {}) \cup {})
    <3> HIDE DEF n3
    <3>1. QED BY <2>1, <2>4, BothTell
  <2>6. Tells(n4, Tainted(tainted)) BY <2>5 DEF Tells
  <2>7. "" \notin met BY DEF Unanswerable, Tainted, Missing
  <2>8. \A c \in met : c \in shows \/ c \in Tainted(tainted) OBVIOUS
  <2>9. Responds(met, shows, n4) BY <1>4
  <2> HIDE DEF met, shows, n4
  <2>10. QED BY <1>1, <2>6, <2>7, <2>8, <2>9, RespondsHonestly
<1>5. QED BY <1>1, <1>2, <1>3, <1>4 DEF ProofStep

LEMMA VerifyHonest ==
  ASSUME DegradeInv, Verify
  PROVE  DegradeInv'
<1>1. pc = "run" /\ mode = "verify" BY DEF Verify
<1>2. CASE Responds({"empty"}, {}, <<WarnAndHint("empty"), Hint("unmodified")>>)
  <2>1. /\ Hint("unmodified") \in Notes /\ WarnAndHint("empty") \in Notes
        /\ WarnAndHint("empty").warning = "empty"
    BY NoteWarns DEF Words
  <2>2. Tells(<<WarnAndHint("empty"), Hint("unmodified")>>, {"empty"})
    BY <2>1 DEF Tells, Warned
  <2>3. QED BY <1>1, <1>2, <2>2, RespondsHonestly
<1>3. ASSUME NEW causes \in SUBSET {"inventory", "no_inventory", "missing_imports", "ambiguous",
                                    "similar", "axioms", "tainted"},
             NEW shown \in SUBSET (Unanswerable \cup {"stale_build"}),
             NEW dropped \in SUBSET {"tainted_unread", "tainted_inventory"},
             Responds(causes \cup shown \cup dropped,
                      (causes \ {"no_inventory", "axioms"}) \cup shown,
                      When("inventory" \in causes, WarnAndHint("inventory"))
                        \o When("no_inventory" \in causes, Warn("no_inventory"))
                        \o <<Hint("unmodified")>>
                        \o When("missing_imports" \in causes, WarnAndHint("missing_imports"))
                        \o When("ambiguous" \in causes, WarnAndHint("ambiguous"))
                        \o When("similar" \in causes, WarnAndHint("similar"))
                        \o When("axioms" \in causes, Warn("axioms"))
                        \o When("tainted" \in causes, WarnAndHint("tainted")))
      PROVE  DegradeInv'
  <2> DEFINE met == causes \cup shown \cup dropped
             shows == (causes \ {"no_inventory", "axioms"}) \cup shown
             absent == IF "no_inventory" \in causes THEN {"no_inventory"} ELSE {}
             warned == IF "axioms" \in causes THEN {"axioms"} ELSE {}
             n0 == When("inventory" \in causes, WarnAndHint("inventory"))
                     \o When("no_inventory" \in causes, Warn("no_inventory"))
             n1 == n0 \o <<Hint("unmodified")>>
             n2 == n1 \o When("missing_imports" \in causes, WarnAndHint("missing_imports"))
             n3 == n2 \o When("ambiguous" \in causes, WarnAndHint("ambiguous"))
             n4 == n3 \o When("similar" \in causes, WarnAndHint("similar"))
             n5 == n4 \o When("axioms" \in causes, Warn("axioms"))
             n6 == n5 \o When("tainted" \in causes, WarnAndHint("tainted"))
  <2>1. /\ Tells(When("inventory" \in causes, WarnAndHint("inventory")), {})
        /\ Tells(When("no_inventory" \in causes, Warn("no_inventory")), absent)
        /\ Tells(<<Hint("unmodified")>>, {})
        /\ Tells(When("missing_imports" \in causes, WarnAndHint("missing_imports")), {})
        /\ Tells(When("ambiguous" \in causes, WarnAndHint("ambiguous")), {})
        /\ Tells(When("similar" \in causes, WarnAndHint("similar")), {})
        /\ Tells(When("axioms" \in causes, Warn("axioms")), warned)
        /\ Tells(When("tainted" \in causes, WarnAndHint("tainted")), {})
    <3>1. ASSUME NEW about \in Words
          PROVE  /\ Tells(When(about \in causes, WarnAndHint(about)), {})
                 /\ Tells(When(about \in causes, Warn(about)),
                          IF about \in causes THEN {about} ELSE {})
      <4>1. CASE about \in causes BY <4>1, OneTells DEF When, Tells
      <4>2. CASE about \notin causes BY <4>2, NoneWarns DEF When, Tells
      <4>3. QED BY <4>1, <4>2
    <3>2. /\ "inventory" \in Words /\ "unmodified" \in Words /\ "missing_imports" \in Words
          /\ "ambiguous" \in Words /\ "similar" \in Words /\ "axioms" \in Words
          /\ "tainted" \in Words /\ "no_inventory" \in Words
      BY DEF Words
    <3>3. Tells(<<Hint("unmodified")>>, {}) BY <3>2, OneTells
    <3>4. QED BY <3>1, <3>2, <3>3
  <2> HIDE DEF warned, absent
  <2>2. Tells(n0, {} \cup absent) BY <2>1, BothTell
  <2> HIDE DEF n0
  <2>3. Tells(n1, absent \cup {})
    <3>1. Tells(n0, absent) BY <2>2 DEF Tells
    <3>2. QED BY <2>1, <3>1, BothTell
  <2> HIDE DEF n1
  <2>4. Tells(n2, absent \cup {})
    <3>1. Tells(n1, absent) BY <2>3 DEF Tells
    <3>2. QED BY <2>1, <3>1, BothTell
  <2> HIDE DEF n2
  <2>5. Tells(n3, absent \cup {})
    <3>1. Tells(n2, absent) BY <2>4 DEF Tells
    <3>2. QED BY <2>1, <3>1, BothTell
  <2> HIDE DEF n3
  <2>6. Tells(n4, absent \cup {})
    <3>1. Tells(n3, absent) BY <2>5 DEF Tells
    <3>2. QED BY <2>1, <3>1, BothTell
  <2> HIDE DEF n4
  <2>7. Tells(n5, absent \cup warned)
    <3>1. Tells(n4, absent) BY <2>6 DEF Tells
    <3>2. QED BY <2>1, <3>1, BothTell
  <2> HIDE DEF n5
  <2>8. Tells(n6, (absent \cup warned) \cup {}) BY <2>1, <2>7, BothTell
  <2>9. Tells(n6, absent \cup warned) BY <2>8 DEF Tells
  <2>10. Responds(met, shows, n6) BY <1>3 DEF n0, n1, n2, n3, n4, n5
  <2>11. "" \notin met BY DEF Unanswerable
  <2>12. \A c \in dropped : <<mode, c>> \in Unflagged BY <1>1 DEF Unflagged
  <2>13. \A c \in met : <<mode, c>> \in Unflagged \/ c \in shows \/ c \in absent \cup warned
    <3>1. \A c \in causes : c \in shows \/ c \in absent \cup warned BY DEF absent, warned
    <3>2. shown \subseteq shows OBVIOUS
    <3>3. QED BY <2>12, <3>1, <3>2
  <2> HIDE DEF met, shows, n6
  <2>14. QED BY <1>1, <2>9, <2>10, <2>11, <2>13, RespondsHonestly
<1>4. QED BY <1>1, <1>2, <1>3 DEF Verify

-----------------------------------------------------------------------------
LEMMA TargetProfileHonest ==
  ASSUME DegradeInv, TargetProfile
  PROVE  DegradeInv'
<1>1. PICK read \in Read, tainted \in BOOLEAN, missing \in BOOLEAN :
        /\ suffered' = suffered \cup ({read} \ {"text", "state"})
                          \cup Tainted(tainted) \cup Missing(missing)
        /\ response' = [response EXCEPT !.shows = {read} \ Silent]
  BY DEF TargetProfile
<1>2. pc = "run" /\ mode = "proof_search" /\ pc' = "search" /\ mode' = mode /\ answer' = answer
  BY DEF TargetProfile
<1>3. suffered = {} BY <1>2 DEF DegradeInv
<1>4. "" \notin suffered'
  <2>1. read # "" BY DEF Read, GoalOutcomes, Unanswerable
  <2>2. "" \notin Tainted(tainted) \cup Missing(missing) BY DEF Tainted, Missing
  <2>3. QED BY <1>1, <1>3, <2>1, <2>2
<1>5. response'.shows = {read} \ Silent /\ DOMAIN response' = {"shows", "notes", "live"}
  BY <1>1 DEF DegradeInv
<1>6. \A c \in suffered' : <<mode', c>> \in Unflagged' \/ c \in {read} \ Silent
  <2>1. \A c \in Silent \cup {"tainted", "missing_imports"} : <<mode', c>> \in Unflagged'
    BY <1>2 DEF Silent, Unflagged
  <2>2. Tainted(tainted) \cup Missing(missing) \subseteq {"tainted", "missing_imports"}
    BY DEF Tainted, Missing
  <2>3. suffered' \subseteq {read} \cup {"tainted", "missing_imports"} BY <1>1, <1>3, <2>2
  <2>4. QED BY <2>1, <2>3
<1>7. QED BY <1>2, <1>4, <1>5, <1>6 DEF DegradeInv, NoSilentDegrade

LEMMA SemanticSearchHonest ==
  ASSUME DegradeInv, SemanticSearch
  PROVE  DegradeInv'
<1>1. pc = "search" /\ mode = "proof_search" /\ "" \notin suffered
  BY DEF SemanticSearch, DegradeInv
<1>2. PICK failed \in {FALSE, search.semantic}, tainted \in {FALSE, search.semantic} :
        LET semantic == search.semantic /\ ~failed
            met == IF failed THEN {"semantic"} ELSE Tainted(tainted)
            planned == plan_searches(search.goal.profile, search.goal.mode)
            shows == response.shows \cup (IF failed THEN {"semantic"} ELSE {})
                       \cup (IF planned = <<>> /\ ~semantic THEN {"nothing_to_search"} ELSE {})
        IN  IF planned = <<>>
              THEN Responds(met, shows, <<>>)
              ELSE /\ response' = [response EXCEPT !.shows = shows]
                   /\ suffered' = suffered \cup met
                   /\ UNCHANGED <<request, mode, pc, answer>>
  BY DEF SemanticSearch
<1> DEFINE semantic == search.semantic /\ ~failed
           met == IF failed THEN {"semantic"} ELSE Tainted(tainted)
           planned == plan_searches(search.goal.profile, search.goal.mode)
           shows == response.shows \cup (IF failed THEN {"semantic"} ELSE {})
                      \cup (IF planned = <<>> /\ ~semantic THEN {"nothing_to_search"} ELSE {})
<1>3. /\ response.shows \subseteq shows /\ "" \notin met
      /\ \A c \in met : <<mode, c>> \in Unflagged \/ c \in shows
  BY <1>1 DEF Tainted, Unflagged
<1>4. \/ Responds(met, shows, <<>>)
      \/ /\ response' = [response EXCEPT !.shows = shows]
         /\ suffered' = suffered \cup met
         /\ UNCHANGED <<request, mode, pc, answer>>
  BY <1>2
<1> HIDE DEF shows, planned, semantic, met
<1>5. CASE Responds(met, shows, <<>>)
  <2>1. Tells(<<>>, {}) BY NoneWarns DEF Tells
  <2>2. QED BY <1>1, <1>3, <1>5, <2>1, RespondsHonestly
<1>6. CASE /\ response' = [response EXCEPT !.shows = shows]
           /\ suffered' = suffered \cup met
           /\ UNCHANGED <<request, mode, pc, answer>>
  <2>1. response'.shows = shows /\ DOMAIN response' = {"shows", "notes", "live"}
    BY <1>6 DEF DegradeInv
  <2>2. "" \notin suffered' BY <1>1, <1>3, <1>6
  <2>3. \A c \in suffered' : <<mode', c>> \in Unflagged' \/ c \in shows
    BY <1>1, <1>3, <1>6 DEF DegradeInv, Unflagged
  <2>4. QED BY <1>1, <1>6, <2>1, <2>2, <2>3 DEF DegradeInv, NoSilentDegrade
<1>7. QED BY <1>4, <1>5, <1>6

LEMMA DeclarationSearchesHonest ==
  ASSUME DegradeInv, DeclarationSearches
  PROVE  DegradeInv'
<1>1. pc = "search" /\ mode = "proof_search" BY DEF DeclarationSearches, DegradeInv
<1>2. CASE Responds({"missing_olean"}, response.shows \cup {"missing_olean"},
                    <<WarnAndHint("missing_olean"), Hint("supply_imports")>>)
  <2>1. Hint("supply_imports") \in Notes /\ WarnAndHint("missing_olean") \in Notes
    BY NoteWarns DEF Words
  <2> DEFINE notes == <<WarnAndHint("missing_olean"), Hint("supply_imports")>>
             shows == response.shows \cup {"missing_olean"}
  <2>2. Tells(notes, {}) BY <2>1 DEF Tells
  <2>3. response.shows \subseteq shows /\ \A c \in {"missing_olean"} : c \in shows OBVIOUS
  <2>4. "" \notin {"missing_olean"} OBVIOUS
  <2>5. Responds({"missing_olean"}, shows, notes) BY <1>2
  <2> HIDE DEF notes, shows
  <2>6. QED BY <1>1, <2>2, <2>3, <2>4, <2>5, RespondsHonestly
<1>3. ASSUME NEW tainted \in BOOLEAN, NEW warned,
             Responds(Tainted(tainted), response.shows \cup warned, <<>>)
      PROVE  DegradeInv'
  <2>1. Tells(<<>>, {}) BY NoneWarns DEF Tells
  <2>2. "" \notin Tainted(tainted) /\ \A c \in Tainted(tainted) : <<mode, c>> \in Unflagged
    BY <1>1 DEF Tainted, Unflagged
  <2>3. QED BY <1>1, <1>3, <2>1, <2>2, RespondsHonestly
<1>4. QED BY <1>2, <1>3 DEF DeclarationSearches

LEMMA RespondHonest ==
  ASSUME DegradeInv, Respond
  PROVE  DegradeInv'
<1>1. PICK slow \in {FALSE, response.live},
           advised \in {FALSE, response.live /\ mode # "proof_search"} :
        LET notes == response.notes \o When(advised, Warn("advisory")) \o When(slow, Warn("slow"))
        IN  answer' = [NoAnswer EXCEPT !.code = "ok", !.issues = semantic_issues(notes),
                                       !.shows = response.shows]
  BY DEF Respond
<1> DEFINE first == When(advised, Warn("advisory"))
           second == When(slow, Warn("slow"))
           notes == response.notes \o first \o second
<1>2. pc = "respond" /\ pc' = "done" /\ UNCHANGED <<mode, response, suffered>> BY DEF Respond
<1>3. response.notes \in Seq(Notes) /\ "" \notin suffered /\ \A c \in suffered : Mentioned(c)
  BY <1>2 DEF DegradeInv
<1>4. first \in Seq(Notes) /\ second \in Seq(Notes)
  <2>1. ASSUME NEW condition, NEW about \in Words
        PROVE  When(condition, Warn(about)) \in Seq(Notes)
    BY NoteWarns, OneWarns, NoneWarns DEF When
  <2>2. QED BY <2>1 DEF Words
<1> HIDE DEF first, second
<1>5. notes \in Seq(Notes) /\ Warned(response.notes) \subseteq Warned(notes)
  <2>1. /\ response.notes \o first \in Seq(Notes)
        /\ Warned(response.notes \o first) = Warned(response.notes) \cup Warned(first)
    BY <1>3, <1>4, BothWarn
  <2>2. QED BY <1>4, <2>1, BothWarn
<1>6. answer'.code = "ok" /\ answer'.issues = semantic_issues(notes) /\ answer'.shows = response.shows
  <2>1. answer' = [NoAnswer EXCEPT !.code = "ok", !.issues = semantic_issues(notes),
                                   !.shows = response.shows]
    BY <1>1 DEF first, second
  <2> HIDE DEF notes
  <2>2. QED BY <2>1 DEF NoAnswer
<1> HIDE DEF notes
<1>7. ASSUME NEW c \in suffered
      PROVE  \/ <<mode, c>> \in Unflagged
             \/ c \in answer'.shows
             \/ \E i \in DOMAIN answer'.issues : answer'.issues[i].about = c
  <2>1. Mentioned(c) /\ c # "" BY <1>3
  <2>2. c \in Warned(response.notes) =>
          \E i \in DOMAIN semantic_issues(notes) : semantic_issues(notes)[i].about = c
    BY <1>5, <2>1, WarningsBecomeIssues
  <2>3. QED BY <1>6, <2>1, <2>2 DEF Mentioned
<1>8. QED BY <1>2, <1>3, <1>7 DEF DegradeInv, NoSilentDegrade, Unflagged

(* An answer that is worth less than it looks says so, outside the modes    *)
(* and conditions of Unflagged: for every request and every outcome.       *)
THEOREM DegradesAloud == Spec => []NoSilentDegrade
<1>1. Init => DegradeInv BY DEF Init, Blank, DegradeInv, NoSilentDegrade
<1>2. DegradeInv /\ [Next]_vars => DegradeInv'
  <2>1. SUFFICES ASSUME DegradeInv, [Next]_vars PROVE DegradeInv' OBVIOUS
  <2>2. CASE Dispatch
    <3>1. pc = "dispatch" /\ suffered' = {} /\ response' = response
      BY <2>1, <2>2 DEF Dispatch, DegradeInv
    <3>2. pc' \in {"done", "run"} BY <2>2 DEF Dispatch
    <3>3. QED BY <2>1, <3>1, <3>2 DEF DegradeInv, NoSilentDegrade
  <2>3. CASE WorkerUnavailable
    <3>1. pc' = "done" /\ "" \notin suffered' /\ response' = response
      BY <2>1, <2>3 DEF WorkerUnavailable, DegradeInv
    <3>2. answer'.code = "runtime_unavailable" BY <2>3 DEF WorkerUnavailable, Answer, NoAnswer
    <3>3. QED BY <2>1, <3>1, <3>2 DEF DegradeInv, NoSilentDegrade
  <2>4. CASE PinUnsupported
    <3>1. pc' = "done" /\ suffered' = suffered /\ response' = response
      BY <2>4 DEF PinUnsupported
    <3>2. answer'.code = "bad_project" BY <2>4 DEF PinUnsupported, NoAnswer
    <3>3. QED BY <2>1, <3>1, <3>2 DEF DegradeInv, NoSilentDegrade
  <2>5. CASE Status
    <3>1. pc = "run" /\ pc' = "done" /\ suffered' = suffered /\ response' = response
      BY <2>5 DEF Status
    <3>2. QED BY <2>1, <3>1 DEF DegradeInv, NoSilentDegrade
  <2>6. CASE ScanIndices \/ UNCHANGED vars
    <3>1. UNCHANGED <<mode, pc, response, answer, suffered>>
      BY <2>6 DEF ScanIndices, vars, toolVars
    <3>2. Unflagged' = Unflagged BY DEF Unflagged
    <3>3. \A c : Mentioned(c) => Mentioned(c)' BY <3>1, <3>2 DEF Mentioned, Warned
    <3>4. NoSilentDegrade' BY <2>1, <3>1, <3>2 DEF DegradeInv, NoSilentDegrade
    <3>5. QED BY <2>1, <3>1, <3>2, <3>3, <3>4 DEF DegradeInv
  <2>7. QED
    BY <2>1, <2>2, <2>3, <2>4, <2>5, <2>6, ProofPositionHonest, DiagnosticsHonest,
       InspectDeclarationHonest, ProofStepHonest, VerifyHonest, FileReferencesHonest,
       FileDeclarationsHonest, ScanAnsweredHonest, TargetProfileHonest, SemanticSearchHonest,
       DeclarationSearchesHonest, RespondHonest
    DEF Next
<1>3. DegradeInv => NoSilentDegrade BY DEF DegradeInv
<1>4. QED BY <1>1, <1>2, <1>3, PTL DEF Spec

-----------------------------------------------------------------------------
(* Retrieval. The bounds of finitely many numbers, and finite images.       *)
LEMMA BoundsAreAttained ==
  ASSUME NEW S \in SUBSET Nat, IsFiniteSet(S), S # {}
  PROVE  Max(S) \in S /\ Min(S) \in S
<1> DEFINE R == {p \in S \X S : p[1] < p[2]}
           size == Cardinality(S)
           listed == Listed(S, R)
<1>1. StrictlyOrders(R, S) BY NaturalsAreOrdered
<1> HIDE DEF R
<1>2. /\ size \in Nat /\ \A n \in 1..size : listed[n] \in S
      /\ \A x \in S : \E n \in 1..size : listed[n] = x
      /\ \A m, n \in 1..size : m < n => <<listed[m], listed[n]>> \in R
  BY <1>1, ListedIsInOrder
<1> HIDE DEF listed, size
<1>3. size \in 1..size /\ 1 \in 1..size
  <2>1. PICK x \in S : TRUE OBVIOUS
  <2>2. PICK n \in 1..size : listed[n] = x BY <1>2, <2>1
  <2>3. QED BY <1>2, <2>2
<1>4. \A m, n \in 1..size : m <= n => listed[m] <= listed[n]
  <2>1. TAKE m, n \in 1..size
  <2>2. HAVE m <= n
  <2>3. listed[m] \in Nat /\ listed[n] \in Nat BY <1>2
  <2>4. CASE m = n BY <2>3, <2>4
  <2>5. CASE m < n
    <3>1. <<listed[m], listed[n]>> \in R BY <1>2, <2>5
    <3>2. listed[m] < listed[n] BY <3>1 DEF R
    <3>3. QED BY <2>3, <3>2
  <2>6. QED BY <1>2, <2>2, <2>4, <2>5
<1>5. \A y \in S : listed[size] >= y /\ listed[1] <= y
  <2>1. TAKE y \in S
  <2>2. PICK n \in 1..size : listed[n] = y BY <1>2
  <2>3. n <= size /\ 1 <= n BY <1>2
  <2>4. listed[1] <= listed[n] /\ listed[n] <= listed[size] BY <1>3, <1>4, <2>3
  <2>5. listed[1] \in Nat /\ listed[n] \in Nat /\ listed[size] \in Nat BY <1>2, <1>3
  <2>6. QED BY <2>2, <2>4, <2>5
<1>6. (\E x \in S : \A y \in S : x >= y) /\ (\E x \in S : \A y \in S : x <= y)
  BY <1>2, <1>3, <1>5
<1>7. QED BY <1>6 DEF Max, Min

LEMMA ImageIsFinite ==
  ASSUME NEW S, IsFiniteSet(S), NEW f
  PROVE  IsFiniteSet({f[x] : x \in S})
<1> DEFINE T == {f[x] : x \in S}
           g == [x \in S |-> f[x]]
<1>1. g \in Surjection(S, T) BY DEF Surjection
<1>2. QED BY <1>1, FS_Surjection

LEMMA FirstOfIsPrefix ==
  ASSUME NEW T, NEW s \in Seq(T), NEW limit \in Nat
  PROVE  /\ FirstOf(s, limit) \in Seq(T) /\ Len(FirstOf(s, limit)) <= Len(s)
         /\ \A n \in 1..Len(FirstOf(s, limit)) : FirstOf(s, limit)[n] = s[n]
<1> DEFINE m == Min({Len(s), limit})
<1>1. Len(s) \in Nat OBVIOUS
<1>2. m \in {Len(s), limit} /\ m <= Len(s)
  <2>1. \E x \in {Len(s), limit} : \A y \in {Len(s), limit} : x <= y BY <1>1
  <2>2. QED BY <1>1, <2>1 DEF Min
<1> HIDE DEF m
<1>3. m \in Nat /\ m <= Len(s) BY <1>1, <1>2
<1>4. /\ SubSeq(s, 1, m) \in Seq(T) /\ Len(SubSeq(s, 1, m)) = m
      /\ \A n \in 1..m : SubSeq(s, 1, m)[n] = s[n]
  BY <1>1, <1>3
<1>5. QED BY <1>3, <1>4 DEF FirstOf, m

(* The label of a planned search says what it asks for, so that a candidate *)
(* found by it is corroborated exactly when the search was specific.       *)
Labels == {{"required_constants"}, {"conclusion_head"}, {"broad", "conclusion_head"},
           {"rewrite_eq"}, {"rewrite_iff"}, {"mode_fragment"}, {"name_fragment"}}
WellLabelled(q) ==
  /\ q.label \in Labels
  /\ q.label = {"required_constants"} <=> q.consts # {}
  /\ q.label = {"conclusion_head"} <=> ~(q.head = NoHead \/ is_broad_head(q.head))
WellPlanned(searches) ==
  \E T : searches \in Seq(T) /\ \A q \in T : WellLabelled(q)

LEMMA LabelsDiffer ==
  /\ {"required_constants"} # {"conclusion_head"}
  /\ {"broad", "conclusion_head"} \notin {{"required_constants"}, {"conclusion_head"}}
  /\ {"rewrite_eq"} \notin {{"required_constants"}, {"conclusion_head"}}
  /\ {"rewrite_iff"} \notin {{"required_constants"}, {"conclusion_head"}}
  /\ {"mode_fragment"} \notin {{"required_constants"}, {"conclusion_head"}}
  /\ {"name_fragment"} \notin {{"required_constants"}, {"conclusion_head"}}
<1>1. "required_constants" \notin {"conclusion_head"} OBVIOUS
<1>2. "broad" \in {"broad", "conclusion_head"} OBVIOUS
<1>3. "broad" \notin {"required_constants"} /\ "broad" \notin {"conclusion_head"} OBVIOUS
<1>4. QED BY <1>1, <1>2, <1>3

LEMMA JoinWellPlanned ==
  ASSUME NEW s, NEW t, WellPlanned(s), WellPlanned(t)
  PROVE  WellPlanned(s \o t)
<1>1. PICK S : s \in Seq(S) /\ \A q \in S : WellLabelled(q) BY DEF WellPlanned
<1>2. PICK T : t \in Seq(T) /\ \A q \in T : WellLabelled(q) BY DEF WellPlanned
<1>3. s \in Seq(S \cup T) /\ t \in Seq(S \cup T) BY <1>1, <1>2
<1>4. s \o t \in Seq(S \cup T) BY <1>3
<1>5. QED BY <1>1, <1>2, <1>4 DEF WellPlanned

LEMMA OneWellPlanned ==
  ASSUME NEW q, WellLabelled(q)
  PROVE  WellPlanned(<<q>>) /\ WellPlanned(<<>>)
<1> DEFINE T == {q}
<1>1. <<q>> \in Seq(T) /\ <<>> \in Seq(T) OBVIOUS
<1>2. \A r \in T : WellLabelled(r) OBVIOUS
<1> HIDE DEF T
<1>3. QED BY <1>1, <1>2 DEF WellPlanned

LEMMA FragmentsWellPlanned ==
  ASSUME NEW T, NEW fragments \in Seq(T), NEW label \in {{"mode_fragment"}, {"name_fragment"}}
  PROVE  WellPlanned(FragmentSearches(label, fragments))
<1> DEFINE made(i) == [label |-> label, head |-> NoHead, consts |-> {}, fragment |-> fragments[i]]
           all == {made(i) : i \in DOMAIN fragments}
<1>1. FragmentSearches(label, fragments) \in Seq(all)
  <2>1. Len(fragments) \in Nat /\ DOMAIN fragments = 1..Len(fragments) BY PlacesOfSequence
  <2>2. FragmentSearches(label, fragments) \in [1..Len(fragments) -> all]
    BY <2>1 DEF FragmentSearches
  <2>3. QED BY <2>1, <2>2
<1>2. ASSUME NEW i \in DOMAIN fragments
      PROVE  WellLabelled(made(i))
  BY LabelsDiffer DEF WellLabelled, Labels
<1>3. \A q \in all : WellLabelled(q) BY <1>2
<1> HIDE DEF all
<1>4. QED BY <1>1, <1>3 DEF WellPlanned

LEMMA HeadSearchesWellLabelled ==
  ASSUME NEW head
  PROVE  /\ head # NoHead =>
              WellLabelled(HeadSearch(IF is_broad_head(head) THEN {"broad", "conclusion_head"}
                                                             ELSE {"conclusion_head"}, head))
         /\ WellLabelled(HeadSearch({"rewrite_eq"}, "Eq"))
         /\ WellLabelled(HeadSearch({"rewrite_iff"}, "Iff"))
         /\ \A consts : consts # {} => WellLabelled(ConstantsSearch(consts))
<1>1. is_broad_head("Eq") /\ is_broad_head("Iff") BY DEF is_broad_head
<1>2. ASSUME head # NoHead
      PROVE  WellLabelled(HeadSearch(IF is_broad_head(head) THEN {"broad", "conclusion_head"}
                                                            ELSE {"conclusion_head"}, head))
  <2>1. CASE is_broad_head(head)
    BY <1>2, <2>1, LabelsDiffer DEF WellLabelled, HeadSearch, Labels
  <2>2. CASE ~is_broad_head(head)
    BY <1>2, <2>2, LabelsDiffer DEF WellLabelled, HeadSearch, Labels
  <2>3. QED BY <2>1, <2>2
<1>3. WellLabelled(HeadSearch({"rewrite_eq"}, "Eq"))
  BY <1>1, LabelsDiffer DEF WellLabelled, HeadSearch, Labels
<1>4. WellLabelled(HeadSearch({"rewrite_iff"}, "Iff"))
  BY <1>1, LabelsDiffer DEF WellLabelled, HeadSearch, Labels
<1>5. \A consts : consts # {} => WellLabelled(ConstantsSearch(consts))
  BY LabelsDiffer DEF WellLabelled, ConstantsSearch, Labels
<1>6. QED BY <1>2, <1>3, <1>4, <1>5

LEMMA PlansAreWellLabelled ==
  ASSUME NEW profile, profile.fragments \in Seq(STRING), NEW m, m # "simp"
  PROVE  WellPlanned(plan_searches(profile, m))
<1>1. WellPlanned(<<>>) BY OneWellPlanned, HeadSearchesWellLabelled
<1>2. WellPlanned(DirectSearches(profile, m))
  <2> DEFINE head == preferred_head(profile.heads, m)
             consts == Range(FirstOf(profile.consts, MAX_REQUIRED_CONSTANTS))
             tooBroad == m = "next_step" /\ consts = {} /\ is_broad_head(head)
             byHead == HeadSearch(IF is_broad_head(head) THEN {"broad", "conclusion_head"}
                                                         ELSE {"conclusion_head"}, head)
             first == IF head = NoHead \/ tooBroad THEN <<>> ELSE <<byHead>>
             second == IF consts = {} THEN <<>> ELSE <<ConstantsSearch(consts)>>
  <2> HIDE DEF head, consts
  <2>1. WellPlanned(first)
    <3>1. head # NoHead => WellLabelled(byHead) BY HeadSearchesWellLabelled
    <3> HIDE DEF byHead, tooBroad
    <3>2. QED BY <1>1, <3>1, OneWellPlanned
  <2>2. WellPlanned(second) BY <1>1, OneWellPlanned, HeadSearchesWellLabelled
  <2>3. DirectSearches(profile, m) = first \o second BY DEF DirectSearches, head, consts
  <2> HIDE DEF first, second
  <2>4. QED BY <2>1, <2>2, <2>3, JoinWellPlanned
<1>3. WellPlanned(ModeSearches(profile, m))
  <2>1. CASE m = "rewrite"
    <3> DEFINE eq == HeadSearch({"rewrite_eq"}, "Eq")
               iff == HeadSearch({"rewrite_iff"}, "Iff")
               words == FragmentSearches({"mode_fragment"}, <<"rw", "rewrite">>)
    <3>1. WellLabelled(eq) /\ WellLabelled(iff) BY HeadSearchesWellLabelled
    <3>2. WellPlanned(words)
      <4>1. <<"rw", "rewrite">> \in Seq({"rw", "rewrite"}) OBVIOUS
      <4>2. QED BY <4>1, FragmentsWellPlanned
    <3>3. ModeSearches(profile, m) = <<eq, iff>> \o words BY <2>1 DEF ModeSearches
    <3> HIDE DEF eq, iff, words
    <3>4. WellPlanned(<<eq, iff>>)
      <4> DEFINE T == {eq, iff}
      <4>1. <<eq, iff>> \in Seq(T) OBVIOUS
      <4>2. \A r \in T : WellLabelled(r) BY <3>1
      <4> HIDE DEF T
      <4>3. QED BY <4>1, <4>2 DEF WellPlanned
    <3>5. QED BY <3>2, <3>3, <3>4, JoinWellPlanned
  <2>2. CASE m # "rewrite" BY <1>2, <2>2 DEF ModeSearches
  <2>3. QED BY <2>1, <2>2
<1> DEFINE all == ModeSearches(profile, m) \o FragmentSearches({"name_fragment"}, profile.fragments)
           firsts == {i \in DOMAIN all : \A j \in 1..i - 1 : ~SameRequest(all[i], all[j])}
<1>4. WellPlanned(all)
  <2>1. WellPlanned(FragmentSearches({"name_fragment"}, profile.fragments))
    BY FragmentsWellPlanned
  <2>2. QED BY <1>3, <2>1, JoinWellPlanned
<1>5. plan_searches(profile, m) = FirstOf(At(all, firsts), MAX_SEARCHES) BY DEF plan_searches
<1>6. firsts \in SUBSET DOMAIN all OBVIOUS
<1> HIDE DEF all, firsts
<1>7. PICK T : all \in Seq(T) /\ \A q \in T : WellLabelled(q) BY <1>4 DEF WellPlanned
<1>8. Len(all) \in Nat /\ DOMAIN all = 1..Len(all) BY <1>7, PlacesOfSequence
<1>9. At(all, firsts) \in Seq({all[i] : i \in firsts}) BY <1>6, <1>8, AtPicks
<1>10. {all[i] : i \in firsts} \subseteq T BY <1>6, <1>7
<1>11. At(all, firsts) \in Seq(T) BY <1>9, <1>10
<1>12. FirstOf(At(all, firsts), MAX_SEARCHES) \in Seq(T)
  BY <1>11, FirstOfIsPrefix, SearchConstants
<1>13. QED BY <1>5, <1>7, <1>12 DEF WellPlanned

(* A search is corroborated by its label exactly when what it asked for      *)
(* vouches for what it found; the worker's own words and those of the      *)
(* semantic search are never taken for such a label.                       *)
LEMMA CorroborationIsVouching ==
  ASSUME NEW searches, WellPlanned(searches), NEW semantic \in BOOLEAN, NEW d \in Decls
  PROVE  is_corroborated(Reasons(d, searches, semantic)) <=> Vouched(d, searches, semantic)
<1> DEFINE reasons == Reasons(d, searches, semantic)
           found == FoundBy(d, searches)
           byWorker == UNION {{searches[i].label, WorkerReason(searches[i])} : i \in found}
           bySemantic == IF semantic /\ d \in SemanticCandidates
                           THEN {{"semantic"}} \cup {{"semantic", e} :
                                  e \in {f \in d.evidence : semantic_evidence_admits(f)}}
                           ELSE {}
<1>1. reasons = byWorker \cup bySemantic BY DEF Reasons
<1>2. \A i \in found : WellLabelled(searches[i])
  <2>1. PICK T : searches \in Seq(T) /\ \A q \in T : WellLabelled(q) BY DEF WellPlanned
  <2>2. found \subseteq DOMAIN searches BY DEF FoundBy
  <2>3. DOMAIN searches = 1..Len(searches) /\ Len(searches) \in Nat
    BY <2>1, PlacesOfSequence
  <2> HIDE DEF found
  <2>4. \A i \in found : searches[i] \in T BY <2>1, <2>2, <2>3
  <2>5. QED BY <2>1, <2>4
<1>3. \A i \in found : "worker" \in WorkerReason(searches[i]) BY DEF WorkerReason
<1>4. \A r \in bySemantic : "semantic" \in r OBVIOUS
<1> HIDE DEF found
<1>5. ASSUME NEW label \in {{"conclusion_head"}, {"required_constants"}}
      PROVE  label \in reasons <=> \E i \in found : searches[i].label = label
  <2>1. "worker" \notin label /\ "semantic" \notin label OBVIOUS
  <2>2. QED BY <1>1, <1>3, <1>4, <2>1
<1>6. ASSUME NEW e \in StatementEvidence
      PROVE  {"semantic", e} \in reasons <=> semantic /\ e \in d.evidence
  <2>1. e # "worker" /\ e # "semantic" /\ semantic_evidence_admits(e)
    BY DEF StatementEvidence, semantic_evidence_admits
  <2>2. {"semantic", e} \notin byWorker
    <3>1. \A label \in Labels : "semantic" \notin label BY DEF Labels
    <3>2. \A i \in found : searches[i].label \in Labels BY <1>2 DEF WellLabelled
    <3>3. "worker" \notin {"semantic", e} BY <2>1
    <3>4. QED BY <1>3, <3>1, <3>2, <3>3
  <2>3. ASSUME {"semantic", e} \in bySemantic
        PROVE  semantic /\ e \in d.evidence
    <3>1. e \notin {"semantic"} BY <2>1
    <3>2. semantic /\ \E f \in d.evidence : {"semantic", e} = {"semantic", f}
      BY <2>3, <3>1
    <3>3. QED BY <2>1, <3>2
  <2>4. ASSUME semantic, e \in d.evidence
        PROVE  {"semantic", e} \in bySemantic
    <3>1. d \in SemanticCandidates BY <2>1, <2>4 DEF SemanticCandidates
    <3>2. QED BY <2>1, <2>4, <3>1
  <2> HIDE DEF byWorker, bySemantic
  <2>5. QED BY <1>1, <2>2, <2>3, <2>4
<1> HIDE DEF reasons
<1>7. (\E i \in found : searches[i].label \in {{"conclusion_head"}, {"required_constants"}})
        <=> \E i \in found : searches[i].consts # {}
                             \/ ~(searches[i].head = NoHead \/ is_broad_head(searches[i].head))
  BY <1>2 DEF WellLabelled
<1>8. {{"conclusion_head"}, {"required_constants"}} \cap reasons # {}
        <=> \E i \in found : searches[i].label \in {{"conclusion_head"}, {"required_constants"}}
  BY <1>5
<1>9. (\E e \in StatementEvidence : {"semantic", e} \in reasons)
        <=> semantic /\ d.evidence \cap StatementEvidence # {}
  BY <1>6
<1>10. QED BY <1>7, <1>8, <1>9 DEF is_corroborated, Vouched, reasons, found

(* Every candidate has a score.                                             *)
LEMMA ScoresAreNatural ==
  ASSUME NEW profile, profile.fragments \in Seq(STRING), NEW T, NEW searches \in Seq(T),
         NEW semantic \in BOOLEAN, NEW d \in Candidates(searches, semantic)
  PROVE  Score(d, profile, searches, semantic) \in Nat
<1> DEFINE found == FoundBy(d, searches)
           scored == [i \in found |-> candidate_score(WorkerScore(searches[i]), d, searches[i].label)]
           byWorker == {scored[i] : i \in found}
           bySemantic == IF semantic /\ d \in SemanticCandidates
                           THEN {candidate_score(150, d, {"semantic"})} ELSE {}
           scores == byWorker \cup bySemantic
<1>1. d \in Decls /\ d.bias \in Nat BY SearchConstants DEF Candidates
<1>2. \A base \in Nat : \A label : candidate_score(base, d, label) \in Nat
  BY <1>1 DEF candidate_score
<1>3. scores \subseteq Nat
  <2>1. \A i \in found : scored[i] \in Nat BY <1>2 DEF WorkerScore
  <2>2. bySemantic \subseteq Nat BY <1>2
  <2>3. QED BY <2>1, <2>2
<1>4. IsFiniteSet(scores)
  <2>1. IsFiniteSet(found)
    <3>1. found \subseteq 1..Len(searches) /\ Len(searches) \in Nat
      BY PlacesOfSequence DEF FoundBy
    <3>2. IsFiniteSet(1..Len(searches)) BY <3>1, FS_Interval
    <3> HIDE DEF found
    <3>3. QED BY <3>1, <3>2, FS_Subset
  <2> HIDE DEF found, scored
  <2>2. IsFiniteSet(byWorker) BY <2>1, ImageIsFinite
  <2>3. IsFiniteSet(bySemantic) BY FS_EmptySet, FS_Singleton
  <2>4. QED BY <2>2, <2>3, FS_Union
<1>5. scores # {}
  <2>1. Reasons(d, searches, semantic) # {} BY DEF Candidates
  <2>2. found # {} \/ (semantic /\ d \in SemanticCandidates) BY <2>1 DEF Reasons
  <2> HIDE DEF found
  <2>3. QED BY <2>2
<1>6. Max(scores) \in Nat
  <2> HIDE DEF scores
  <2>1. QED BY <1>3, <1>4, <1>5, BoundsAreAttained
<1>7. FragmentBonus(d, profile, is_corroborated(Reasons(d, searches, semantic))) \in Nat
  <2> DEFINE fragments == profile.fragments
             named == {f \in Range(fragments) : f \in d.words}
             doubled == IF is_corroborated(Reasons(d, searches, semantic))
                          THEN named \cap profile.structural ELSE {}
  <2>1. IsFiniteSet(Range(fragments))
    <3>1. IsFiniteSet(DOMAIN fragments)
      <4>1. DOMAIN fragments = 1..Len(fragments) /\ Len(fragments) \in Nat
        BY PlacesOfSequence
      <4>2. QED BY <4>1, FS_Interval
    <3>2. Range(fragments) = {fragments[i] : i \in DOMAIN fragments} BY DEF Range
    <3> HIDE DEF fragments
    <3>3. QED BY <3>1, <3>2, ImageIsFinite
  <2>2. named \subseteq Range(fragments) /\ doubled \subseteq named OBVIOUS
  <2>3. IsFiniteSet(named) /\ IsFiniteSet(doubled)
    <3> HIDE DEF named, doubled
    <3>1. QED BY <2>1, <2>2, FS_Subset
  <2>4. Cardinality(named) \in Nat /\ Cardinality(doubled) \in Nat
    BY <2>3, FS_CardinalityType
  <2>5. FragmentBonus(d, profile, is_corroborated(Reasons(d, searches, semantic)))
          = 5 * (Cardinality(named) + Cardinality(doubled))
    BY DEF FragmentBonus
  <2> HIDE DEF named, doubled
  <2>6. QED BY <2>4, <2>5
<1>8. byWorker = {candidate_score(WorkerScore(searches[i]), d, searches[i].label) : i \in found}
  OBVIOUS
<1>9. Score(d, profile, searches, semantic)
        = Max(scores) + FragmentBonus(d, profile, is_corroborated(Reasons(d, searches, semantic)))
  <2> HIDE DEF byWorker
  <2>1. QED BY <1>8 DEF Score, found
<1> HIDE DEF scores
<1>10. QED BY <1>6, <1>7, <1>9

(* Listing the vouched ahead of the others and cutting the list keeps both   *)
(* halves of VouchedFirst, whatever the limit.                             *)
LEMMA RankingPutsVouchedFirst ==
  ASSUME NEW profile, profile.fragments \in Seq(STRING), NEW limit \in Nat, NEW searches,
         WellPlanned(searches), NEW semantic \in BOOLEAN
  PROVE  VouchedFirst(rank_results(profile, limit, searches, semantic), searches, semantic)
<1> DEFINE found == Candidates(searches, semantic)
           corroborated == {d \in found : is_corroborated(Reasons(d, searches, semantic))}
           others == found \ corroborated
           score == [d \in found |-> Score(d, profile, searches, semantic)]
           ahead == {p \in found \X found :
                       \/ score[p[1]] > score[p[2]]
                       \/ score[p[1]] = score[p[2]] /\ p[1].name < p[2].name}
           first == Listed(corroborated, ahead)
           second == Listed(others, ahead)
           ranked == first \o second
           kept == rank_results(profile, limit, searches, semantic)
<1>1. found \subseteq Decls /\ IsFiniteSet(corroborated) /\ IsFiniteSet(others)
  <2>1. found \subseteq Decls BY DEF Candidates
  <2>2. corroborated \subseteq Decls /\ others \subseteq Decls BY <2>1
  <2> HIDE DEF corroborated, others, found
  <2>3. QED BY <2>1, <2>2, FS_Subset, SearchConstants
<1>2. \A d \in found : score[d] \in Nat
  <2>1. PICK T : searches \in Seq(T) BY DEF WellPlanned
  <2>2. QED BY <2>1, ScoresAreNatural
<1>3. \A d \in found : d \in corroborated <=> Vouched(d, searches, semantic)
  <2> HIDE DEF found
  <2>1. QED BY <1>1, CorroborationIsVouching
<1> HIDE DEF found, score
<1>4. corroborated \subseteq found /\ others \subseteq found OBVIOUS
<1>5. ASSUME NEW S \in SUBSET found
      PROVE  StrictlyOrders(ahead, S)
  <2>1. \A d, e \in found : /\ score[d] \in Nat /\ score[e] \in Nat
                            /\ d.name \in Nat /\ e.name \in Nat /\ (d.name = e.name => d = e)
    BY <1>1, <1>2, SearchConstants
  <2>2. \A d, e \in found : <<d, e>> \in ahead <=>
          score[d] > score[e] \/ (score[d] = score[e] /\ d.name < e.name)
    OBVIOUS
  <2> HIDE DEF ahead
  <2>3. ASSUME NEW x \in S
        PROVE  <<x, x>> \notin ahead
    BY <2>1, <2>2
  <2>4. ASSUME NEW x \in S, NEW y \in S, NEW z \in S, <<x, y>> \in ahead, <<y, z>> \in ahead
        PROVE  <<x, z>> \in ahead
    BY <2>1, <2>2, <2>4
  <2>5. ASSUME NEW x \in S, NEW y \in S
        PROVE  x = y \/ <<x, y>> \in ahead \/ <<y, x>> \in ahead
    BY <2>1, <2>2
  <2>6. QED BY <2>3, <2>4, <2>5 DEF StrictlyOrders
<1>6. kept = FirstOf(ranked, limit) BY DEF rank_results, Ranked, found, score
<1> HIDE DEF ahead, kept
<1>7. ASSUME NEW S \in {corroborated, others}
      PROVE  /\ Listed(S, ahead) \in Seq(S) /\ DOMAIN Listed(S, ahead) = 1..Len(Listed(S, ahead))
             /\ Len(Listed(S, ahead)) \in Nat
             /\ \A n \in 1..Len(Listed(S, ahead)) : Listed(S, ahead)[n] \in S
             /\ \A x \in S : \E n \in 1..Len(Listed(S, ahead)) : Listed(S, ahead)[n] = x
  <2>1. IsFiniteSet(S) /\ StrictlyOrders(ahead, S) BY <1>1, <1>4, <1>5
  <2>2. QED BY <2>1, ListedIsInOrder
<1> DEFINE p == Len(first)
           q == Len(second)
<1>8. /\ p \in Nat /\ \A n \in 1..p : first[n] \in corroborated
      /\ \A x \in corroborated : \E n \in 1..p : first[n] = x
      /\ first \in Seq(found)
  <2>1. first \in Seq(corroborated) BY <1>7
  <2>2. first \in Seq(found) BY <2>1, <1>4
  <2>3. QED BY <1>7, <2>2
<1>9. /\ q \in Nat /\ \A n \in 1..q : second[n] \in others
      /\ second \in Seq(found)
  <2>1. second \in Seq(others) BY <1>7
  <2>2. second \in Seq(found) BY <2>1, <1>4
  <2>3. QED BY <1>7, <2>2
<1> HIDE DEF first, second
<1>10. /\ ranked \in Seq(found) /\ Len(ranked) = p + q
       /\ \A n \in 1..p : ranked[n] = first[n]
       /\ \A n \in p + 1..p + q : ranked[n] = second[n - p]
  BY <1>8, <1>9
<1> HIDE DEF ranked
<1>11. /\ \A n \in 1..p : ranked[n] \in corroborated
       /\ \A n \in p + 1..p + q : ranked[n] \notin corroborated
       /\ \A x \in corroborated : \E n \in 1..p : ranked[n] = x
  <2>1. ASSUME NEW n \in p + 1..p + q
        PROVE  ranked[n] \notin corroborated
    <3>1. n - p \in 1..q BY <1>8, <1>9
    <3>2. QED BY <1>9, <1>10, <3>1
  <2>2. QED BY <1>8, <1>10, <2>1
<1> DEFINE m == Len(kept)
<1>12. /\ DOMAIN kept = 1..m /\ m \in Nat /\ m <= p + q
       /\ \A n \in 1..m : kept[n] = ranked[n]
  <2>1. /\ kept \in Seq(found) /\ m <= Len(ranked) /\ \A n \in 1..m : kept[n] = ranked[n]
    BY <1>6, <1>10, FirstOfIsPrefix
  <2>2. QED BY <1>10, <2>1, PlacesOfSequence
<1> HIDE DEF corroborated, others, m, p, q
<1>13. \A i, j \in DOMAIN kept : i < j /\ kept[j] \in corroborated => kept[i] \in corroborated
  <2>1. TAKE i, j \in DOMAIN kept
  <2>2. HAVE i < j /\ kept[j] \in corroborated
  <2>3. j \in 1..p
    <3>1. j \notin p + 1..p + q BY <1>11, <1>12, <2>2
    <3>2. QED BY <1>8, <1>9, <1>12, <3>1
  <2>4. i \in 1..p BY <1>8, <1>12, <2>2, <2>3
  <2>5. QED BY <1>11, <1>12, <2>4
<1>14. corroborated \subseteq Range(kept) \/ Range(kept) \subseteq corroborated
  <2>1. Range(kept) = {kept[n] : n \in 1..m} BY <1>12 DEF Range
  <2>2. CASE p <= m
    <3>1. \A n \in 1..p : n \in 1..m BY <1>8, <1>12, <2>2
    <3>2. QED BY <1>11, <1>12, <2>1, <3>1
  <2>3. CASE ~(p <= m)
    <3>1. \A n \in 1..m : n \in 1..p BY <1>8, <1>12, <2>3
    <3>2. QED BY <1>11, <1>12, <2>1, <3>1
  <2>4. QED BY <2>2, <2>3
<1>15. {d \in Candidates(searches, semantic) : Vouched(d, searches, semantic)} = corroborated
  BY <1>3, <1>4 DEF found
<1>16. QED BY <1>13, <1>14, <1>15 DEF VouchedFirst, kept

LEMMA NothingIsInOrder ==
  ASSUME NEW searches, NEW semantic
  PROVE  VouchedFirst(<<>>, searches, semantic)
<1>1. DOMAIN <<>> = {} /\ Range(<<>>) = {} BY DEF Range
<1>2. QED BY <1>1 DEF VouchedFirst

(* What a proof search has between its worker calls: the goal it was asked, *)
(* the searches planned for that goal, and no candidates yet.              *)
SearchInv ==
  /\ pc \in {"dispatch", "run"} => search = NoSearch
  /\ pc = "search" =>
       /\ DOMAIN search = {"goal", "semantic", "planned", "candidates"}
       /\ search.goal.profile.fragments \in Seq(STRING) /\ search.goal.limit \in Nat
       /\ search.semantic \in BOOLEAN /\ search.candidates = <<>>
       /\ search.planned # <<>> =>
            search.planned = plan_searches(search.goal.profile, search.goal.mode)
  /\ CorroboratedFirst

LEMMA TargetProfileKeepsSearchInv ==
  ASSUME SearchInv, TargetProfile
  PROVE  SearchInv'
<1>1. PICK goal \in Goals, known \in BOOLEAN, semantic \in BOOLEAN :
        search' = [NoSearch EXCEPT !.semantic = semantic,
                     !.goal = IF known THEN goal ELSE [goal EXCEPT !.profile = NoText]]
  BY DEF TargetProfile
<1> DEFINE asked == IF known THEN goal ELSE [goal EXCEPT !.profile = NoText]
<1>2. asked.profile.fragments \in Seq(STRING) /\ asked.limit \in Nat
  <2>1. /\ DOMAIN goal = {"profile", "mode", "limit"}
        /\ goal.profile.fragments \in Seq(STRING) /\ goal.limit \in Nat
    BY ToolConstants
  <2>2. NoText.fragments \in Seq(STRING) BY DEF NoText
  <2>3. QED BY <2>1, <2>2
<1>3. search' = [NoSearch EXCEPT !.semantic = semantic, !.goal = asked] BY <1>1
<1> HIDE DEF asked
<1>4. /\ DOMAIN search' = {"goal", "semantic", "planned", "candidates"}
      /\ search'.goal = asked /\ search'.semantic = semantic
      /\ search'.planned = <<>> /\ search'.candidates = <<>>
  BY <1>3 DEF NoSearch
<1>5. pc' = "search" BY DEF TargetProfile
<1>6. QED BY <1>2, <1>4, <1>5 DEF SearchInv, CorroboratedFirst

LEMMA SemanticSearchKeepsSearchInv ==
  ASSUME SearchInv, SemanticSearch
  PROVE  SearchInv'
<1> DEFINE goal == search.goal
           planned == plan_searches(goal.profile, goal.mode)
<1>1. PICK semantic \in BOOLEAN :
        /\ search' = [search EXCEPT !.semantic = semantic, !.planned = planned,
                        !.candidates = IF planned # <<>> THEN <<>>
                                       ELSE rank_results(goal.profile, goal.limit, <<>>, semantic)]
        /\ IF planned = <<>> THEN pc' = "respond" ELSE pc' = pc
  <2>1. PICK failed \in {FALSE, search.semantic} :
          /\ search' = [search EXCEPT !.semantic = search.semantic /\ ~failed, !.planned = planned,
                          !.candidates = IF planned # <<>> THEN <<>>
                             ELSE rank_results(goal.profile, goal.limit, <<>>,
                                               search.semantic /\ ~failed)]
          /\ IF planned = <<>> THEN pc' = "respond" ELSE pc' = pc
    BY DEF SemanticSearch, Responds
  <2>2. (search.semantic /\ ~failed) \in BOOLEAN OBVIOUS
  <2> HIDE DEF goal, planned
  <2>3. QED BY <2>1, <2>2
<1>2. /\ pc = "search" /\ DOMAIN search = {"goal", "semantic", "planned", "candidates"}
      /\ goal.profile.fragments \in Seq(STRING) /\ goal.limit \in Nat
  BY DEF SemanticSearch, SearchInv
<1>3. /\ DOMAIN search' = {"goal", "semantic", "planned", "candidates"}
      /\ search'.goal = goal /\ search'.semantic = semantic /\ search'.planned = planned
      /\ search'.candidates = IF planned # <<>> THEN <<>>
                              ELSE rank_results(goal.profile, goal.limit, <<>>, semantic)
  <2> HIDE DEF planned
  <2>1. QED BY <1>1, <1>2
<1>4. CASE planned = <<>>
  <2>1. WellPlanned(<<>>) BY OneWellPlanned, HeadSearchesWellLabelled
  <2>2. VouchedFirst(search'.candidates, search'.planned, search'.semantic)
    <3>1. VouchedFirst(rank_results(goal.profile, goal.limit, <<>>, semantic), <<>>, semantic)
      BY <1>2, <2>1, RankingPutsVouchedFirst
    <3> HIDE DEF planned
    <3>2. QED BY <1>3, <1>4, <3>1
  <2>3. pc' = "respond" BY <1>1, <1>4
  <2>4. QED BY <2>2, <2>3 DEF SearchInv, CorroboratedFirst
<1>5. CASE planned # <<>>
  <2>1. pc' = "search" BY <1>1, <1>2, <1>5
  <2>2. search'.candidates = <<>> BY <1>3, <1>5
  <2>3. QED BY <1>2, <1>3, <2>1, <2>2 DEF SearchInv, CorroboratedFirst
<1>6. QED BY <1>4, <1>5

LEMMA DeclarationSearchesKeepSearchInv ==
  ASSUME SearchInv, DeclarationSearches
  PROVE  SearchInv'
<1> DEFINE goal == search.goal
           candidates == rank_results(goal.profile, goal.limit, search.planned, search.semantic)
<1>1. /\ pc = "search" /\ DOMAIN search = {"goal", "semantic", "planned", "candidates"}
      /\ goal.profile.fragments \in Seq(STRING) /\ goal.limit \in Nat
      /\ search.semantic \in BOOLEAN /\ search.candidates = <<>>
      /\ search.planned = plan_searches(goal.profile, goal.mode)
  BY DEF DeclarationSearches, SearchInv
<1>2. pc' = "respond" BY DEF DeclarationSearches, Responds
<1>3. UNCHANGED search \/ search' = [search EXCEPT !.candidates = candidates]
  BY DEF DeclarationSearches
<1>4. CASE UNCHANGED search
  BY <1>1, <1>2, <1>4, NothingIsInOrder DEF SearchInv, CorroboratedFirst
<1>5. CASE search' = [search EXCEPT !.candidates = candidates]
  <2>1. goal.mode # "simp" => VouchedFirst(candidates, search.planned, search.semantic)
    <3>1. HAVE goal.mode # "simp"
    <3>2. WellPlanned(search.planned) BY <1>1, <3>1, PlansAreWellLabelled
    <3>3. QED BY <1>1, <3>2, RankingPutsVouchedFirst
  <2> HIDE DEF candidates
  <2>2. /\ search'.goal = goal /\ search'.planned = search.planned
        /\ search'.semantic = search.semantic /\ search'.candidates = candidates
    BY <1>1, <1>5
  <2>3. QED BY <1>2, <2>1, <2>2 DEF SearchInv, CorroboratedFirst
<1>6. QED BY <1>3, <1>4, <1>5

(* Whatever the library of declarations, the goal, the searches' outcomes   *)
(* and the limits: a proof search answers what something type-aware        *)
(* vouched for before, and never less of it for the sake of, a lexical     *)
(* guess (simp excepted).                                                  *)
THEOREM LexicalGuessesLast == Spec => []CorroboratedFirst
<1>1. Init => SearchInv
  BY DEF Init, SearchInv, CorroboratedFirst
<1>2. SearchInv /\ [Next]_vars => SearchInv'
  <2>1. SUFFICES ASSUME SearchInv, [Next]_vars PROVE SearchInv' OBVIOUS
  <2>2. CASE UNCHANGED search /\ pc' = "done"
    BY <2>2 DEF SearchInv, CorroboratedFirst
  <2>3. CASE UNCHANGED search /\ pc \in {"dispatch", "run"} /\ pc' # "search"
    <3>1. search = NoSearch BY <2>1, <2>3 DEF SearchInv
    <3>2. search'.candidates = <<>> BY <2>3, <3>1 DEF NoSearch
    <3>3. CorroboratedFirst' BY <3>2, NothingIsInOrder DEF CorroboratedFirst
    <3>4. QED BY <2>3, <3>1, <3>3 DEF SearchInv
  <2>4. CASE UNCHANGED <<search, mode, pc>>
    BY <2>1, <2>4 DEF SearchInv, CorroboratedFirst
  <2>5. CASE Dispatch \/ WorkerUnavailable \/ PinUnsupported \/ Status \/ Respond
    BY <2>1, <2>2, <2>3, <2>5 DEF Dispatch, WorkerUnavailable, PinUnsupported, Status, Respond
  <2>6. CASE \/ ProofPosition \/ Diagnostics \/ InspectDeclaration \/ ProofStep \/ Verify
             \/ FileReferences \/ FileDeclarations \/ ScanAnswered
    <3>1. UNCHANGED search /\ pc = "run"
      BY <2>6 DEF ProofPosition, Diagnostics, InspectDeclaration, ProofStep, Verify,
        FileReferences, FileDeclarations, ScanAnswered
    <3>2. pc' = "respond"
      BY <2>6 DEF ProofPosition, Diagnostics, InspectDeclaration, ProofStep, Verify,
        FileReferences, FileDeclarations, ScanAnswered, Responds, NeedsBuild
    <3>3. QED BY <2>3, <3>1, <3>2
  <2>7. CASE ScanIndices \/ UNCHANGED vars
    BY <2>4, <2>7 DEF ScanIndices, vars, toolVars
  <2>8. QED
    BY <2>1, <2>5, <2>6, <2>7, TargetProfileKeepsSearchInv, SemanticSearchKeepsSearchInv,
       DeclarationSearchesKeepSearchInv
    DEF Next
<1>3. SearchInv => CorroboratedFirst BY DEF SearchInv
<1>4. QED BY <1>1, <1>2, <1>3, PTL DEF Spec

-----------------------------------------------------------------------------
(* The index scan. What a list of references says of a module, and what     *)
(* listing, joining, ordering and cutting references leave of it.          *)
References(s) == s \in Seq(Files \X Positions)
HitsIn(refs, f) == {refs[i][2] : i \in {j \in DOMAIN refs : refs[j][1] = f}}

LEMMA HitsAreFound ==
  ASSUME NEW refs, References(refs), NEW f, NEW h
  PROVE  h \in HitsIn(refs, f) <=> \E i \in 1..Len(refs) : refs[i] = <<f, h>>
<1>1. Len(refs) \in Nat /\ DOMAIN refs = 1..Len(refs) BY PlacesOfSequence DEF References
<1>2. \A i \in 1..Len(refs) : refs[i] = <<refs[i][1], refs[i][2]>> BY DEF References
<1>3. QED BY <1>1, <1>2 DEF HitsIn

LEMMA PlacesHits ==
  ASSUME NEW f \in Files, NEW hits \in SUBSET Positions
  PROVE  /\ References(Places(f, hits))
         /\ \A g : HitsIn(Places(f, hits), g) = IF g = f THEN hits ELSE {}
<1> DEFINE sorted == Ascending(hits)
           places == Places(f, hits)
<1>1. hits \in SUBSET Nat /\ IsFiniteSet(hits) BY FS_Subset, ReferenceConstants
<1>2. /\ sorted \in Seq(hits) /\ DOMAIN sorted = 1..Len(sorted)
      /\ \A n \in DOMAIN sorted : sorted[n] \in hits
      /\ \A x \in hits : \E n \in DOMAIN sorted : sorted[n] = x
  BY <1>1, AscendingLists
<1>3. places = [i \in DOMAIN sorted |-> <<f, sorted[i]>>] BY DEF Places
<1> HIDE DEF sorted, places
<1>4. Len(sorted) \in Nat BY <1>2
<1>5. places \in [1..Len(sorted) -> Files \X Positions] BY <1>2, <1>3
<1>6. References(places) /\ Len(places) = Len(sorted) BY <1>4, <1>5 DEF References
<1>7. ASSUME NEW g, NEW h
      PROVE  h \in HitsIn(places, g) <=> g = f /\ h \in hits
  <2>1. h \in HitsIn(places, g) <=> \E i \in 1..Len(sorted) : places[i] = <<g, h>>
    BY <1>6, HitsAreFound
  <2>2. \A i \in 1..Len(sorted) : places[i] = <<f, sorted[i]>> BY <1>2, <1>3
  <2>3. QED BY <1>2, <2>1, <2>2
<1>8. \A g : HitsIn(places, g) = IF g = f THEN hits ELSE {} BY <1>7
<1>9. QED BY <1>6, <1>8 DEF places

LEMMA JoinedHits ==
  ASSUME NEW s, NEW t, References(s), References(t)
  PROVE  /\ References(s \o t)
         /\ \A f : HitsIn(s \o t, f) = HitsIn(s, f) \cup HitsIn(t, f)
<1>1. /\ References(s \o t) /\ Len(s \o t) = Len(s) + Len(t) /\ Len(s) \in Nat /\ Len(t) \in Nat
      /\ \A i \in 1..Len(s) + Len(t) :
           (s \o t)[i] = IF i <= Len(s) THEN s[i] ELSE t[i - Len(s)]
  BY DEF References
<1>2. ASSUME NEW f, NEW h
      PROVE  h \in HitsIn(s \o t, f) <=> h \in HitsIn(s, f) \/ h \in HitsIn(t, f)
  <2>1. h \in HitsIn(s \o t, f) <=> \E i \in 1..Len(s) + Len(t) : (s \o t)[i] = <<f, h>>
    BY <1>1, HitsAreFound
  <2>2. h \in HitsIn(s, f) <=> \E i \in 1..Len(s) : s[i] = <<f, h>> BY HitsAreFound
  <2>3. h \in HitsIn(t, f) <=> \E i \in 1..Len(t) : t[i] = <<f, h>> BY HitsAreFound
  <2>4. ASSUME NEW i \in 1..Len(s), s[i] = <<f, h>>
        PROVE  h \in HitsIn(s \o t, f)
    <3>1. i \in 1..Len(s) + Len(t) /\ (s \o t)[i] = s[i] BY <1>1
    <3>2. QED BY <2>1, <2>4, <3>1
  <2>5. ASSUME NEW i \in 1..Len(t), t[i] = <<f, h>>
        PROVE  h \in HitsIn(s \o t, f)
    <3>1. /\ i + Len(s) \in 1..Len(s) + Len(t) /\ ~(i + Len(s) <= Len(s))
          /\ (i + Len(s)) - Len(s) = i
      BY <1>1
    <3>2. (s \o t)[i + Len(s)] = t[i] BY <1>1, <3>1
    <3>3. QED BY <2>1, <2>5, <3>1, <3>2
  <2>6. ASSUME NEW i \in 1..Len(s) + Len(t), (s \o t)[i] = <<f, h>>
        PROVE  h \in HitsIn(s, f) \/ h \in HitsIn(t, f)
    <3>1. CASE i <= Len(s)
      <4>1. i \in 1..Len(s) /\ s[i] = <<f, h>> BY <1>1, <2>6, <3>1
      <4>2. QED BY <2>2, <4>1
    <3>2. CASE ~(i <= Len(s))
      <4>1. i - Len(s) \in 1..Len(t) /\ t[i - Len(s)] = <<f, h>> BY <1>1, <2>6, <3>2
      <4>2. QED BY <2>3, <4>1
    <3>3. QED BY <3>1, <3>2
  <2>7. QED BY <2>1, <2>2, <2>3, <2>4, <2>5, <2>6
<1>3. QED BY <1>1, <1>2

LEMMA CutHits ==
  ASSUME NEW s, References(s), NEW limit \in Nat
  PROVE  /\ References(FirstOf(s, limit))
         /\ \A f : HitsIn(FirstOf(s, limit), f) \subseteq HitsIn(s, f)
         /\ ~(Len(s) > limit) => FirstOf(s, limit) = s
<1> DEFINE cut == FirstOf(s, limit)
<1>1. /\ cut \in Seq(Files \X Positions) /\ Len(cut) <= Len(s)
      /\ \A n \in 1..Len(cut) : cut[n] = s[n]
  BY FirstOfIsPrefix DEF References
<1>2. Len(s) \in Nat /\ Len(cut) \in Nat BY <1>1, PlacesOfSequence DEF References
<1>3. ASSUME NEW f, NEW h \in HitsIn(cut, f)
      PROVE  h \in HitsIn(s, f)
  <2> HIDE DEF cut
  <2>1. PICK i \in 1..Len(cut) : cut[i] = <<f, h>> BY <1>1, HitsAreFound DEF References
  <2>2. i \in 1..Len(s) /\ s[i] = <<f, h>> BY <1>1, <1>2, <2>1
  <2>3. QED BY <2>2, HitsAreFound
<1>4. ASSUME ~(Len(s) > limit)
      PROVE  cut = s
  <2>1. Min({Len(s), limit}) = Len(s)
    <3>1. \E x \in {Len(s), limit} : \A y \in {Len(s), limit} : x <= y BY <1>2, <1>4
    <3>2. /\ Min({Len(s), limit}) \in {Len(s), limit}
          /\ Min({Len(s), limit}) <= Len(s) /\ Min({Len(s), limit}) <= limit
      BY <3>1 DEF Min
    <3>3. QED BY <1>2, <1>4, <3>2
  <2>2. cut = SubSeq(s, 1, Len(s)) BY <2>1 DEF FirstOf
  <2>3. QED BY <2>2 DEF References
<1>5. QED BY <1>1, <1>3, <1>4 DEF References

LEMMA OrderedHits ==
  ASSUME NEW ask, NEW refs, References(refs)
  PROVE  /\ References(KeptInOrder(ask, refs))
         /\ \A f : HitsIn(KeptInOrder(ask, refs), f)
                     = IF Kept(ask, <<f, 0>>) THEN HitsIn(refs, f) ELSE {}
<1> DEFINE kept == {i \in DOMAIN refs : Kept(ask, refs[i])}
           order == {p \in kept \X kept :
                       SortsBefore(refs[p[1]], refs[p[2]])
                         \/ (refs[p[1]] = refs[p[2]] /\ p[1] < p[2])}
           places == Listed(kept, order)
           sorted == KeptInOrder(ask, refs)
<1>1. /\ Len(refs) \in Nat /\ DOMAIN refs = 1..Len(refs)
      /\ \A i \in 1..Len(refs) : /\ refs[i] \in Files \X Positions
                                 /\ refs[i] = <<refs[i][1], refs[i][2]>>
                                 /\ refs[i][1] \in Nat /\ refs[i][2] \in Nat
  <2>1. /\ Len(refs) \in Nat /\ DOMAIN refs = 1..Len(refs)
        /\ \A i \in 1..Len(refs) : refs[i] \in Files \X Positions
    BY PlacesOfSequence DEF References
  <2>2. ASSUME NEW r \in Files \X Positions
        PROVE  r = <<r[1], r[2]>> /\ r[1] \in Nat /\ r[2] \in Nat
    <3>1. PICK f \in Files, h \in Positions : r = <<f, h>> OBVIOUS
    <3>2. f \in Nat /\ h \in Nat BY ReferenceConstants
    <3>3. QED BY <3>1, <3>2
  <2>3. QED BY <2>1, <2>2
<1>2. kept \subseteq 1..Len(refs) /\ IsFiniteSet(kept)
  <2>1. IsFiniteSet(1..Len(refs)) BY <1>1, FS_Interval
  <2>2. kept \subseteq 1..Len(refs) BY <1>1
  <2> HIDE DEF kept
  <2>3. QED BY <2>1, <2>2, FS_Subset
<1>3. StrictlyOrders(order, kept)
  <2>1. \A i, j \in kept : <<i, j>> \in order <=>
          SortsBefore(refs[i], refs[j]) \/ (refs[i] = refs[j] /\ i < j)
    OBVIOUS
  <2>2. \A i \in kept : /\ i \in Nat /\ refs[i] = <<refs[i][1], refs[i][2]>>
                        /\ refs[i][1] \in Nat /\ refs[i][2] \in Nat
    BY <1>1, <1>2
  <2> HIDE DEF kept, order
  <2>3. ASSUME NEW i \in kept
        PROVE  <<i, i>> \notin order
    BY <2>1, <2>2 DEF SortsBefore
  <2>4. ASSUME NEW i \in kept, NEW j \in kept, NEW k \in kept,
               <<i, j>> \in order, <<j, k>> \in order
        PROVE  <<i, k>> \in order
    <3>1. /\ SortsBefore(refs[i], refs[j]) \/ (refs[i] = refs[j] /\ i < j)
          /\ SortsBefore(refs[j], refs[k]) \/ (refs[j] = refs[k] /\ j < k)
      BY <2>1, <2>4
    <3>2. SortsBefore(refs[i], refs[k]) \/ (refs[i] = refs[k] /\ i < k)
      BY <2>2, <3>1 DEF SortsBefore
    <3>3. QED BY <2>1, <3>2
  <2>5. ASSUME NEW i \in kept, NEW j \in kept
        PROVE  i = j \/ <<i, j>> \in order \/ <<j, i>> \in order
    <3>1. \/ SortsBefore(refs[i], refs[j]) \/ SortsBefore(refs[j], refs[i])
          \/ refs[i][1] = refs[j][1] /\ refs[i][2] = refs[j][2]
      BY <2>2 DEF SortsBefore
    <3>2. i = j \/ i < j \/ j < i BY <2>2
    <3>3. QED BY <2>1, <2>2, <3>1, <3>2
  <2>6. QED BY <2>3, <2>4, <2>5 DEF StrictlyOrders
<1>4. /\ Cardinality(kept) \in Nat /\ DOMAIN places = 1..Cardinality(kept)
      /\ \A n \in 1..Cardinality(kept) : places[n] \in kept
      /\ \A x \in kept : \E n \in 1..Cardinality(kept) : places[n] = x
  <2> HIDE DEF kept, order
  <2>1. QED BY <1>2, <1>3, ListedIsInOrder
<1>5. sorted = [n \in DOMAIN places |-> refs[places[n]]] BY DEF KeptInOrder
<1>6. \A i \in kept : i \in 1..Len(refs) /\ Kept(ask, refs[i]) BY <1>1
<1>7. \A i \in 1..Len(refs) : Kept(ask, refs[i]) => i \in kept BY <1>1
<1> HIDE DEF kept, order, places, sorted
<1>8. sorted \in [1..Cardinality(kept) -> Files \X Positions] BY <1>1, <1>4, <1>5, <1>6
<1>9. References(sorted) /\ Len(sorted) = Cardinality(kept) BY <1>4, <1>8 DEF References
<1>10. ASSUME NEW f, NEW h
       PROVE  h \in HitsIn(sorted, f) <=> Kept(ask, <<f, 0>>) /\ h \in HitsIn(refs, f)
  <2>1. \A i \in 1..Len(refs) : refs[i] = <<f, h>> => (Kept(ask, refs[i]) <=> Kept(ask, <<f, 0>>))
    BY DEF Kept
  <2>2. h \in HitsIn(sorted, f) <=> \E n \in 1..Cardinality(kept) : sorted[n] = <<f, h>>
    BY <1>9, HitsAreFound
  <2>3. h \in HitsIn(refs, f) <=> \E i \in 1..Len(refs) : refs[i] = <<f, h>> BY HitsAreFound
  <2>4. \A n \in 1..Cardinality(kept) : sorted[n] = refs[places[n]] /\ places[n] \in kept
    BY <1>4, <1>5
  <2>5. ASSUME NEW n \in 1..Cardinality(kept), sorted[n] = <<f, h>>
        PROVE  Kept(ask, <<f, 0>>) /\ h \in HitsIn(refs, f)
    <3>1. places[n] \in 1..Len(refs) /\ refs[places[n]] = <<f, h>> /\ Kept(ask, refs[places[n]])
      BY <1>6, <2>4, <2>5
    <3>2. QED BY <2>1, <2>3, <3>1
  <2>6. ASSUME NEW i \in 1..Len(refs), refs[i] = <<f, h>>, Kept(ask, <<f, 0>>)
        PROVE  h \in HitsIn(sorted, f)
    <3>1. i \in kept BY <1>7, <2>1, <2>6
    <3>2. PICK n \in 1..Cardinality(kept) : places[n] = i BY <1>4, <3>1
    <3>3. sorted[n] = <<f, h>> BY <2>4, <2>6, <3>2
    <3>4. QED BY <2>2, <3>3
  <2>7. QED BY <2>2, <2>3, <2>5, <2>6
<1>11. \A f : HitsIn(sorted, f) = IF Kept(ask, <<f, 0>>) THEN HitsIn(refs, f) ELSE {}
  <2>1. TAKE f
  <2>2. CASE Kept(ask, <<f, 0>>) BY <1>10, <2>2
  <2>3. CASE ~Kept(ask, <<f, 0>>) BY <1>10, <2>3
  <2>4. QED BY <2>2, <2>3
<1>12. QED BY <1>9, <1>11 DEF sorted

LEMMA HeadAndTail ==
  ASSUME NEW T, NEW s \in Seq(T), s # <<>>
  PROVE  /\ Head(s) \in T /\ Tail(s) \in Seq(T)
         /\ Range(s) = {Head(s)} \cup Range(Tail(s))
<1>1. /\ Len(s) \in Nat /\ Len(s) > 0 /\ Head(s) = s[1] /\ Head(s) \in T /\ Tail(s) \in Seq(T)
      /\ Len(Tail(s)) = Len(s) - 1 /\ \A i \in 1..Len(s) - 1 : Tail(s)[i] = s[i + 1]
  OBVIOUS
<1>2. Range(s) = {s[i] : i \in 1..Len(s)} /\ Range(Tail(s)) = {Tail(s)[i] : i \in 1..Len(s) - 1}
  BY <1>1, PlacesOfSequence DEF Range
<1>3. ASSUME NEW i \in 1..Len(s)
      PROVE  s[i] = Head(s) \/ s[i] \in Range(Tail(s))
  <2>1. CASE i = 1 BY <1>1, <2>1
  <2>2. CASE i # 1
    <3>1. i - 1 \in 1..Len(s) - 1 /\ (i - 1) + 1 = i BY <1>1, <2>2
    <3>2. Tail(s)[i - 1] = s[i] BY <1>1, <3>1
    <3>3. QED BY <1>2, <3>1, <3>2
  <2>3. QED BY <2>1, <2>2
<1>4. ASSUME NEW i \in 1..Len(s) - 1
      PROVE  Tail(s)[i] \in Range(s)
  <2>1. i + 1 \in 1..Len(s) /\ Tail(s)[i] = s[i + 1] BY <1>1
  <2>2. QED BY <1>2, <2>1
<1>5. Head(s) \in Range(s)
  <2>1. 1 \in 1..Len(s) BY <1>1
  <2>2. QED BY <1>1, <1>2, <2>1
<1>6. QED BY <1>1, <1>2, <1>3, <1>4, <1>5

LEMMA RangeOfAppend ==
  ASSUME NEW T, NEW s \in Seq(T), NEW x \in T
  PROVE  Append(s, x) \in Seq(T) /\ Range(Append(s, x)) = Range(s) \cup {x}
<1>1. /\ Len(s) \in Nat /\ Append(s, x) \in Seq(T) /\ Len(Append(s, x)) = Len(s) + 1
      /\ \A i \in 1..Len(s) : Append(s, x)[i] = s[i]
      /\ Append(s, x)[Len(s) + 1] = x
  OBVIOUS
<1> DEFINE t == Append(s, x)
<1>2. Range(s) = {s[i] : i \in 1..Len(s)} /\ Range(t) = {t[i] : i \in 1..Len(s) + 1}
  BY <1>1, PlacesOfSequence DEF Range
<1> HIDE DEF t
<1>3. \A i \in 1..Len(s) + 1 : i \in 1..Len(s) \/ i = Len(s) + 1 BY <1>1
<1>4. \A i \in 1..Len(s) : i \in 1..Len(s) + 1 BY <1>1
<1>5. Len(s) + 1 \in 1..Len(s) + 1 BY <1>1
<1>6. QED BY <1>1, <1>2, <1>3, <1>4, <1>5 DEF t

(* What mtimes show: an index as new as a source that has not been edited   *)
(* under Lake's compiler holds what the source holds.                      *)
Contents == [hits : SUBSET Positions, time : Nat]
Indices == [kind : {"absent", "current", "unreadable"}, hits : SUBSET Positions, time : Nat]
DiskInv ==
  /\ now \in Nat
  /\ source \in [Files -> Contents] /\ index \in [Files -> Indices] /\ lake \in [Files -> Contents]
  /\ \A f \in Files :
       /\ source[f].time <= now /\ index[f].time <= now
       /\ /\ index[f].kind = "current" /\ f \notin torn
          /\ source[f] # Nothing /\ source[f].time <= index[f].time
          => index[f].hits = source[f].hits

(* What the scan has read is what the indices hold, but for those written   *)
(* since; an inventory's outline is its source's, but for an edit the      *)
(* index's mtime will show.                                                *)
Scanning == scan.pc \in {"scan", "stat"}
ScanType ==
  /\ DOMAIN scan = DOMAIN Resting /\ scan.pc \in {"idle", "scan", "stat", "answered"}
  /\ References(scan.refs)
  /\ Scanning => /\ scan.ask \in RefRequests /\ scan.todo \in Seq(Files)
                 /\ scan.contributing \in Seq(Files) /\ scan.outline \in Contents
ScanReads ==
  Scanning =>
    /\ \A f : HitsIn(scan.refs, f) # {} => f \in Range(scan.contributing)
    /\ \A f \in Range(scan.contributing) \ overtaken :
         Readable(f) /\ HitsIn(scan.refs, f) = index[f].hits
    /\ scan.ask.tool = "references" =>
         \A f \in OnDisk \ overtaken : Kept(scan.ask, <<f, 0>>) /\ Readable(f) =>
           f \in Range(scan.todo) \/ HitsIn(scan.refs, f) = index[f].hits
    /\ scan.ask.tool = "declarations" =>
         LET f == scan.ask.files[1].file
         IN  /\ Range(scan.todo) \cup Range(scan.contributing) \subseteq {f}
             /\ scan.pc = "scan" /\ f \notin overtaken =>
                  source[f] \in {scan.outline, Nothing} \/ source[f].time > index[f].time
ScanCompared ==
  scan.pc = "stat" =>
    /\ scan.todo = <<>>
    /\ \A f \in Range(scan.contributing) \ (torn \cup overtaken \cup Estranged \cup scan.stale) :
         scan.asOf[f] # Nothing =>
           /\ HitsIn(scan.refs, f) = scan.asOf[f].hits
           /\ scan.ask.tool = "declarations" => scan.outline = scan.asOf[f]
RefInv ==
  /\ DiskInv /\ ScanType /\ ScanReads /\ ScanCompared
  /\ FreshClaimIsTrue /\ NarrowingLosesNothing

LEMMA RefInitHolds == RefInit => RefInv
<1>1. SUFFICES ASSUME RefInit PROVE RefInv OBVIOUS
<1>2. Min(Positions) \in Positions
  BY BoundsAreAttained, ReferenceConstants
<1>3. DiskInv
  <2>1. NoIndex \in Indices /\ NoIndex.kind = "absent" /\ NoIndex.time = 0
    BY DEF NoIndex, Indices
  <2>2. Nothing \in Contents BY DEF Nothing, Contents
  <2>3. [hits |-> {Min(Positions)}, time |-> 1] \in Contents BY <1>2 DEF Contents
  <2>4. now = 1 /\ \A f \in Files : source[f].time = 1 /\ index[f] = NoIndex BY <1>1 DEF RefInit
  <2>5. source \in [Files -> Contents] /\ index \in [Files -> Indices] /\ lake \in [Files -> Contents]
    BY <1>1, <2>1, <2>2, <2>3 DEF RefInit
  <2>6. QED BY <2>1, <2>4, <2>5 DEF DiskInv
<1>4. scan = Resting BY <1>1 DEF RefInit
<1>5. scan.pc = "idle" /\ DOMAIN scan = DOMAIN Resting /\ scan.refs = <<>> BY <1>4 DEF Resting
<1>6. QED
  BY <1>3, <1>5 DEF RefInv, ScanType, ScanReads, ScanCompared, Scanning, References,
     FreshClaimIsTrue, NarrowingLosesNothing

LEMMA AskedModule ==
  ASSUME NEW ask \in RefRequests, ask.tool = "declarations"
  PROVE  ask.files[1].file \in Files
<1> DEFINE Entry == [file : Files, as : {"plain", "alias"}]
           files == ask.files
<1>1. files \in Seq(Entry) /\ files # <<>> BY ReferenceConstants
<1> HIDE DEF Entry, files
<1>2. files[1] \in Entry BY <1>1
<1>3. QED BY <1>2 DEF Entry, files

(* The disk may move under the scan: what it does not mark as overtaken     *)
(* keeps its index, and its source can only vanish or outdate that index.  *)
LEMMA DiskMovesKeepScan ==
  ASSUME RefInv, DiskInv', UNCHANGED scan, overtaken \subseteq overtaken',
         \A f \in Files \ overtaken' :
           /\ index'[f] = index[f]
           /\ f \in torn => f \in torn'
           /\ \/ source'[f] \in {source[f], Nothing}
              \/ source'[f].time > index'[f].time
  PROVE  RefInv'
<1>1. ScanType' BY DEF RefInv, ScanType, Scanning
<1>2. /\ Range(scan.contributing) \subseteq Files \/ ~Scanning
      /\ Reported \subseteq Files /\ OnDisk' \subseteq Files
  <2>1. Scanning => scan.contributing \in Seq(Files) BY DEF RefInv, ScanType
  <2>2. References(scan.refs) BY DEF RefInv, ScanType
  <2>3. DOMAIN scan.refs = 1..Len(scan.refs) BY <2>2, PlacesOfSequence DEF References
  <2>4. \A i \in DOMAIN scan.refs : scan.refs[i][1] \in Files BY <2>2, <2>3 DEF References
  <2>5. Scanning => Range(scan.contributing) \subseteq Files
    BY <2>1, PlacesOfSequence DEF Range
  <2>6. QED BY <2>4, <2>5 DEF Reported, OnDisk
<1>3. ScanReads'
  <2>1. SUFFICES ASSUME Scanning' PROVE ScanReads' BY DEF ScanReads
  <2>2. Scanning BY <2>1 DEF Scanning
  <2>3. \A f : HitsIn(scan.refs, f) # {} => f \in Range(scan.contributing)
    BY <2>2 DEF RefInv, ScanReads
  <2>4. ASSUME NEW f \in Range(scan.contributing) \ overtaken'
        PROVE  Readable(f)' /\ HitsIn(scan.refs, f) = index'[f].hits
    <3>1. f \in Files /\ f \notin overtaken BY <1>2, <2>2, <2>4
    <3>2. Readable(f) /\ HitsIn(scan.refs, f) = index[f].hits
      BY <2>2, <2>4, <3>1 DEF RefInv, ScanReads
    <3>3. QED BY <2>4, <3>1, <3>2 DEF Readable
  <2>5. ASSUME scan.ask.tool = "references", NEW f \in OnDisk' \ overtaken',
               Kept(scan.ask, <<f, 0>>), Readable(f)'
        PROVE  f \in Range(scan.todo) \/ HitsIn(scan.refs, f) = index'[f].hits
    <3>1. f \in Files /\ f \notin overtaken /\ index'[f] = index[f] BY <1>2, <2>5
    <3>2. f \in OnDisk /\ Readable(f) BY <2>5, <3>1 DEF OnDisk, Readable
    <3>3. QED BY <2>2, <2>5, <3>1, <3>2 DEF RefInv, ScanReads
  <2>6. ASSUME scan.ask.tool = "declarations"
        PROVE  LET f == scan.ask.files[1].file
               IN  /\ Range(scan.todo) \cup Range(scan.contributing) \subseteq {f}
                   /\ scan.pc = "scan" /\ f \notin overtaken' =>
                        source'[f] \in {scan.outline, Nothing} \/ source'[f].time > index'[f].time
    <3> DEFINE f == scan.ask.files[1].file
    <3>1. Range(scan.todo) \cup Range(scan.contributing) \subseteq {f}
      BY <2>2, <2>6 DEF RefInv, ScanReads
    <3>2. ASSUME scan.pc = "scan", f \notin overtaken'
          PROVE  source'[f] \in {scan.outline, Nothing} \/ source'[f].time > index'[f].time
      <4>1. source[f] \in {scan.outline, Nothing} \/ source[f].time > index[f].time
        BY <2>2, <2>6, <3>2 DEF RefInv, ScanReads
      <4>2. f \in Files
        <5>1. scan.ask \in RefRequests BY <2>2 DEF RefInv, ScanType
        <5>2. QED BY <2>6, <5>1, AskedModule
      <4>3. QED BY <3>2, <4>1, <4>2
    <3>3. QED BY <3>1, <3>2
  <2>7. QED BY <2>3, <2>4, <2>5, <2>6 DEF ScanReads
<1>4. ScanCompared'
  <2>1. SUFFICES ASSUME scan.pc = "stat" PROVE ScanCompared' BY DEF ScanCompared
  <2>2. Scanning BY <2>1 DEF Scanning
  <2>3. \A f \in Range(scan.contributing) \ (torn' \cup overtaken') : f \notin torn \cup overtaken
    BY <1>2, <2>2
  <2>4. QED BY <2>1, <2>3 DEF RefInv, ScanCompared
<1>5. FreshClaimIsTrue'
  <2>1. Reported' = Reported /\ \A f : Hits(f)' = Hits(f) BY DEF Reported, Hits
  <2>2. \A f \in Reported \ (torn' \cup overtaken') : f \notin torn \cup overtaken BY <1>2
  <2>3. QED BY <2>1, <2>2 DEF RefInv, FreshClaimIsTrue
<1>6. NarrowingLosesNothing'
  <2>1. \A f : Hits(f)' = Hits(f) BY DEF Hits
  <2>2. \A f \in OnDisk' \ overtaken' : f \in OnDisk \ overtaken /\ index'[f] = index[f]
    BY <1>2 DEF OnDisk
  <2>3. QED BY <2>1, <2>2 DEF RefInv, NarrowingLosesNothing, Readable
<1>7. QED BY <1>1, <1>3, <1>4, <1>5, <1>6 DEF RefInv

LEMMA DiskKeepsRefInv ==
  ASSUME RefInv, RefDisk
  PROVE  RefInv'
<1>1. now \in Nat /\ source \in [Files -> Contents] /\ index \in [Files -> Indices]
      /\ lake \in [Files -> Contents]
  BY DEF RefInv, DiskInv
<1>2. ASSUME NEW f \in Files
      PROVE  /\ source[f].time \in Nat /\ index[f].time \in Nat
             /\ source[f].time <= now /\ index[f].time <= now
             /\ source[f].hits \subseteq Positions /\ index[f].hits \subseteq Positions
  BY <1>1 DEF RefInv, DiskInv, Contents, Indices
<1>3. ASSUME NEW f \in Files, EditSource(f)
      PROVE  RefInv'
  <2>1. PICK hits \in SUBSET Positions :
          source' = [source EXCEPT ![f] = [hits |-> hits, time |-> now + 1]]
    BY <1>3 DEF EditSource
  <2>2. now' = now + 1 /\ UNCHANGED <<index, lake, scan, torn, overtaken>> BY <1>3 DEF EditSource
  <2>3. /\ source' \in [Files -> Contents] /\ source'[f].time = now + 1
        /\ \A g \in Files \ {f} : source'[g] = source[g]
    <3>1. [hits |-> hits, time |-> now + 1] \in Contents BY <1>1 DEF Contents
    <3>2. QED BY <1>1, <2>1, <3>1
  <2>4. source'[f].time > index[f].time BY <1>1, <1>2, <2>3
  <2>5. DiskInv'
    <3>1. ASSUME NEW g \in Files
          PROVE  /\ source'[g].time <= now' /\ index'[g].time <= now'
                 /\ /\ index'[g].kind = "current" /\ g \notin torn'
                    /\ source'[g] # Nothing /\ source'[g].time <= index'[g].time
                    => index'[g].hits = source'[g].hits
      <4>1. CASE g = f BY <1>1, <1>2, <2>2, <2>3, <2>4, <4>1
      <4>2. CASE g # f
        <5>1. source'[g] = source[g] BY <2>3, <4>2
        <5>2. QED BY <1>1, <1>2, <2>2, <5>1 DEF RefInv, DiskInv
      <4>3. QED BY <4>1, <4>2
    <3>2. QED BY <1>1, <2>2, <2>3, <3>1 DEF DiskInv
  <2>6. QED BY <2>2, <2>3, <2>4, <2>5, DiskMovesKeepScan
<1>4. ASSUME NEW f \in Files, DeleteSource(f)
      PROVE  RefInv'
  <2>1. source' = [source EXCEPT ![f] = Nothing] /\ UNCHANGED <<now, index, lake, scan, torn, overtaken>>
    BY <1>4 DEF DeleteSource
  <2>2. /\ source' \in [Files -> Contents] /\ source'[f] = Nothing /\ Nothing.time = 0
        /\ \A g \in Files \ {f} : source'[g] = source[g]
    <3>1. Nothing \in Contents /\ Nothing.time = 0 BY DEF Contents, Nothing
    <3>2. QED BY <1>1, <2>1, <3>1
  <2>3. DiskInv'
    <3>1. ASSUME NEW g \in Files
          PROVE  /\ source'[g].time <= now' /\ index'[g].time <= now'
                 /\ /\ index'[g].kind = "current" /\ g \notin torn'
                    /\ source'[g] # Nothing /\ source'[g].time <= index'[g].time
                    => index'[g].hits = source'[g].hits
      <4>1. CASE g = f BY <1>1, <1>2, <2>1, <2>2, <4>1
      <4>2. CASE g # f
        <5>1. source'[g] = source[g] BY <2>2, <4>2
        <5>2. QED BY <2>1, <5>1 DEF RefInv, DiskInv
      <4>3. QED BY <4>1, <4>2
    <3>2. QED BY <1>1, <2>1, <2>2, <3>1 DEF DiskInv
  <2>4. QED BY <2>1, <2>2, <2>3, DiskMovesKeepScan
<1>5. ASSUME NEW f \in Files, LakeReads(f)
      PROVE  RefInv'
  <2>1. lake' = [lake EXCEPT ![f] = source[f]] /\ UNCHANGED <<now, source, index, scan, torn, overtaken>>
    BY <1>5 DEF LakeReads
  <2>2. lake' \in [Files -> Contents] BY <1>1, <2>1
  <2>3. DiskInv' BY <2>1, <2>2 DEF RefInv, DiskInv
  <2>4. QED BY <2>1, <2>3, DiskMovesKeepScan
<1>6. ASSUME NEW f \in Files, LakeWrites(f)
      PROVE  RefInv'
  <2>1. PICK kind \in {"current", "unreadable"} :
          index' = [index EXCEPT ![f] = [kind |-> kind, hits |-> lake[f].hits, time |-> now + 1]]
    BY <1>6 DEF LakeWrites
  <2>2. /\ now' = now + 1 /\ lake' = [lake EXCEPT ![f] = Nothing] /\ UNCHANGED <<source, scan>>
        /\ torn' = IF source[f] = lake[f] THEN torn \ {f} ELSE torn \cup {f}
        /\ overtaken' = overtaken \cup {f}
    BY <1>6 DEF LakeWrites
  <2>3. /\ index' \in [Files -> Indices] /\ index'[f].hits = lake[f].hits
        /\ index'[f].time = now + 1 /\ \A g \in Files \ {f} : index'[g] = index[g]
    <3>1. [kind |-> kind, hits |-> lake[f].hits, time |-> now + 1] \in Indices
      BY <1>1 DEF Contents, Indices
    <3>2. QED BY <1>1, <2>1, <3>1
  <2>4. DiskInv'
    <3>1. ASSUME NEW g \in Files
          PROVE  /\ source'[g].time <= now' /\ index'[g].time <= now'
                 /\ /\ index'[g].kind = "current" /\ g \notin torn'
                    /\ source'[g] # Nothing /\ source'[g].time <= index'[g].time
                    => index'[g].hits = source'[g].hits
      <4>1. CASE g = f BY <1>1, <1>2, <2>2, <2>3, <4>1
      <4>2. CASE g # f
        <5>1. index'[g] = index[g] /\ (g \notin torn' => g \notin torn) BY <2>2, <2>3, <4>2
        <5>2. QED BY <1>1, <1>2, <2>2, <5>1 DEF RefInv, DiskInv
      <4>3. QED BY <4>1, <4>2
    <3>2. lake' \in [Files -> Contents]
      <4>1. Nothing \in Contents BY DEF Contents, Nothing
      <4>2. QED BY <1>1, <2>2, <4>1
    <3>3. QED BY <1>1, <2>2, <2>3, <3>1, <3>2 DEF DiskInv
  <2>5. QED BY <2>2, <2>3, <2>4, DiskMovesKeepScan
<1>7. ASSUME LakeClean
      PROVE  RefInv'
  <2>1. /\ index' = [f \in Files |-> NoIndex] /\ overtaken' = overtaken \cup Files
        /\ UNCHANGED <<now, source, lake, scan, torn>>
    BY <1>7 DEF LakeClean
  <2>2. NoIndex \in Indices /\ NoIndex.kind = "absent" /\ NoIndex.time = 0 BY DEF NoIndex, Indices
  <2>3. DiskInv'
    <3>1. \A f \in Files : index'[f] = NoIndex BY <2>1
    <3>2. index' \in [Files -> Indices] BY <2>1, <2>2
    <3>3. QED BY <1>1, <1>2, <2>1, <2>2, <3>1, <3>2 DEF DiskInv
  <2>4. QED BY <2>1, <2>3, DiskMovesKeepScan
<1>8. QED BY <1>3, <1>4, <1>5, <1>6, <1>7 DEF RefDisk

LEMMA BeginReferencesKeepsRefInv ==
  ASSUME RefInv, BeginReferences
  PROVE  RefInv'
<1>1. PICK ask \in RefRequests :
        /\ ask.tool = "references"
        /\ scan' = IF ~built THEN NotBuilt(ask)
                   ELSE [Resting EXCEPT !.pc = "scan", !.ask = ask, !.todo = indices_for(ask.files)]
  BY DEF BeginReferences
<1>2. overtaken' = {} /\ UNCHANGED <<diskVars, torn>> BY DEF BeginReferences
<1>3. DiskInv' BY <1>2 DEF RefInv, DiskInv, diskVars
<1>4. CASE ~built
  <2>1. /\ scan'.pc = "answered" /\ scan'.trust = "missing_build" /\ scan'.refs = <<>>
        /\ DOMAIN scan' = DOMAIN Resting
    BY <1>1, <1>4 DEF NotBuilt, Resting
  <2>2. QED
    BY <1>3, <2>1 DEF RefInv, ScanType, ScanReads, ScanCompared, Scanning, References,
       FreshClaimIsTrue, NarrowingLosesNothing
<1>5. CASE built
  <2> DEFINE Entry == [file : Files, as : {"plain", "alias"}]
             files == ask.files
             todo == indices_for(files)
  <2>1. /\ scan'.pc = "scan" /\ scan'.ask = ask /\ scan'.todo = todo /\ scan'.refs = <<>>
        /\ scan'.contributing = <<>> /\ scan'.outline = Nothing /\ DOMAIN scan' = DOMAIN Resting
    BY <1>1, <1>5 DEF Resting
  <2>2. files \in Seq(Entry) BY ReferenceConstants
  <2>3. OnDisk \in SUBSET Nat /\ IsFiniteSet(OnDisk) /\ OnDisk \subseteq Files
    <3>1. OnDisk \subseteq Files BY DEF OnDisk
    <3>2. QED BY <3>1, ReferenceConstants, FS_Subset
  <2>4. /\ Ascending(OnDisk) \in Seq(Files)
        /\ \A f \in OnDisk : f \in Range(Ascending(OnDisk))
    <3>1. /\ Ascending(OnDisk) \in Seq(OnDisk)
          /\ \A f \in OnDisk : \E n \in DOMAIN Ascending(OnDisk) : Ascending(OnDisk)[n] = f
      BY <2>3, AscendingLists
    <3>2. Ascending(OnDisk) \in Seq(Files) BY <2>3, <3>1, WiderSequence
    <3>3. QED BY <3>1, <3>2 DEF Range
  <2>5. /\ [i \in DOMAIN files |-> files[i].file] \in Seq(Files)
        /\ \A e \in Range(files) : e.file \in Range([i \in DOMAIN files |-> files[i].file])
    <3>1. DOMAIN files = 1..Len(files) /\ Len(files) \in Nat BY <2>2, PlacesOfSequence
    <3>2. \A i \in DOMAIN files : files[i].file \in Files
      <4>1. \A i \in DOMAIN files : files[i] \in Entry
        <5> HIDE DEF files, Entry
        <5>1. QED BY <2>2, <3>1
      <4>2. QED BY <4>1
    <3> HIDE DEF files, Entry
    <3>3. [i \in DOMAIN files |-> files[i].file] \in [1..Len(files) -> Files] BY <3>1, <3>2
    <3>4. [i \in DOMAIN files |-> files[i].file] \in Seq(Files) BY <3>1, <3>3
    <3>5. QED BY <3>4 DEF Range
  <2>6. /\ todo \in Seq(Files)
        /\ \A f \in OnDisk : Kept(ask, <<f, 0>>) => f \in Range(todo)
    <3>1. CASE files # <<>> /\ \A i \in DOMAIN files : Invertible(files[i])
      <4>1. todo = [i \in DOMAIN files |-> files[i].file] BY <3>1 DEF indices_for
      <4>2. ASSUME NEW f \in OnDisk, Kept(ask, <<f, 0>>)
            PROVE  f \in Range(todo)
        <5>1. [file |-> f, as |-> "plain"] \in Range(files) BY <1>1, <3>1, <4>2 DEF Kept
        <5>2. [file |-> f, as |-> "plain"].file = f OBVIOUS
        <5>3. QED BY <2>5, <4>1, <5>1, <5>2
      <4>3. QED BY <2>5, <4>1, <4>2
    <3>2. CASE ~(files # <<>> /\ \A i \in DOMAIN files : Invertible(files[i]))
      BY <2>4, <3>2 DEF indices_for
    <3>3. QED BY <3>1, <3>2
  <2> HIDE DEF todo
  <2>7. OnDisk' = OnDisk BY <1>2 DEF OnDisk, diskVars
  <2>8. (\A f : HitsIn(<<>>, f) = {}) /\ Range(<<>>) = {} BY DEF HitsIn, Range
  <2>9. ScanReads' BY <1>1, <2>1, <2>6, <2>7, <2>8 DEF ScanReads
  <2>10. ScanType'
    <3>1. Nothing \in Contents BY DEF Nothing, Contents
    <3>2. QED BY <2>1, <2>6, <3>1 DEF ScanType, References
  <2>11. QED
    BY <1>3, <2>1, <2>9, <2>10 DEF RefInv, ScanCompared, FreshClaimIsTrue, NarrowingLosesNothing
<1>6. QED BY <1>4, <1>5

LEMMA BeginDeclarationsKeepsRefInv ==
  ASSUME RefInv, BeginDeclarations
  PROVE  RefInv'
<1>1. PICK ask \in RefRequests :
        /\ ask.tool = "declarations"
        /\ scan' = [Resting EXCEPT !.pc = "scan", !.ask = ask, !.todo = <<ask.files[1].file>>,
                                   !.outline = source[ask.files[1].file]]
  BY DEF BeginDeclarations
<1> DEFINE f == ask.files[1].file
<1>2. overtaken' = {} /\ UNCHANGED <<diskVars, torn>> BY DEF BeginDeclarations
<1>3. DiskInv' BY <1>2 DEF RefInv, DiskInv, diskVars
<1>4. f \in Files /\ source[f] \in Contents BY <1>1, AskedModule DEF RefInv, DiskInv
<1>5. /\ scan'.pc = "scan" /\ scan'.ask = ask /\ scan'.todo = <<f>> /\ scan'.refs = <<>>
      /\ scan'.contributing = <<>> /\ scan'.outline = source[f] /\ DOMAIN scan' = DOMAIN Resting
  BY <1>1 DEF Resting
<1>6. source' = source BY <1>2 DEF diskVars
<1> HIDE DEF f
<1>7. <<f>> \in Seq(Files) /\ Range(<<f>>) = {f} /\ Range(<<>>) = {} BY <1>4 DEF Range
<1>8. \A g : HitsIn(<<>>, g) = {} BY DEF HitsIn
<1>9. ScanType' BY <1>4, <1>5, <1>7 DEF ScanType, References
<1>10. ScanReads'
  <2>1. scan'.ask.tool = "declarations" BY <1>1, <1>5
  <2>2. f = scan'.ask.files[1].file BY <1>5 DEF f
  <2>3. Range(scan'.todo) \cup Range(scan'.contributing) \subseteq {f} BY <1>5, <1>7
  <2>4. source'[f] = scan'.outline BY <1>5, <1>6
  <2>5. QED BY <1>5, <1>7, <1>8, <2>1, <2>2, <2>3, <2>4 DEF ScanReads
<1>11. QED
  BY <1>3, <1>5, <1>9, <1>10 DEF RefInv, ScanCompared, FreshClaimIsTrue, NarrowingLosesNothing

LEMMA CollectStaleKeepsRefInv ==
  ASSUME RefInv, CollectStale
  PROVE  RefInv'
<1>1. /\ scan.pc = "scan" /\ scan.todo = <<>> /\ UNCHANGED <<diskVars, torn, overtaken>>
      /\ scan' = [scan EXCEPT !.pc = "stat", !.asOf = source,
                    !.stale = {f \in Range(scan.contributing) : source_newer_than_index(f)}]
  BY DEF CollectStale
<1>2. Scanning BY <1>1 DEF Scanning
<1>3. /\ scan'.pc = "stat" /\ scan'.asOf = source
      /\ scan'.stale = {f \in Range(scan.contributing) : source_newer_than_index(f)}
      /\ scan'.ask = scan.ask /\ scan'.todo = scan.todo /\ scan'.refs = scan.refs
      /\ scan'.contributing = scan.contributing /\ scan'.outline = scan.outline
      /\ DOMAIN scan' = DOMAIN Resting
  BY <1>1 DEF RefInv, ScanType, Resting
<1>4. DiskInv' BY <1>1 DEF RefInv, DiskInv, diskVars
<1>5. ScanType' BY <1>2, <1>3 DEF RefInv, ScanType, Scanning
<1>6. ScanReads'
  <2>1. OnDisk' = OnDisk /\ index' = index /\ source' = source
    BY <1>1 DEF OnDisk, diskVars
  <2>2. QED BY <1>1, <1>2, <1>3, <2>1 DEF RefInv, ScanReads, Readable
<1>7. ScanCompared'
  <2>1. ASSUME NEW f \in Range(scan.contributing) \ (torn \cup overtaken \cup Estranged \cup scan'.stale),
               source[f] # Nothing
        PROVE  /\ HitsIn(scan.refs, f) = source[f].hits
               /\ scan.ask.tool = "declarations" => scan.outline = source[f]
    <3>1. f \in Files
      <4>1. scan.contributing \in Seq(Files) BY <1>2 DEF RefInv, ScanType
      <4>2. Range(scan.contributing) \subseteq Files BY <4>1, PlacesOfSequence DEF Range
      <4>3. QED BY <2>1, <4>2
    <3>2. index[f].kind = "current" /\ HitsIn(scan.refs, f) = index[f].hits
      BY <1>2, <2>1 DEF RefInv, ScanReads, Readable
    <3>3. source[f].time \in Nat /\ index[f].time \in Nat
      BY <3>1 DEF RefInv, DiskInv, Contents, Indices
    <3>4. index[f] # NoIndex BY <3>2 DEF NoIndex
    <3>5. source[f].time <= index[f].time
      BY <1>3, <2>1, <3>3, <3>4 DEF source_newer_than_index
    <3>6. index[f].hits = source[f].hits BY <2>1, <3>1, <3>2, <3>5 DEF RefInv, DiskInv
    <3>7. ASSUME scan.ask.tool = "declarations"
          PROVE  scan.outline = source[f]
      <4>1. f = scan.ask.files[1].file BY <1>2, <2>1, <3>7 DEF RefInv, ScanReads
      <4>2. source[f] \in {scan.outline, Nothing} \/ source[f].time > index[f].time
        BY <1>1, <1>2, <2>1, <3>7, <4>1 DEF RefInv, ScanReads
      <4>3. QED BY <2>1, <3>3, <3>5, <4>2
    <3>8. QED BY <3>2, <3>6, <3>7
  <2>2. torn' = torn /\ overtaken' = overtaken BY <1>1
  <2>3. QED BY <1>1, <1>3, <2>1, <2>2 DEF ScanCompared
<1>8. QED BY <1>3, <1>4, <1>5, <1>6, <1>7 DEF RefInv, FreshClaimIsTrue, NarrowingLosesNothing

LEMMA VisitKeepsRefInv ==
  ASSUME RefInv, Visit
  PROVE  RefInv'
<1> DEFINE f == Head(scan.todo)
           rest == Tail(scan.todo)
           found == Places(f, index[f].hits)
           contributes == index[f].hits # {} \/ scan.ask.tool = "declarations"
           known == Range(scan.contributing)
<1>1. /\ scan.pc = "scan" /\ scan.todo # <<>> /\ UNCHANGED <<diskVars, torn>>
      /\ overtaken' = IF scan.ask.tool = "declarations" \/ f \in known
                        THEN overtaken ELSE overtaken \ {f}
      /\ scan' = IF ~Readable(f)
                   THEN [scan EXCEPT !.todo = Tail(@), !.skipped = @ + 1, !.unbuilt = ~built]
                   ELSE [scan EXCEPT !.todo = Tail(@), !.refs = @ \o found,
                           !.contributing = IF contributes THEN Append(@, f) ELSE @]
  BY DEF Visit
<1>2. /\ Scanning /\ scan.ask \in RefRequests /\ scan.todo \in Seq(Files)
      /\ scan.contributing \in Seq(Files) /\ References(scan.refs)
  BY <1>1 DEF RefInv, ScanType, Scanning
<1>3. f \in Files /\ rest \in Seq(Files) /\ Range(scan.todo) = {f} \cup Range(rest)
  BY <1>1, <1>2, HeadAndTail
<1>4. index[f].hits \subseteq Positions BY <1>3 DEF RefInv, DiskInv, Indices
<1>5. DiskInv' BY <1>1 DEF RefInv, DiskInv, diskVars
<1>6. /\ scan'.pc = "scan" /\ scan'.ask = scan.ask /\ scan'.todo = rest
      /\ scan'.outline = scan.outline /\ DOMAIN scan' = DOMAIN Resting
      /\ scan'.refs = IF Readable(f) THEN scan.refs \o found ELSE scan.refs
      /\ scan'.contributing = IF Readable(f) /\ contributes THEN Append(scan.contributing, f)
                              ELSE scan.contributing
  <2> HIDE DEF f, rest, found, contributes
  <2>1. DOMAIN scan = DOMAIN Resting BY DEF RefInv, ScanType
  <2>2. CASE Readable(f) BY <1>1, <2>1, <2>2 DEF Resting, rest
  <2>3. CASE ~Readable(f) BY <1>1, <2>1, <2>3 DEF Resting, rest
  <2>4. QED BY <2>2, <2>3
<1>7. /\ References(found) /\ \A g : HitsIn(found, g) = IF g = f THEN index[f].hits ELSE {}
  BY <1>3, <1>4, PlacesHits
<1>8. /\ References(scan'.refs)
      /\ \A g : HitsIn(scan'.refs, g) = IF Readable(f) /\ g = f
                                          THEN HitsIn(scan.refs, f) \cup index[f].hits
                                          ELSE HitsIn(scan.refs, g)
  <2>1. /\ References(scan.refs \o found)
        /\ \A g : HitsIn(scan.refs \o found, g) = HitsIn(scan.refs, g) \cup HitsIn(found, g)
    BY <1>2, <1>7, JoinedHits
  <2> HIDE DEF f, found
  <2>2. CASE Readable(f) BY <1>6, <1>7, <2>1, <2>2
  <2>3. CASE ~Readable(f) BY <1>2, <1>6, <2>3
  <2>4. QED BY <2>2, <2>3
<1>9. /\ scan'.contributing \in Seq(Files)
      /\ Range(scan'.contributing) = IF Readable(f) /\ contributes THEN known \cup {f} ELSE known
  <2> HIDE DEF contributes, f
  <2>1. /\ Append(scan.contributing, f) \in Seq(Files)
        /\ Range(Append(scan.contributing, f)) = known \cup {f}
    BY <1>2, <1>3, RangeOfAppend
  <2> HIDE DEF known
  <2>2. CASE Readable(f) /\ contributes BY <1>6, <2>1, <2>2
  <2>3. CASE ~(Readable(f) /\ contributes) BY <1>2, <1>6, <2>3 DEF known
  <2>4. QED BY <2>2, <2>3
<1>10. ScanType'
  BY <1>2, <1>3, <1>6, <1>8, <1>9 DEF RefInv, ScanType, Scanning
<1>11. index' = index /\ source' = source /\ OnDisk' = OnDisk /\ \A g : Readable(g)' <=> Readable(g)
  BY <1>1 DEF diskVars, OnDisk, Readable
<1>12. /\ \A g : HitsIn(scan.refs, g) # {} => g \in known
       /\ \A g \in known \ overtaken : Readable(g) /\ HitsIn(scan.refs, g) = index[g].hits
       /\ scan.ask.tool = "references" =>
            \A g \in OnDisk \ overtaken : Kept(scan.ask, <<g, 0>>) /\ Readable(g) =>
              g \in Range(scan.todo) \/ HitsIn(scan.refs, g) = index[g].hits
  BY <1>2 DEF RefInv, ScanReads
<1>13. scan.ask.tool = "declarations" =>
         LET g == scan.ask.files[1].file
         IN  /\ Range(scan.todo) \cup known \subseteq {g}
             /\ g \notin overtaken =>
                  source[g] \in {scan.outline, Nothing} \/ source[g].time > index[g].time
  BY <1>1, <1>2 DEF RefInv, ScanReads
<1>14. scan.ask.tool \in {"references", "declarations"} BY <1>2, ReferenceConstants
<1> HIDE DEF f, rest, found, known
\* A module read for the first time, or not overtaken since, has what its index has.
<1>15. ASSUME Readable(f), f \notin overtaken' \/ f \notin overtaken
       PROVE  HitsIn(scan'.refs, f) = index[f].hits
  <2>1. HitsIn(scan'.refs, f) = HitsIn(scan.refs, f) \cup index[f].hits BY <1>8, <1>15
  <2>2. CASE f \in known
    <3>1. f \notin overtaken BY <1>1, <1>15, <2>2
    <3>2. QED BY <1>12, <2>1, <2>2, <3>1
  <2>3. CASE f \notin known BY <1>12, <2>1, <2>3
  <2>4. QED BY <2>2, <2>3
<1>16. ScanReads'
  <2>1. ASSUME NEW g, HitsIn(scan'.refs, g) # {}
        PROVE  g \in Range(scan'.contributing)
    <3>1. CASE Readable(f) /\ g = f BY <1>8, <1>9, <1>12, <2>1, <3>1
    <3>2. CASE ~(Readable(f) /\ g = f) BY <1>8, <1>9, <1>12, <2>1, <3>2
    <3>3. QED BY <3>1, <3>2
  <2>2. ASSUME NEW g \in Range(scan'.contributing) \ overtaken'
        PROVE  Readable(g) /\ HitsIn(scan'.refs, g) = index[g].hits
    <3>1. CASE Readable(f) /\ g = f BY <1>15, <2>2, <3>1
    <3>2. CASE g = f /\ ~Readable(f)
      <4>1. f \in known BY <1>9, <2>2, <3>2
      <4>2. f \notin overtaken BY <1>1, <2>2, <3>2, <4>1
      <4>3. QED BY <1>12, <3>2, <4>1, <4>2
    <3>3. CASE g # f
      <4>1. g \in known /\ g \notin overtaken BY <1>1, <1>9, <2>2, <3>3
      <4>2. QED BY <1>8, <1>12, <3>3, <4>1
    <3>4. QED BY <3>1, <3>2, <3>3
  <2>3. ASSUME scan.ask.tool = "references", NEW g \in OnDisk \ overtaken',
               Kept(scan.ask, <<g, 0>>), Readable(g)
        PROVE  g \in Range(rest) \/ HitsIn(scan'.refs, g) = index[g].hits
    <3>1. CASE g = f BY <1>15, <2>3, <3>1
    <3>2. CASE g # f
      <4>1. g \notin overtaken BY <1>1, <2>3, <3>2
      <4>2. g \in Range(scan.todo) => g \in Range(rest) BY <1>3, <3>2 DEF f, rest
      <4>3. QED BY <1>8, <1>12, <2>3, <3>2, <4>1, <4>2
    <3>3. QED BY <3>1, <3>2
  <2>4. ASSUME scan.ask.tool = "declarations"
        PROVE  LET g == scan.ask.files[1].file
               IN  /\ Range(rest) \cup Range(scan'.contributing) \subseteq {g}
                   /\ g \notin overtaken' =>
                        source[g] \in {scan.outline, Nothing} \/ source[g].time > index[g].time
    <3>1. f \in Range(scan.todo) /\ Range(rest) \subseteq Range(scan.todo) BY <1>3 DEF f, rest
    <3>2. overtaken' = overtaken BY <1>1, <2>4
    <3>3. Range(scan'.contributing) \subseteq known \cup {f} BY <1>9
    <3>4. QED BY <1>13, <2>4, <3>1, <3>2, <3>3
  <2>5. QED BY <1>6, <1>11, <2>1, <2>2, <2>3, <2>4 DEF ScanReads
<1>17. QED
  BY <1>5, <1>6, <1>10, <1>16 DEF RefInv, ScanCompared, FreshClaimIsTrue, NarrowingLosesNothing

(* What the answer keeps of the references in hand.                         *)
LEMMA FinishCuts ==
  ASSUME RefInv, Scanning, NEW hits, References(hits), NEW trust, Finish(hits, trust)
  PROVE  /\ scan'.pc = "answered" /\ scan'.trust = trust /\ scan'.ask = scan.ask
         /\ scan'.asOf = scan.asOf /\ ScanType'
         /\ \A f : Hits(f)' \subseteq HitsIn(hits, f)
         /\ ~scan'.truncated => \A f : Hits(f)' = HitsIn(hits, f)
         /\ \A f \in Reported' : HitsIn(hits, f) # {}
<1> DEFINE limit == scan.ask.limit
           cut == FirstOf(hits, limit)
<1>1. limit \in Nat
  <2>1. scan.ask \in RefRequests BY DEF RefInv, ScanType
  <2>2. QED BY <2>1, ReferenceConstants
<1>2. /\ scan'.pc = "answered" /\ scan'.trust = trust /\ scan'.ask = scan.ask
      /\ scan'.asOf = scan.asOf /\ scan'.refs = cut /\ scan'.truncated = (Len(hits) > limit)
      /\ DOMAIN scan' = DOMAIN Resting
  <2>1. DOMAIN scan = DOMAIN Resting BY DEF RefInv, ScanType
  <2>2. cut = SubSeq(hits, 1, Min({Len(hits), limit})) BY DEF FirstOf
  <2> HIDE DEF cut, limit
  <2>3. scan' = [scan EXCEPT !.pc = "answered", !.trust = trust, !.refs = cut,
                             !.truncated = Len(hits) > limit]
    BY <2>2 DEF Finish, limit
  <2>4. QED BY <2>1, <2>3 DEF Resting
<1>3. /\ References(cut) /\ \A f : HitsIn(cut, f) \subseteq HitsIn(hits, f)
      /\ ~(Len(hits) > limit) => cut = hits
  BY <1>1, CutHits
<1> HIDE DEF cut
<1>4. \A f : Hits(f)' = HitsIn(cut, f) BY <1>2 DEF Hits, HitsIn
<1>5. ScanType' BY <1>2, <1>3 DEF ScanType, Scanning
<1>6. ASSUME NEW f \in Reported'
      PROVE  HitsIn(cut, f) # {}
  <2>1. PICK i \in DOMAIN cut : cut[i][1] = f BY <1>2, <1>6 DEF Reported
  <2>2. cut[i][2] \in HitsIn(cut, f) BY <2>1 DEF HitsIn
  <2>3. QED BY <2>2
<1>7. \A f \in Reported' : HitsIn(hits, f) # {} BY <1>3, <1>6
<1>8. QED BY <1>2, <1>3, <1>4, <1>5, <1>7

LEMMA FinishReferencesKeepsRefInv ==
  ASSUME RefInv, FinishReferences
  PROVE  RefInv'
<1> DEFINE sorted == KeptInOrder(scan.ask, scan.refs)
           trust == IF scan.stale = {} THEN "build_fresh" ELSE "stale_build"
<1>1. /\ scan.pc = "stat" /\ scan.ask.tool = "references" /\ Finish(sorted, trust)
      /\ UNCHANGED <<diskVars, torn, overtaken>>
  BY DEF FinishReferences
<1>2. Scanning /\ References(scan.refs) BY <1>1 DEF Scanning, RefInv, ScanType
<1>3. /\ References(sorted)
      /\ \A f : HitsIn(sorted, f) = IF Kept(scan.ask, <<f, 0>>) THEN HitsIn(scan.refs, f) ELSE {}
  BY <1>2, OrderedHits
<1> HIDE DEF sorted, trust
<1>4. /\ scan'.pc = "answered" /\ scan'.trust = trust /\ scan'.ask = scan.ask
      /\ scan'.asOf = scan.asOf /\ ScanType'
      /\ \A f : Hits(f)' \subseteq HitsIn(sorted, f)
      /\ ~scan'.truncated => \A f : Hits(f)' = HitsIn(sorted, f)
      /\ \A f \in Reported' : HitsIn(sorted, f) # {}
  BY <1>1, <1>2, <1>3, FinishCuts
<1>5. DiskInv' BY <1>1 DEF RefInv, DiskInv, diskVars
<1>6. FreshClaimIsTrue'
  <2>1. SUFFICES ASSUME trust = "build_fresh",
                        NEW f \in Reported' \ (torn \cup overtaken \cup Estranged),
                        scan.asOf[f] # Nothing
                 PROVE  /\ Hits(f)' \subseteq scan.asOf[f].hits
                        /\ scan'.truncated \/ Hits(f)' = scan.asOf[f].hits
    BY <1>1, <1>4 DEF FreshClaimIsTrue
  <2>2. scan.stale = {} BY <2>1 DEF trust
  <2>3. HitsIn(sorted, f) = HitsIn(scan.refs, f) /\ HitsIn(scan.refs, f) # {}
    BY <1>3, <1>4
  <2>4. f \in Range(scan.contributing) BY <1>2, <2>3 DEF RefInv, ScanReads
  <2>5. HitsIn(scan.refs, f) = scan.asOf[f].hits
    BY <1>1, <2>1, <2>2, <2>4 DEF RefInv, ScanCompared
  <2>6. QED BY <1>4, <2>3, <2>5
<1>7. NarrowingLosesNothing'
  <2>1. index' = index /\ OnDisk' = OnDisk BY <1>1 DEF diskVars, OnDisk
  <2>2. SUFFICES ASSUME ~scan'.truncated, NEW f \in OnDisk \ overtaken,
                        Kept(scan.ask, <<f, 0>>), Readable(f)
                 PROVE  Hits(f)' = index[f].hits
    BY <1>1, <1>4, <2>1 DEF NarrowingLosesNothing, Readable
  <2>3. Hits(f)' = HitsIn(scan.refs, f) BY <1>3, <1>4, <2>2
  <2>4. f \in Range(scan.todo) \/ HitsIn(scan.refs, f) = index[f].hits
    BY <1>1, <1>2, <2>2 DEF RefInv, ScanReads
  <2>5. scan.todo = <<>> BY <1>1 DEF RefInv, ScanCompared
  <2>6. Range(<<>>) = {} BY DEF Range
  <2>7. QED BY <2>3, <2>4, <2>5, <2>6
<1>8. QED BY <1>4, <1>5, <1>6, <1>7 DEF RefInv, ScanReads, ScanCompared, Scanning

LEMMA FinishDeclarationsKeepsRefInv ==
  ASSUME RefInv, FinishDeclarations
  PROVE  RefInv'
<1> DEFINE f == scan.ask.files[1].file
           indexed == scan.contributing # <<>>
           outlined == scan.outline # Nothing
           outline == Places(f, scan.outline.hits)
           missing == Places(f, Hits(f) \ scan.outline.hits)
<1>1. /\ scan.pc = "stat" /\ scan.ask.tool = "declarations"
      /\ UNCHANGED <<diskVars, torn, overtaken>>
      /\ \/ indexed /\ scan.stale = {} /\ Finish(outline \o missing, "build_fresh")
         \/ Finish(scan.refs, "stale_build")
         \/ Finish(outline, "edit_fresh")
         \/ Finish(<<>>, "missing_build")
  BY DEF FinishDeclarations
<1>2. /\ Scanning /\ References(scan.refs) /\ scan.ask \in RefRequests
      /\ scan.contributing \in Seq(Files) /\ scan.outline \in Contents
  BY <1>1 DEF Scanning, RefInv, ScanType
<1>3. f \in Files BY <1>1, <1>2, AskedModule
<1>4. Hits(f) = HitsIn(scan.refs, f) BY DEF Hits, HitsIn
<1>5. HitsIn(scan.refs, f) \subseteq Positions /\ scan.outline.hits \subseteq Positions
  <2>1. ASSUME NEW h \in HitsIn(scan.refs, f)
        PROVE  h \in Positions
    <3> HIDE DEF f
    <3>1. PICK i \in 1..Len(scan.refs) : scan.refs[i] = <<f, h>> BY <1>2, <2>1, HitsAreFound
    <3>2. scan.refs[i] \in Files \X Positions BY <1>2 DEF References
    <3>3. QED BY <3>1, <3>2
  <2>2. QED BY <1>2, <2>1 DEF Contents
<1>6. /\ References(outline)
      /\ \A g : HitsIn(outline, g) = IF g = f THEN scan.outline.hits ELSE {}
  BY <1>3, <1>5, PlacesHits
<1>7. /\ References(missing)
      /\ \A g : HitsIn(missing, g) = IF g = f THEN HitsIn(scan.refs, f) \ scan.outline.hits ELSE {}
  <2> DEFINE others == Hits(f) \ scan.outline.hits
  <2>1. others \in SUBSET Positions /\ others = HitsIn(scan.refs, f) \ scan.outline.hits
    BY <1>4, <1>5
  <2> HIDE DEF f, others
  <2>2. /\ References(Places(f, others))
        /\ \A g : HitsIn(Places(f, others), g) = IF g = f THEN others ELSE {}
    BY <1>3, <2>1, PlacesHits
  <2>3. QED BY <2>1, <2>2 DEF others
<1>8. DiskInv' BY <1>1 DEF RefInv, DiskInv, diskVars
<1> HIDE DEF outline, missing
<1>9. References(outline \o missing) /\ References(<<>>)
  <2>1. References(outline \o missing) BY <1>6, <1>7, JoinedHits
  <2>2. QED BY <2>1 DEF References
<1>10. /\ scan'.pc = "answered" /\ scan'.ask = scan.ask /\ ScanType'
  BY <1>1, <1>2, <1>6, <1>9, FinishCuts
<1>11. FreshClaimIsTrue'
  <2>1. CASE indexed /\ scan.stale = {} /\ Finish(outline \o missing, "build_fresh")
    <3>1. \A g : HitsIn(outline \o missing, g) =
            IF g = f THEN scan.outline.hits \cup HitsIn(scan.refs, f) ELSE {}
      <4>1. \A g : HitsIn(outline \o missing, g) = HitsIn(outline, g) \cup HitsIn(missing, g)
        BY <1>6, <1>7, JoinedHits
      <4>2. QED BY <1>6, <1>7, <4>1
    <3>2. /\ scan'.asOf = scan.asOf
          /\ \A g : Hits(g)' \subseteq HitsIn(outline \o missing, g)
          /\ ~scan'.truncated => \A g : Hits(g)' = HitsIn(outline \o missing, g)
          /\ \A g \in Reported' : HitsIn(outline \o missing, g) # {}
      BY <1>2, <1>9, <2>1, FinishCuts
    <3>3. SUFFICES ASSUME NEW g \in Reported' \ (torn \cup overtaken \cup Estranged),
                          scan.asOf[g] # Nothing
                   PROVE  /\ Hits(g)' \subseteq scan.asOf[g].hits
                          /\ scan'.truncated \/ Hits(g)' = scan.asOf[g].hits
      BY <1>1, <3>2 DEF FreshClaimIsTrue
    <3>4. g = f BY <3>1, <3>2
    <3>5. f \in Range(scan.contributing)
      <4>1. Range(scan.contributing) \subseteq {f} BY <1>1, <1>2 DEF RefInv, ScanReads
      <4>2. Range(scan.contributing) # {} BY <1>2, <2>1, HeadAndTail
      <4>3. QED BY <4>1, <4>2
    <3>6. HitsIn(scan.refs, f) = scan.asOf[f].hits /\ scan.outline = scan.asOf[f]
      BY <1>1, <2>1, <3>3, <3>4, <3>5 DEF RefInv, ScanCompared
    <3>7. HitsIn(outline \o missing, g) = scan.asOf[g].hits BY <3>1, <3>4, <3>6
    <3>8. QED BY <3>2, <3>7
  <2>2. CASE \/ Finish(scan.refs, "stale_build") \/ Finish(outline, "edit_fresh")
             \/ Finish(<<>>, "missing_build")
    <3>1. scan'.trust # "build_fresh" BY <1>2, <1>6, <1>9, <2>2, FinishCuts
    <3>2. QED BY <3>1 DEF FreshClaimIsTrue
  <2>3. QED BY <1>1, <2>1, <2>2
<1>12. NarrowingLosesNothing' BY <1>1, <1>10 DEF NarrowingLosesNothing
<1>13. QED BY <1>8, <1>10, <1>11, <1>12 DEF RefInv, ScanReads, ScanCompared, Scanning

LEMMA ScanKeepsRefInv == RefInv /\ [RefNext]_refVars => RefInv'
<1>1. SUFFICES ASSUME RefInv, [RefNext]_refVars PROVE RefInv' OBVIOUS
<1>2. CASE UNCHANGED refVars
  <2>1. UNCHANGED <<now, source, index, lake, built, scan, torn, overtaken>>
    BY <1>2 DEF refVars, diskVars
  <2>2. DiskInv' BY <1>1, <2>1 DEF RefInv, DiskInv
  <2>3. overtaken \subseteq overtaken' /\ UNCHANGED scan BY <2>1
  <2>4. QED BY <1>1, <2>1, <2>2, <2>3, DiskMovesKeepScan
<1>3. QED
  BY <1>1, <1>2, DiskKeepsRefInv, BeginReferencesKeepsRefInv, BeginDeclarationsKeepsRefInv,
     VisitKeepsRefInv, CollectStaleKeepsRefInv, FinishReferencesKeepsRefInv,
     FinishDeclarationsKeepsRefInv
  DEF RefNext, RefSteps

LEMMA RefInvAlways == Spec => []RefInv
<1>1. Init => RefInv BY RefInitHolds DEF Init
<1>2. RefInv /\ [Next]_vars => RefInv'
  <2>1. SUFFICES ASSUME RefInv, [Next]_vars PROVE RefInv' OBVIOUS
  <2>2. [RefNext]_refVars
    BY <2>1 DEF Next, vars, Dispatch, WorkerUnavailable, PinUnsupported, Status, ProofPosition,
      Diagnostics, InspectDeclaration, ProofStep, Verify, FileReferences, FileDeclarations,
      ScanIndices, ScanAnswered, TargetProfile, SemanticSearch, DeclarationSearches, Respond, RefNext
  <2>3. QED BY <2>1, <2>2, ScanKeepsRefInv
<1>3. QED BY <1>1, <1>2, PTL DEF Spec

(* However the disk moves between and under the reads of a scan: an answer  *)
(* that claims to be build-fresh gives, of every module it reports, the    *)
(* positions of the source the mtimes were compared with.                  *)
THEOREM BuildFreshIsTrue == Spec => []FreshClaimIsTrue
<1>1. RefInv => FreshClaimIsTrue BY DEF RefInv
<1>2. QED BY <1>1, RefInvAlways, PTL

(* Naming files, in whatever number, order or spelling, decides what is     *)
(* read and never loses a position of a readable index that was asked for. *)
THEOREM NarrowingIsSafe == Spec => []NarrowingLosesNothing
<1>1. RefInv => NarrowingLosesNothing BY DEF RefInv
<1>2. QED BY <1>1, RefInvAlways, PTL
=============================================================================
