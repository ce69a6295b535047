------------------------- MODULE LeanVerify_proofs -------------------------
(***************************************************************************)
(* What holds of every answer of lean_verify and lean_trial(proof_step),   *)
(* for any files, names, requests, limit and edits: rows tell what their   *)
(* source deserves (RowsAreHonest), a clean summary covers what was asked  *)
(* (CoverageIsHonest), and the rows are the request's (RowsFollowRequest). *)
(*                                                                         *)
(* A row is made several steps after its target, from a group that may be  *)
(* truncated in between. The invariant therefore follows the targets:      *)
(* what identifies them (ExpansionShape), how many there are (Counted),    *)
(* which inventory found them (Covered) and which rows they have so far    *)
(* (RowsOfTargets).                                                        *)
(***************************************************************************)
EXTENDS LeanVerify, FiniteSetTheorems, TLAPS

TargetRecords == [order : Nat, name : Names, id : Nat \X Names \X Nat]
Groups == [key : {"file", "module_index"} \X Files, targets : SUBSET TargetRecords]

(* Two targets never share a place in the request, nor an id.               *)
Apart(groups) ==
  \A g, h \in DOMAIN groups : \A t \in groups[g].targets, u \in groups[h].targets :
    t.order = u.order \/ t.id = u.id => g = h /\ t = u
Keyed(groups) == \A g, h \in DOMAIN groups : groups[g].key = groups[h].key => g = h
(* An id is plain, or was made from the target's own place.                 *)
Registered(e, t) ==
  t.order < e.order /\ t.id \in e.seen /\ t.id[3] \in {0, t.order + 1}
ExpansionShape(e) ==
  /\ DOMAIN e = DOMAIN NoExpansion
  /\ e.order \in Nat /\ e.requested = e.order /\ e.next \in Nat \ {0} /\ e.truncated \in BOOLEAN
  /\ e.groups \in Seq(Groups) /\ Keyed(e.groups) /\ Apart(e.groups)
  /\ IsFiniteSet(AllTargets(e.groups))
  /\ \A t \in AllTargets(e.groups) : Registered(e, t)
Counted(e) == Cardinality(AllTargets(e.groups)) = e.requested

Held == Contents \cup {Absent}
Stages == {"idle", "expand", "group", "call", "project", "finish", "answered", "failed"}
Verifying == {"group", "call", "project", "finish", "answered"}
StateShape ==
  /\ disk \in [Files -> Held] /\ index \in [Files -> Held]
  /\ pc \in Stages /\ group \in Nat \ {0}
  /\ pc # "idle" => req \in Requests
  /\ recycled \in BOOLEAN
  /\ pc \in {"idle", "expand"} => rows = <<>> /\ group = 1
  /\ pc = "idle" => exp = NoExpansion /\ inventories = {} /\ work = NoWork
  /\ pc \in {"call", "project"} => group \in DOMAIN exp.groups /\ work.source \in Contents
  /\ pc \in {"finish", "answered"} /\ Batched => group > Len(exp.groups)
  /\ pc = "answered" /\ recycled => "taint" \in warned
  /\ pc = "answered" /\ build_causes # {} => "needs_build" \in warned

Totals ==
  /\ ExpansionShape(exp)
  /\ pc \in {"idle", "expand"} \/ ~exp.truncated => Counted(exp)
  /\ pc \in Verifying /\ Batched => Cardinality(AllTargets(exp.groups)) <= MAX_VERIFY_TARGETS

(* What an inventory found and did not say it cut is among the targets.     *)
Covered ==
  \A inv \in inventories :
    /\ inv.status \notin Usable => "inventory" \in warned
    /\ inv.status = "needs_build" => "needs_build" \in warned
    /\ inv.status = "ok" /\ inv.healthy /\ ~exp.truncated => \A n \in inv.found :
         \E t \in AllTargets(exp.groups) : t.id[1] = inv.group /\ t.name = n

(* The reply in hand is the last call's, and only a recycle loses verdicts. *)
Kinds == {"ok", "missing_imports", "header_parse_failed", "unsupported", "needs_build"}
ReplyTrue(reply) ==
  /\ DOMAIN reply = DOMAIN NoReply /\ DOMAIN reply.verdicts = Targets /\ reply.taint \in BOOLEAN
  /\ reply.kind \in Kinds
  /\ reply.kind = "ok" => \A t \in Targets :
       \/ reply.verdicts[t] = work.source[t.name]
       \/ reply.taint /\ reply.verdicts[t] = Lost
  /\ reply.kind = "missing_imports" => \A t \in Targets : reply.verdicts[t] \in Uninformed
  /\ reply.kind \notin {"ok", "missing_imports"} => \A t \in Targets : reply.verdicts[t] = reply.kind
ReplyInHand ==
  /\ DOMAIN work = DOMAIN NoWork
  /\ pc = "project" => work.heard = work.reply /\ ReplyTrue(work.reply)

HonestRow(r) ==
  /\ r.status \in {"verified", "closed"} =>
       \/ r.source[r.name] = r.status
       \/ r.reply = "missing_imports" /\ build_causes # {}
  /\ r.status = "worker_recycled" => r.taint /\ recycled
  /\ (r.taint /\ r.reply = "ok" /\ r.status # r.source[r.name]) =>
       recycled /\ (req.tool # "try_proof_step" => r.status = "worker_recycled")

(* The rows so far are those of the targets of the groups done so far.      *)
RowOf(r, t) == r.order = t.order /\ r.id = t.id /\ r.name = t.name
Done(t) == \E g \in DOMAIN exp.groups : g < group /\ t \in exp.groups[g].targets
RowsOfTargets ==
  /\ \A i \in 1..Len(rows) : \E t : Done(t) /\ RowOf(rows[i], t)
  /\ \A t : Done(t) => \E i \in 1..Len(rows) : RowOf(rows[i], t)
  /\ \A i, j \in 1..Len(rows) : rows[i].order = rows[j].order => i = j
Rows == [id : Nat \X Names \X Nat, order : Nat, name : Names, source : Contents,
         status : Verdicts \cup Kinds \cup {"worker_recycled"}, reply : Kinds, taint : BOOLEAN]
RowsInv ==
  /\ rows \in Seq({r \in Rows : HonestRow(r)})
  /\ pc \in Verifying /\ Batched => RowsOfTargets
  /\ pc = "answered" => \A i, j \in 1..Len(rows) : i < j => rows[i].order <= rows[j].order

IInv == StateShape /\ Totals /\ Covered /\ ReplyInHand /\ RowsInv
-----------------------------------------------------------------------------
(* Sequences and sets.                                                      *)
LEMMA PlacesOfSequence ==
  ASSUME NEW T, NEW s \in Seq(T)
  PROVE  Len(s) \in Nat /\ DOMAIN s = 1..Len(s) /\ \A i \in 1..Len(s) : s[i] \in T
OBVIOUS

LEMMA FunctionIsSequence ==
  ASSUME NEW T, NEW n \in Nat, NEW f, f = [i \in 1..n |-> f[i]], \A i \in 1..n : f[i] \in T
  PROVE  f \in Seq(T) /\ Len(f) = n /\ DOMAIN f = 1..n
<1>1. f \in [1..n -> T] OBVIOUS
<1>2. QED BY <1>1

LEMMA JoinedSequence ==
  ASSUME NEW T, NEW s \in Seq(T), NEW t \in Seq(T)
  PROVE  /\ s \o t \in Seq(T) /\ Len(s \o t) = Len(s) + Len(t)
         /\ \A i \in 1..Len(s) : i \in 1..Len(s \o t) /\ (s \o t)[i] = s[i]
         /\ \A i \in 1..Len(t) : Len(s) + i \in 1..Len(s \o t) /\ (s \o t)[Len(s) + i] = t[i]
         /\ \A i \in 1..Len(s \o t) :
              i \in 1..Len(s) \/ (i - Len(s) \in 1..Len(t) /\ (s \o t)[i] = t[i - Len(s)])
OBVIOUS

LEMMA RangeJoins ==
  ASSUME NEW T, NEW s \in Seq(T), NEW t \in Seq(T)
  PROVE  Range(s) \subseteq Range(s \o t)
<1>1. s \o t \in Seq(T) BY JoinedSequence
<1>2. DOMAIN s = 1..Len(s) /\ DOMAIN (s \o t) = 1..Len(s \o t) BY <1>1, PlacesOfSequence
<1>3. \A i \in 1..Len(s) : i \in 1..Len(s \o t) /\ (s \o t)[i] = s[i] BY JoinedSequence
<1>4. QED BY <1>2, <1>3 DEF Range

LEMMA PrefixIsShort ==
  ASSUME NEW T, NEW s \in Seq(T), NEW n \in Nat
  PROVE  /\ Prefix(s, n) \in Seq(T) /\ Len(Prefix(s, n)) <= n
         /\ Len(s) <= n => Prefix(s, n) = s
<1>1. CASE Len(s) <= n
  <2>1. Prefix(s, n) = SubSeq(s, 1, Len(s)) BY <1>1 DEF Prefix
  <2>2. QED BY <1>1, <2>1
<1>2. CASE ~(Len(s) <= n)
  <2>1. Prefix(s, n) = SubSeq(s, 1, n) BY <1>2 DEF Prefix
  <2>2. SubSeq(s, 1, n) \in Seq(T) /\ Len(SubSeq(s, 1, n)) = n BY <1>2
  <2>3. QED BY <1>2, <2>1, <2>2
<1>3. QED BY <1>1, <1>2

LEMMA SetListed ==
  ASSUME NEW S, IsFiniteSet(S)
  PROVE  SetToSeq(S) \in Seq(S) /\ Range(SetToSeq(S)) = S
<1> DEFINE n == Cardinality(S)
           f == SetToSeq(S)
<1>1. n \in Nat /\ ExistsBijection(1..n, S) BY FS_CardinalityType
<1>2. \E g \in [1..n -> S] : IsInjective(g)
  BY <1>1 DEF ExistsBijection, Bijection, Injection
<1>3. f \in [1..n -> S] /\ IsInjective(f) BY <1>2 DEF SetToSeq
<1> HIDE DEF f
<1>4. IsFiniteSet(1..n) /\ Cardinality(1..n) = n BY <1>1, FS_Interval
<1>5. f \in Surjection(1..n, S)
  <2>1. f \in Injection(1..n, S) BY <1>3 DEF Injection
  <2>2. QED BY <1>4, <2>1, FS_Injection
<1>6. f \in Seq(S) BY <1>1, <1>3
<1>7. Range(f) = S BY <1>3, <1>5 DEF Range, Surjection
<1>8. QED BY <1>6, <1>7 DEF f

-----------------------------------------------------------------------------
(* Targets.                                                                 *)
LEMMA NewTargetsAreNew ==
  ASSUME NEW e, ExpansionShape(e), NEW names \in Seq(Names)
  PROVE  LET new == NewTargets(e, names) IN
    /\ IsFiniteSet(new) /\ Cardinality(new) \in Nat /\ new \subseteq TargetRecords
    /\ \A t \in new : /\ e.order <= t.order /\ t.order < e.order + Cardinality(new)
                      /\ t.id[1] = e.next /\ t.id[3] \in {0, t.order + 1}
                      /\ t.id[3] = 0 => t.id \notin e.seen
    /\ \A t, u \in new : t.order = u.order \/ t.id = u.id => t = u
    /\ \A i \in DOMAIN names : names[i] # Blank => \E t \in new : t.name = names[i]
<1> DEFINE asked == Asked(names)
           before(i) == {j \in asked : j < i}
           place(i) == e.order + Cardinality(before(i))
           repeated(i) == \/ <<e.next, names[i], 0>> \in e.seen
                          \/ \E j \in asked : j < i /\ names[j] = names[i]
           made(i) == [order |-> place(i), name |-> names[i],
                       id |-> <<e.next, names[i], IF repeated(i) THEN place(i) + 1 ELSE 0>>]
           new == NewTargets(e, names)
<1>1. Len(names) \in Nat /\ DOMAIN names = 1..Len(names) /\ \A i \in 1..Len(names) : names[i] \in Names
  BY PlacesOfSequence
<1>2. asked \subseteq 1..Len(names) BY <1>1 DEF Asked
<1>16. \A i \in DOMAIN names : names[i] # Blank => i \in asked BY DEF Asked
<1>5. new = {made(i) : i \in asked} BY DEF NewTargets
<1>17. \A i \in asked : before(i) \in SUBSET asked /\ \A j : j \in before(i) <=> j \in asked /\ j < i
  OBVIOUS
<1> HIDE DEF asked, new, before
<1>3. IsFiniteSet(asked) /\ Cardinality(asked) \in Nat
  <2>1. IsFiniteSet(1..Len(names)) BY <1>1, FS_Interval
  <2>2. QED BY <1>2, <2>1, FS_Subset, FS_CardinalityType
<1>4. e.order \in Nat /\ e.next \in Nat BY DEF ExpansionShape
<1>6. ASSUME NEW i \in asked
      PROVE  /\ IsFiniteSet(before(i)) /\ Cardinality(before(i)) \in Nat
             /\ Cardinality(before(i)) < Cardinality(asked)
  <2>1. before(i) \in SUBSET asked /\ i \notin before(i)
    <3>1. i \in Nat BY <1>1, <1>2
    <3>2. QED BY <1>17, <3>1
  <2>2. IsFiniteSet(before(i)) /\ Cardinality(before(i)) <= Cardinality(asked)
        /\ Cardinality(before(i)) # Cardinality(asked)
    BY <1>3, <2>1, FS_Subset
  <2>3. Cardinality(before(i)) \in Nat BY <2>2, FS_CardinalityType
  <2>4. QED BY <1>3, <2>2, <2>3
<1>7. ASSUME NEW i \in asked, NEW j \in asked, i < j
      PROVE  place(i) < place(j)
  <2>1. before(i) \cup {i} \subseteq before(j) /\ i \notin before(i)
    <3>1. i \in Nat /\ j \in Nat /\ \A k \in asked : k \in Nat BY <1>1, <1>2
    <3>2. i \notin before(i) BY <1>17, <3>1
    <3>3. ASSUME NEW k \in before(i) PROVE k \in before(j)
      <4>1. k \in asked /\ k < i BY <1>17
      <4>2. k \in Nat BY <3>1, <4>1
      <4>3. k < j BY <1>7, <3>1, <4>1, <4>2
      <4>4. QED BY <1>17, <4>1, <4>3
    <3>4. i \in before(j) BY <1>7, <1>17
    <3>5. QED BY <3>2, <3>3, <3>4
  <2>2. Cardinality(before(i) \cup {i}) = Cardinality(before(i)) + 1 BY <1>6, <2>1, FS_AddElement
  <2>3. Cardinality(before(i) \cup {i}) <= Cardinality(before(j)) BY <1>6, <2>1, FS_Subset
  <2>4. QED BY <1>4, <1>6, <2>2, <2>3
<1>8. \A i \in asked : place(i) \in Nat /\ e.order <= place(i) /\ place(i) < e.order + Cardinality(asked)
  BY <1>3, <1>4, <1>6
<1>9. \A i, j \in asked : place(i) = place(j) => i = j
  <2>1. TAKE i, j \in asked
  <2>2. i \in Nat /\ j \in Nat BY <1>1, <1>2
  <2>3. i < j \/ j < i \/ i = j BY <2>2
  <2>4. QED BY <1>7, <1>8, <2>3
<1> HIDE DEF place
<1>10. IsFiniteSet(new) /\ Cardinality(new) = Cardinality(asked)
  <2> DEFINE f == [i \in asked |-> made(i)]
  <2>1. f \in Bijection(asked, new)
    <3>1. \A i \in asked : f[i] = made(i) /\ made(i).order = place(i) OBVIOUS
    <3>2. f \in [asked -> new] BY <1>5
    <3>3. \A t \in new : \E i \in asked : f[i] = t BY <1>5, <3>1
    <3> HIDE DEF f, made, new
    <3>4. \A i, j \in asked : f[i] = f[j] => i = j BY <1>9, <3>1
    <3>5. QED BY <3>2, <3>3, <3>4 DEF Bijection, Injection, Surjection, IsInjective
  <2>2. ExistsBijection(asked, new) BY <2>1 DEF ExistsBijection
  <2>3. QED BY <1>3, <2>2, FS_Bijection
<1>11. ASSUME NEW i \in asked
       PROVE  /\ made(i) \in TargetRecords
              /\ made(i).order = place(i) /\ made(i).name = names[i]
              /\ made(i).id[1] = e.next /\ made(i).id[2] = names[i]
              /\ made(i).id[3] = IF repeated(i) THEN place(i) + 1 ELSE 0
              /\ made(i).id[3] = 0 => ~repeated(i) /\ made(i).id = <<e.next, names[i], 0>>
  <2>1. names[i] \in Names /\ place(i) \in Nat BY <1>1, <1>2, <1>8
  <2>2. QED BY <1>4, <2>1 DEF TargetRecords
<1>18. \A i \in asked : made(i).order = place(i) OBVIOUS
<1>12. \A t \in new : /\ t \in TargetRecords
                      /\ e.order <= t.order /\ t.order < e.order + Cardinality(new)
                      /\ t.id[1] = e.next /\ t.id[3] \in {0, t.order + 1}
                      /\ t.id[3] = 0 => t.id \notin e.seen
  <2> HIDE DEF made
  <2>1. SUFFICES ASSUME NEW i \in asked
                 PROVE  LET t == made(i) IN
                        /\ t \in TargetRecords
                        /\ e.order <= t.order /\ t.order < e.order + Cardinality(new)
                        /\ t.id[1] = e.next /\ t.id[3] \in {0, t.order + 1}
                        /\ t.id[3] = 0 => t.id \notin e.seen
    BY <1>5
  <2>2. QED BY <1>8, <1>10, <1>11
<1>13. \A t, u \in new : t.order = u.order \/ t.id = u.id => t = u
  <2>1. ASSUME NEW i \in asked, NEW j \in asked, made(i).id = made(j).id, i < j
        PROVE  FALSE
    <3> HIDE DEF made
    <3>1. names[i] = names[j] /\ made(i).id[3] = made(j).id[3] BY <1>11, <2>1
    <3>2. repeated(j) BY <2>1, <3>1
    <3>3. made(j).id[3] = place(j) + 1 BY <1>11, <3>2
    <3>4. made(i).id[3] = place(i) + 1 \/ made(i).id[3] = 0 BY <1>11
    <3>5. QED BY <1>7, <1>8, <2>1, <3>1, <3>3, <3>4
  <2>2. \A i, j \in asked : made(i).order = made(j).order \/ made(i).id = made(j).id => i = j
    <3> HIDE DEF made
    <3>1. TAKE i, j \in asked
    <3>2. made(i).order = made(j).order => i = j BY <1>9, <1>18
    <3>3. i \in Nat /\ j \in Nat BY <1>1, <1>2
    <3>4. i < j \/ j < i \/ i = j BY <3>3
    <3>5. QED BY <2>1, <3>2, <3>4
  <2> HIDE DEF made
  <2>3. QED BY <1>5, <2>2
<1>14. ASSUME NEW i \in DOMAIN names, names[i] # Blank
       PROVE  \E t \in new : t.name = names[i]
  <2>1. i \in asked BY <1>14, <1>16
  <2>2. made(i) \in new /\ made(i).name = names[i] BY <1>5, <1>11, <2>1
  <2>3. QED BY <2>2
<1> HIDE DEF new
<1>15. QED BY <1>3, <1>10, <1>12, <1>13, <1>14 DEF new

LEMMA GroupIsThere ==
  ASSUME NEW groups \in Seq(Groups), Keyed(groups), Apart(groups),
         NEW key \in {"file", "module_index"} \X Files
  PROVE  LET held == WithGroup(groups, key) IN
    /\ held \in Seq(Groups) /\ Keyed(held) /\ Apart(held)
    /\ AllTargets(held) = AllTargets(groups)
    /\ \E g \in DOMAIN held : held[g].key = key
<1>1. CASE \E g \in DOMAIN groups : groups[g].key = key BY <1>1 DEF WithGroup
<1>2. CASE ~\E g \in DOMAIN groups : groups[g].key = key
  <2> DEFINE fresh == [key |-> key, targets |-> {}]
             held == Append(groups, fresh)
             n == Len(groups)
  <2>1. WithGroup(groups, key) = held BY <1>2 DEF WithGroup
  <2>2. fresh \in Groups /\ fresh.key = key /\ fresh.targets = {} BY DEF Groups
  <2>3. n \in Nat /\ DOMAIN groups = 1..n BY PlacesOfSequence
  <2> HIDE DEF fresh
  <2>4. /\ held \in Seq(Groups) /\ DOMAIN held = 1..n + 1 /\ held[n + 1] = fresh
        /\ \A i \in 1..n : held[i] = groups[i]
    BY <2>2
  <2> HIDE DEF held, n
  <2>5. \A i \in 1..n + 1 : i \in 1..n \/ i = n + 1 BY <2>3
  <2>6. \A i \in 1..n : i \in 1..n + 1 BY <2>3
  <2>7. n + 1 \in 1..n + 1 BY <2>3
  <2>8. Keyed(held)
    <3>1. \A i \in 1..n : held[i].key # key BY <1>2, <2>3, <2>4
    <3>2. \A g, h \in 1..n : held[g].key = held[h].key => g = h BY <2>3, <2>4 DEF Keyed
    <3>3. \A g, h \in 1..n + 1 : held[g].key = held[h].key => g = h
      BY <2>2, <2>4, <2>5, <3>1, <3>2
    <3>4. QED BY <2>4, <3>3 DEF Keyed
  <2>9. Apart(held)
    <3>1. SUFFICES ASSUME NEW g \in 1..n + 1, NEW h \in 1..n + 1,
                          NEW t \in held[g].targets, NEW u \in held[h].targets,
                          t.order = u.order \/ t.id = u.id
                   PROVE  g = h /\ t = u
      BY <2>4 DEF Apart
    <3>2. g \in 1..n /\ h \in 1..n BY <2>2, <2>4, <2>5
    <3>3. t \in groups[g].targets /\ u \in groups[h].targets BY <2>4, <3>2
    <3>4. QED BY <2>3, <3>1, <3>2, <3>3 DEF Apart
  <2>10. AllTargets(held) = AllTargets(groups)
    <3>1. ASSUME NEW t \in AllTargets(held) PROVE t \in AllTargets(groups)
      <4>1. PICK g \in 1..n + 1 : t \in held[g].targets BY <2>4 DEF AllTargets
      <4>2. g \in 1..n BY <2>2, <2>4, <2>5, <4>1
      <4>3. t \in groups[g].targets BY <2>4, <4>1, <4>2
      <4>4. QED BY <2>3, <4>2, <4>3 DEF AllTargets
    <3>2. ASSUME NEW t \in AllTargets(groups) PROVE t \in AllTargets(held)
      <4>1. PICK g \in 1..n : t \in groups[g].targets BY <2>3 DEF AllTargets
      <4>2. t \in held[g].targets /\ g \in 1..n + 1 BY <2>4, <2>6, <4>1
      <4>3. QED BY <2>4, <4>2 DEF AllTargets
    <3>3. QED BY <3>1, <3>2
  <2>11. \E g \in DOMAIN held : held[g].key = key BY <2>2, <2>4, <2>7
  <2>12. QED BY <2>1, <2>4, <2>8, <2>9, <2>10, <2>11
<1>3. QED BY <1>1, <1>2

LEMMA GroupExtends ==
  ASSUME NEW r \in Groups, NEW S \in SUBSET TargetRecords,
         NEW x, x = [r EXCEPT !.targets = @ \cup S]
  PROVE  x \in Groups /\ x.key = r.key /\ x.targets = r.targets \cup S
<1>1. \A K, T : \A q \in [key : K, targets : SUBSET T] : \A X \in SUBSET T :
        LET y == [q EXCEPT !.targets = @ \cup X] IN
        y \in [key : K, targets : SUBSET T] /\ y.key = q.key /\ y.targets = q.targets \cup X
  OBVIOUS
<1>2. QED BY <1>1 DEF Groups

(* Pushing names adds their targets to one group, and counts them.          *)
LEMMA PushKeeps ==
  ASSUME NEW e, ExpansionShape(e), NEW names \in Seq(Names),
         NEW key \in {"file", "module_index"} \X Files
  PROVE  LET d == push_declarations(e, key, names) IN
    /\ ExpansionShape(d) /\ d.truncated = e.truncated /\ d.next = e.next
    /\ AllTargets(d.groups) = AllTargets(e.groups) \cup NewTargets(e, names)
    /\ Counted(e) => Counted(d)
<1> DEFINE new == NewTargets(e, names)
           held == WithGroup(e.groups, key)
           extended == [g \in DOMAIN held |-> IF held[g].key = key
                          THEN [held[g] EXCEPT !.targets = @ \cup new] ELSE held[g]]
           d == push_declarations(e, key, names)
<1>1. /\ IsFiniteSet(new) /\ Cardinality(new) \in Nat /\ new \subseteq TargetRecords
      /\ \A t \in new : /\ e.order <= t.order /\ t.order < e.order + Cardinality(new)
                        /\ t.id[3] \in {0, t.order + 1}
                        /\ t.id[3] = 0 => t.id \notin e.seen
      /\ \A t, u \in new : t.order = u.order \/ t.id = u.id => t = u
  BY NewTargetsAreNew
<1>2. /\ held \in Seq(Groups) /\ Keyed(held) /\ Apart(held)
      /\ AllTargets(held) = AllTargets(e.groups)
      /\ \E g \in DOMAIN held : held[g].key = key
  BY GroupIsThere DEF ExpansionShape
<1>3. /\ d.requested = e.requested + Cardinality(new) /\ d.order = e.order + Cardinality(new)
      /\ d.seen = e.seen \cup {t.id : t \in new} /\ d.groups = extended
      /\ d.truncated = e.truncated /\ d.next = e.next /\ DOMAIN d = DOMAIN e
  BY DEF push_declarations, ExpansionShape, NoExpansion
<1>4. /\ e.order \in Nat /\ e.requested = e.order /\ IsFiniteSet(AllTargets(e.groups))
      /\ \A t \in AllTargets(e.groups) : Registered(e, t)
  BY DEF ExpansionShape
<1> HIDE DEF new, held, d
<1>5. Len(held) \in Nat /\ DOMAIN held = 1..Len(held) /\ \A g \in 1..Len(held) : held[g] \in Groups
  BY <1>2, PlacesOfSequence
<1>6. \A g \in 1..Len(held) :
        /\ extended[g] \in Groups /\ extended[g].key = held[g].key
        /\ extended[g].targets = IF held[g].key = key THEN held[g].targets \cup new ELSE held[g].targets
  <2>1. TAKE g \in 1..Len(held)
  <2>2. held[g] \in Groups BY <1>5
  <2>3. extended[g] = IF held[g].key = key THEN [held[g] EXCEPT !.targets = @ \cup new] ELSE held[g]
    BY <1>5
  <2> HIDE DEF extended
  <2>4. CASE held[g].key = key
    <3>1. extended[g] = [held[g] EXCEPT !.targets = @ \cup new] BY <2>3, <2>4
    <3>2. new \in SUBSET TargetRecords BY <1>1
    <3>3. /\ extended[g] \in Groups /\ extended[g].key = held[g].key
          /\ extended[g].targets = held[g].targets \cup new
      BY <2>2, <3>1, <3>2, GroupExtends
    <3>4. QED BY <2>4, <3>3
  <2>5. CASE held[g].key # key BY <2>2, <2>3, <2>5
  <2>6. QED BY <2>4, <2>5
<1>7. DOMAIN extended = 1..Len(held) BY <1>5
<1> HIDE DEF extended
<1>8. extended \in Seq(Groups)
  <2>1. extended = [g \in 1..Len(held) |-> extended[g]] BY <1>5 DEF extended
  <2>2. QED BY <1>5, <1>6, <2>1, FunctionIsSequence
<1>9. Keyed(extended) BY <1>2, <1>5, <1>6, <1>7 DEF Keyed
<1>10. \A t \in AllTargets(e.groups) : /\ t.order < e.order /\ t.id \in e.seen
                                       /\ t.id[3] \in {0, t.order + 1} /\ t.order \in Nat
  <2>1. TAKE t \in AllTargets(e.groups)
  <2>2. PICK g \in 1..Len(held) : t \in held[g].targets BY <1>2, <1>5 DEF AllTargets
  <2>3. t \in TargetRecords BY <1>5, <2>2 DEF Groups
  <2>4. QED BY <1>4, <2>3 DEF Registered, TargetRecords
<1>11. \A t \in new : t.order \in Nat BY <1>1 DEF TargetRecords
<1>12. ASSUME NEW t \in AllTargets(e.groups), NEW u \in new
       PROVE  t.order # u.order /\ t.id # u.id
  <2>1. t.order # u.order BY <1>1, <1>4, <1>10, <1>11
  <2>2. CASE u.id[3] = 0
    <3>1. t.id \in e.seen BY <1>10
    <3>2. u.id \notin e.seen BY <1>1, <2>2
    <3>3. QED BY <2>1, <3>1, <3>2
  <2>3. CASE u.id[3] # 0
    <3>1. u.id[3] = u.order + 1 BY <1>1, <2>3
    <3>2. t.id[3] # u.id[3] BY <1>1, <1>4, <1>10, <1>11, <3>1
    <3>3. QED BY <2>1, <3>2
  <2>4. QED BY <2>1, <2>2, <2>3
<1>13. \A g \in 1..Len(held) : \A t \in extended[g].targets :
         \/ t \in held[g].targets /\ t \in AllTargets(e.groups)
         \/ t \in new /\ held[g].key = key
  <2>1. \A g \in 1..Len(held) : held[g].targets \subseteq AllTargets(e.groups)
    BY <1>2, <1>5 DEF AllTargets
  <2>2. QED BY <1>6, <2>1
<1>14. Apart(extended)
  <2>1. SUFFICES ASSUME NEW g \in 1..Len(held), NEW h \in 1..Len(held),
                        NEW t \in extended[g].targets, NEW u \in extended[h].targets,
                        t.order = u.order \/ t.id = u.id
                 PROVE  g = h /\ t = u
    BY <1>7 DEF Apart
  <2>2. CASE t \in held[g].targets /\ u \in held[h].targets BY <1>2, <1>5, <2>1, <2>2 DEF Apart
  <2>3. CASE t \in new /\ u \in new /\ held[g].key = key /\ held[h].key = key
    BY <1>1, <1>2, <1>5, <2>1, <2>3 DEF Keyed
  <2>4. QED BY <1>12, <1>13, <2>1, <2>2, <2>3
<1>15. AllTargets(extended) = AllTargets(e.groups) \cup new
  <2>1. AllTargets(extended) \subseteq AllTargets(e.groups) \cup new
    BY <1>7, <1>13 DEF AllTargets
  <2>2. ASSUME NEW t \in AllTargets(e.groups) PROVE t \in AllTargets(extended)
    <3>1. PICK g \in 1..Len(held) : t \in held[g].targets BY <1>2, <1>5 DEF AllTargets
    <3>2. t \in extended[g].targets BY <1>6, <3>1
    <3>3. QED BY <1>7, <3>2 DEF AllTargets
  <2>3. ASSUME NEW t \in new PROVE t \in AllTargets(extended)
    <3>1. PICK g \in 1..Len(held) : held[g].key = key BY <1>2, <1>5
    <3>2. t \in extended[g].targets BY <1>6, <3>1
    <3>3. QED BY <1>7, <3>2 DEF AllTargets
  <2>4. QED BY <2>1, <2>2, <2>3
<1>16. IsFiniteSet(AllTargets(extended))
  <2>1. \A S, T : IsFiniteSet(S) /\ IsFiniteSet(T) => IsFiniteSet(S \cup T) BY FS_Union
  <2>2. QED BY <1>1, <1>4, <1>15, <2>1
<1>17. \A t \in AllTargets(extended) : Registered(d, t)
  <2>1. ASSUME NEW t \in AllTargets(e.groups) PROVE Registered(d, t)
    BY <1>1, <1>3, <1>4, <1>10 DEF Registered
  <2>2. ASSUME NEW t \in new PROVE Registered(d, t)
    BY <1>1, <1>3 DEF Registered
  <2>3. QED BY <1>15, <2>1, <2>2
<1>18. ExpansionShape(d)
  BY <1>1, <1>3, <1>4, <1>8, <1>9, <1>14, <1>16, <1>17 DEF ExpansionShape
<1>19. Counted(e) => Counted(d)
  <2>1. AllTargets(e.groups) \cap new = {} BY <1>12
  <2>2. Cardinality(AllTargets(extended)) = Cardinality(AllTargets(e.groups)) + Cardinality(new)
    <3>1. Cardinality(AllTargets(e.groups)) \in Nat BY <1>4, FS_CardinalityType
    <3>2. \A S, T : IsFiniteSet(S) /\ IsFiniteSet(T) /\ S \cap T = {} =>
            Cardinality(S \cup T) = Cardinality(S) + Cardinality(T) - Cardinality({})
      BY FS_Union
    <3>3. Cardinality({}) = 0 BY FS_EmptySet
    <3>4. Cardinality(AllTargets(e.groups) \cup new)
            = Cardinality(AllTargets(e.groups)) + Cardinality(new) - Cardinality({})
      BY <1>1, <1>4, <2>1, <3>2
    <3>5. QED BY <1>1, <1>15, <3>1, <3>3, <3>4
  <2>3. QED BY <1>3, <2>2 DEF Counted
<1>20. QED BY <1>3, <1>15, <1>18, <1>19 DEF d, new

(* Cutting to the first `limit` targets leaves at most that many of the     *)
(* old ones: their places, counted over the groups, are all different.     *)
LEMMA TruncationKeeps ==
  ASSUME NEW e, ExpansionShape(e), NEW limit \in Nat,
         NEW d, d = [e EXCEPT !.truncated = TRUE, !.groups = TruncateGroups(@, limit)]
  PROVE  /\ ExpansionShape(d) /\ d.truncated = TRUE
         /\ Cardinality(AllTargets(d.groups)) <= limit
<1> DEFINE groups == e.groups
           n == Len(groups)
           cut == TruncateGroups(groups, limit)
           rank(g, t) == Cardinality(Ahead(groups, g, t))
<1>1. /\ d.truncated = TRUE /\ d.groups = cut /\ d.order = e.order /\ d.requested = e.requested
      /\ d.next = e.next /\ d.seen = e.seen /\ DOMAIN d = DOMAIN e
  BY DEF ExpansionShape, NoExpansion
<1>2. /\ groups \in Seq(Groups) /\ Keyed(groups) /\ Apart(groups)
      /\ IsFiniteSet(AllTargets(groups)) /\ e.order \in Nat
      /\ \A t \in AllTargets(groups) : Registered(e, t)
  BY DEF ExpansionShape
<1>3. n \in Nat /\ DOMAIN groups = 1..n /\ \A g \in 1..n : groups[g] \in Groups
  BY <1>2, PlacesOfSequence
<1>4. cut = [g \in 1..n |-> [groups[g] EXCEPT !.targets = {t \in @ : rank(g, t) < limit}]]
  BY <1>3 DEF TruncateGroups
<1> HIDE DEF groups, n, cut
<1>5. \A g \in 1..n : /\ groups[g].key \in {"file", "module_index"} \X Files
                      /\ groups[g].targets \subseteq TargetRecords
                      /\ DOMAIN groups[g] = {"key", "targets"}
  BY <1>3 DEF Groups
<1>6. \A g \in 1..n :
        /\ cut[g] \in Groups /\ cut[g].key = groups[g].key
        /\ cut[g].targets = {t \in groups[g].targets : rank(g, t) < limit}
  <2>1. TAKE g \in 1..n
  <2> DEFINE kept == {t \in groups[g].targets : rank(g, t) < limit}
  <2>2. cut[g] = [groups[g] EXCEPT !.targets = kept] BY <1>4
  <2>3. kept \in SUBSET TargetRecords BY <1>5
  <2> HIDE DEF kept
  <2>4. \A K, T : \A q \in [key : K, targets : SUBSET T] : \A X \in SUBSET T :
          /\ [q EXCEPT !.targets = X] \in [key : K, targets : SUBSET T]
          /\ [q EXCEPT !.targets = X].key = q.key /\ [q EXCEPT !.targets = X].targets = X
    OBVIOUS
  <2>5. groups[g] \in [key : {"file", "module_index"} \X Files, targets : SUBSET TargetRecords]
    BY <1>3 DEF Groups
  <2>6. cut[g] \in Groups /\ cut[g].key = groups[g].key /\ cut[g].targets = kept
    BY <2>2, <2>3, <2>4, <2>5 DEF Groups
  <2>7. QED BY <2>6 DEF kept
<1>7. cut \in Seq(Groups) /\ DOMAIN cut = 1..n
  <2>1. cut = [g \in 1..n |-> cut[g]] BY <1>4
  <2>2. QED BY <1>3, <1>6, <2>1, FunctionIsSequence
<1>8. \A g \in 1..n : cut[g].targets \subseteq groups[g].targets BY <1>6
<1>9. Keyed(cut) BY <1>2, <1>3, <1>6, <1>7 DEF Keyed
<1>10. Apart(cut)
  <2>1. SUFFICES ASSUME NEW g \in 1..n, NEW h \in 1..n,
                        NEW t \in cut[g].targets, NEW u \in cut[h].targets,
                        t.order = u.order \/ t.id = u.id
                 PROVE  g = h /\ t = u
    BY <1>7 DEF Apart
  <2>2. t \in groups[g].targets /\ u \in groups[h].targets BY <1>8
  <2>3. QED BY <1>2, <1>3, <2>1, <2>2 DEF Apart
<1>11. AllTargets(cut) \subseteq AllTargets(groups) BY <1>3, <1>7, <1>8 DEF AllTargets
<1>12. IsFiniteSet(AllTargets(cut))
  <2>1. AllTargets(cut) \in SUBSET AllTargets(groups) BY <1>11
  <2>2. QED BY <1>2, <2>1, FS_Subset
<1>13. ExpansionShape(d)
  <2>1. \A t \in AllTargets(cut) : Registered(d, t) BY <1>1, <1>2, <1>11 DEF Registered
  <2>2. QED BY <1>1, <1>7, <1>9, <1>10, <1>12, <2>1 DEF ExpansionShape
<1>14. ASSUME NEW g \in 1..n, NEW t \in groups[g].targets
       PROVE  /\ IsFiniteSet(Ahead(groups, g, t)) /\ rank(g, t) \in Nat
              /\ t \notin Ahead(groups, g, t) /\ t.order \in Nat
  <2>1. t.order \in Nat BY <1>5 DEF TargetRecords
  <2>2. \A h \in 1..g - 1 : h \in 1..n /\ h # g BY <1>3
  <2>3. \A u \in Ahead(groups, g, t) :
          \/ \E h \in 1..g - 1 : u \in groups[h].targets
          \/ u \in groups[g].targets /\ u.order < t.order
    BY DEF Ahead
  <2>4. Ahead(groups, g, t) \in SUBSET AllTargets(groups)
    <3>1. \A h \in 1..n : groups[h].targets \subseteq AllTargets(groups) BY <1>3 DEF AllTargets
    <3>2. QED BY <2>2, <2>3, <3>1
  <2>5. t \notin Ahead(groups, g, t)
    <3>1. \A h \in 1..g - 1 : t \notin groups[h].targets BY <1>2, <1>3, <2>2 DEF Apart
    <3>2. QED BY <2>1, <2>3, <3>1
  <2>6. QED BY <1>2, <2>1, <2>4, <2>5, FS_Subset, FS_CardinalityType
<1>15. ASSUME NEW g \in 1..n, NEW h \in 1..n,
              NEW t \in groups[g].targets, NEW u \in groups[h].targets,
              g < h \/ (g = h /\ t.order < u.order)
       PROVE  rank(g, t) < rank(h, u)
  <2> DEFINE A == Ahead(groups, g, t)
             B == Ahead(groups, h, u)
  <2>1. /\ IsFiniteSet(A) /\ Cardinality(A) \in Nat /\ t \notin A /\ t.order \in Nat
        /\ IsFiniteSet(B) /\ Cardinality(B) \in Nat /\ u.order \in Nat
    BY <1>14
  <2>2. \A v \in groups[g].targets : v.order \in Nat BY <1>5 DEF TargetRecords
  <2>3. A \cup {t} \subseteq B
    <3>1. CASE g < h
      <4>1. g \in 1..h - 1 /\ \A k \in 1..g - 1 : k \in 1..h - 1 BY <1>3, <3>1
      <4>2. QED BY <4>1 DEF Ahead
    <3>2. CASE g = h /\ t.order < u.order
      <4>1. \A v \in groups[g].targets : v.order < t.order => v.order < u.order BY <2>1, <2>2, <3>2
      <4>2. QED BY <3>2, <4>1 DEF Ahead
    <3>3. QED BY <1>15, <3>1, <3>2
  <2> HIDE DEF A, B
  <2>4. Cardinality(A \cup {t}) = Cardinality(A) + 1 BY <2>1, FS_AddElement
  <2>5. Cardinality(A \cup {t}) <= Cardinality(B)
    <3>1. A \cup {t} \in SUBSET B BY <2>3
    <3>2. QED BY <2>1, <3>1, FS_Subset
  <2>6. Cardinality(A) < Cardinality(B) BY <2>1, <2>4, <2>5
  <2>7. QED BY <2>6 DEF A, B
<1>16. Cardinality(AllTargets(cut)) <= limit
  <2> DEFINE S == AllTargets(cut)
             home(t) == CHOOSE g \in 1..n : t \in cut[g].targets
             place == [t \in S |-> rank(home(t), t)]
  <2>1. \A t \in S : home(t) \in 1..n /\ t \in cut[home(t)].targets
    BY <1>7 DEF AllTargets
  <2> HIDE DEF home
  <2>2. \A t \in S : /\ t \in groups[home(t)].targets /\ rank(home(t), t) < limit
                     /\ rank(home(t), t) \in Nat /\ t.order \in Nat
    BY <1>6, <1>14, <2>1
  <2>3. \A t, u \in S : rank(home(t), t) = rank(home(u), u) => t = u
    <3>1. TAKE t, u \in S
    <3>2. HAVE rank(home(t), t) = rank(home(u), u)
    <3>3. home(t) \in 1..n /\ home(u) \in 1..n BY <2>1
    <3>4. ~(home(t) < home(u)) /\ ~(home(u) < home(t)) BY <1>15, <2>2, <3>2, <3>3
    <3>5. home(t) = home(u) BY <1>3, <3>3, <3>4
    <3>6. ~(t.order < u.order) /\ ~(u.order < t.order) BY <1>15, <2>2, <3>2, <3>3, <3>5
    <3>7. t.order = u.order BY <2>2, <3>6
    <3>8. QED BY <1>2, <1>3, <2>2, <3>3, <3>7 DEF Apart
  <2> HIDE DEF rank, S
  <2>4. place \in [S -> 0..limit - 1] BY <2>2
  <2>5. \A t \in S : place[t] = rank(home(t), t) OBVIOUS
  <2> HIDE DEF place
  <2>6. place \in Injection(S, 0..limit - 1) BY <2>3, <2>4, <2>5 DEF Injection, IsInjective
  <2>7. IsFiniteSet(0..limit - 1) /\ Cardinality(0..limit - 1) = limit
    <3>1. 0 \in Int /\ limit - 1 \in Int OBVIOUS
    <3>2. /\ IsFiniteSet(0..limit - 1)
          /\ Cardinality(0..limit - 1) = IF 0 > limit - 1 THEN 0 ELSE limit - 1 - 0 + 1
      BY <3>1, FS_Interval
    <3>3. QED BY <3>2
  <2>8. Cardinality(S) <= Cardinality(0..limit - 1) BY <2>6, <2>7, FS_Injection
  <2>9. Cardinality(S) <= limit BY <2>7, <2>8
  <2>10. QED BY <2>9 DEF S
<1>17. QED BY <1>1, <1>13, <1>16
-----------------------------------------------------------------------------
(* The invariant holds at first, and what leaves most of it alone keeps it. *)
LEMMA EmptyExpansion ==
  /\ ExpansionShape(NoExpansion) /\ Counted(NoExpansion)
  /\ NoExpansion.groups = <<>> /\ AllTargets(NoExpansion.groups) = {}
  /\ NoExpansion.truncated = FALSE
<1>1. NoExpansion.groups = <<>> /\ DOMAIN <<>> = {} /\ <<>> \in Seq(Groups)
  BY DEF NoExpansion
<1>2. AllTargets(<<>>) = {} BY <1>1 DEF AllTargets
<1>3. /\ NoExpansion.order = 0 /\ NoExpansion.requested = 0 /\ NoExpansion.next = 1
      /\ NoExpansion.truncated = FALSE
  BY DEF NoExpansion
<1>4. Keyed(<<>>) /\ Apart(<<>>) BY <1>1 DEF Keyed, Apart
<1>5. IsFiniteSet({}) /\ Cardinality({}) = 0 BY FS_EmptySet
<1>6. ExpansionShape(NoExpansion)
  <2>1. Keyed(NoExpansion.groups) /\ Apart(NoExpansion.groups) BY <1>1, <1>4
  <2>2. AllTargets(NoExpansion.groups) = {} BY <1>1, <1>2
  <2>3. NoExpansion.groups \in Seq(Groups) BY <1>1
  <2>4. IsFiniteSet(AllTargets(NoExpansion.groups)) BY <1>5, <2>2
  <2>5. /\ NoExpansion.order \in Nat /\ NoExpansion.requested = NoExpansion.order
        /\ NoExpansion.next \in Nat \ {0}
    BY <1>3
  <2> HIDE DEF NoExpansion
  <2>7. NoExpansion.truncated \in BOOLEAN BY <1>3, Zenon
  <2>6. QED BY <2>7, <2>1, <2>2, <2>3, <2>4, <2>5 DEF ExpansionShape
<1>7. Counted(NoExpansion) BY <1>1, <1>2, <1>3, <1>5 DEF Counted
<1>8. QED BY <1>1, <1>2, <1>3, <1>6, <1>7

LEMMA NoRows ==
  ASSUME NEW T
  PROVE  <<>> \in Seq(T) /\ Len(<<>>) = 0 /\ 1..0 = {}
OBVIOUS

LEMMA InitHolds == Init => IInv
<1>1. SUFFICES ASSUME Init PROVE IInv OBVIOUS
<1>2. /\ pc = "idle" /\ exp = NoExpansion /\ inventories = {} /\ group = 1 /\ work = NoWork
      /\ rows = <<>> /\ recycled = FALSE
  BY <1>1 DEF Init
<1>3. PICK c \in Checkouts : disk = c.disk /\ index = c.index BY <1>1 DEF Init
<1>4. disk \in [Files -> Held] /\ index \in [Files -> Held] BY <1>3, VerifyConstants DEF Held
<1>5. StateShape
  <2>1. pc \in Stages BY <1>2 DEF Stages
  <2>2. group \in Nat \ {0} BY <1>2
  <2>3. recycled \in BOOLEAN BY <1>2, Zenon
  <2>4. QED BY <1>2, <1>4, <2>1, <2>2, <2>3 DEF StateShape
<1>6. Totals BY <1>2, EmptyExpansion DEF Totals, Verifying
<1>7. Covered BY <1>2 DEF Covered
<1>8. ReplyInHand BY <1>2 DEF ReplyInHand
<1>9. RowsInv BY <1>2, NoRows DEF RowsInv, Verifying
<1>10. QED BY <1>5, <1>6, <1>7, <1>8, <1>9 DEF IInv

(* Rows are kept by a step that touches neither them nor what they are      *)
(* judged by.                                                              *)
LEMMA RowsKeep ==
  ASSUME RowsInv, UNCHANGED <<rows, recycled, build_causes, req>>,
         pc' \in Verifying /\ Batched => pc \in Verifying /\ UNCHANGED <<exp, group>>,
         pc' = "answered" => pc = "answered"
  PROVE  RowsInv'
<1>1. Batched' = Batched /\ \A r : HonestRow(r)' = HonestRow(r) BY DEF Batched, HonestRow
<1>2. {r \in Rows : HonestRow(r)}' = {r \in Rows : HonestRow(r)} BY <1>1 DEF Rows
<1>3. CASE pc' \in Verifying /\ Batched
  <2>1. RowsOfTargets BY <1>3 DEF RowsInv
  <2>2. (\A t : Done(t)' = Done(t)) /\ rows' = rows BY <1>3 DEF Done
  <2>3. RowsOfTargets' BY <2>1, <2>2 DEF RowsOfTargets
  <2>4. QED BY <1>1, <1>2, <2>3 DEF RowsInv
<1>4. CASE ~(pc' \in Verifying /\ Batched) BY <1>1, <1>2, <1>4 DEF RowsInv
<1>5. QED BY <1>3, <1>4

LEMMA EmptyRowsKeep ==
  ASSUME rows' = <<>>, pc' # "answered", ExpansionShape(exp'),
         pc' \in Verifying /\ Batched' => group' = 1
  PROVE  RowsInv'
<1>1. (rows \in Seq({r \in Rows : HonestRow(r)}))' BY NoRows
<1>2. ASSUME pc' \in Verifying /\ Batched' PROVE RowsOfTargets'
  <2>1. ASSUME NEW t PROVE ~Done(t)'
    <3>1. group' = 1 BY <1>2
    <3>2. SUFFICES ASSUME NEW g \in DOMAIN exp.groups', g < 1, t \in exp.groups'[g].targets
                   PROVE  FALSE
      BY <3>1 DEF Done
    <3>3. g \in 1..Len(exp'.groups)
      <4>1. PICK groups : groups = exp'.groups OBVIOUS
      <4>2. groups \in Seq(Groups) BY <4>1 DEF ExpansionShape
      <4>3. DOMAIN groups = 1..Len(groups) /\ Len(groups) \in Nat BY <4>2, PlacesOfSequence
      <4>4. QED BY <3>2, <4>1, <4>3
    <3>4. g \in Nat /\ g >= 1
      <4>1. PICK n : n = Len(exp'.groups) OBVIOUS
      <4>2. \A k \in 1..n : k \in Nat /\ k >= 1 OBVIOUS
      <4>3. QED BY <3>3, <4>1, <4>2
    <3>5. QED BY <3>2, <3>4
  <2>2. QED BY <2>1, NoRows DEF RowsOfTargets
<1>3. QED BY <1>1, <1>2 DEF RowsInv
-----------------------------------------------------------------------------
(* Requests, and what inventories find.                                     *)
LEMMA TargetsAreTyped ==
  ASSUME StateShape, pc = "expand", exp.next \in Nat, exp.next # 0, exp.next <= Len(req.targets)
  PROVE  Target.file \in Files /\ Target.names \in Seq(Names)
<1>1. req \in Requests BY DEF StateShape
<1>2. req.targets \in Seq([kind : {"explicit", "file_all", "module_all"}, file : Files,
                           names : Seq(Names)])
  BY <1>1, VerifyConstants
<1>3. \A T : \A s \in Seq(T) : exp.next <= Len(s) => s[exp.next] \in T OBVIOUS
<1>4. req.targets[exp.next] \in [kind : {"explicit", "file_all", "module_all"}, file : Files,
                                  names : Seq(Names)]
  BY <1>2, <1>3
<1>5. \A K, F, N : \A r \in [kind : K, file : F, names : N] :
        r.kind \in K /\ r.file \in F /\ r.names \in N
  OBVIOUS
<1>6. req.targets[exp.next].file \in Files /\ req.targets[exp.next].names \in Seq(Names)
  BY <1>4, <1>5
<1>7. QED BY <1>6 DEF Target

LEMMA DeclaredListed ==
  ASSUME NEW content
  PROVE  /\ Declared(content) \in Seq(Names)
         /\ Range(Declared(content)) \subseteq Names \ {Blank}
<1> DEFINE S == {n \in Names \ {Blank} : content[n] \in Judged}
<1>1. S \in SUBSET Names /\ IsFiniteSet(Names) BY VerifyConstants
<1>2. IsFiniteSet(S) BY <1>1, FS_Subset
<1>3. Declared(content) = SetToSeq(S) BY DEF Declared
<1>4. S \subseteq Names \ {Blank} OBVIOUS
<1> HIDE DEF S
<1>5. SetToSeq(S) \in Seq(S) /\ Range(SetToSeq(S)) = S BY <1>2, SetListed
<1>6. SetToSeq(S) \in Seq(Names) BY <1>1, <1>5
<1>7. QED BY <1>3, <1>4, <1>5, <1>6

(* An inventory made with every import built, from a healthy worker and     *)
(* not cut lists every declaration its source holds.                       *)
Lists(inv, found) ==
  /\ inv.names \in Seq(Names) /\ inv.truncated \in BOOLEAN
  /\ inv.status = "ok" /\ inv.healthy /\ ~inv.truncated =>
       found \subseteq Range(inv.names)
Shown(t, inv) == Range(Declared(IF inv.source = "ilean" THEN index[t.file] ELSE disk[t.file]))
InventoryFields == {"status", "source", "names", "truncated", "healthy"}

LEMMA LimitKeeps ==
  ASSUME NEW names \in Seq(Names)
  PROVE  /\ Prefix(names, MAX_VERIFY_TARGETS) \in Seq(Names)
         /\ ~(Len(names) > MAX_VERIFY_TARGETS) => Prefix(names, MAX_VERIFY_TARGETS) = names
<1>1. MAX_VERIFY_TARGETS \in Nat BY VerifyConstants
<1>2. /\ Prefix(names, MAX_VERIFY_TARGETS) \in Seq(Names)
      /\ Len(names) <= MAX_VERIFY_TARGETS => Prefix(names, MAX_VERIFY_TARGETS) = names
  BY <1>1, PrefixIsShort
<1>3. Len(names) \in Nat BY PlacesOfSequence
<1>4. QED BY <1>1, <1>2, <1>3

(* What an outline of a file is, whatever its outcome.                      *)
Outlined(o, all) ==
  /\ DOMAIN o = InventoryFields /\ o.source # "ilean"
  /\ o.names \in Seq(Names) /\ o.truncated \in BOOLEAN
  /\ o.status = "ok" /\ o.healthy /\ ~o.truncated => Range(all) \subseteq Range(o.names)

LEMMA NothingOutlined ==
  ASSUME NEW s, s # "ok", NEW all
  PROVE  Outlined(NoInventory(s), all)
<1> DEFINE o == NoInventory(s)
<1>1. /\ DOMAIN o = InventoryFields /\ o.source = "none" /\ o.names = <<>>
      /\ o.truncated = FALSE /\ o.status = s
  BY DEF NoInventory, Inventory, InventoryFields
<1> HIDE DEF o
<1>2. o.truncated \in BOOLEAN BY <1>1, Zenon
<1>3. <<>> \in Seq(Names) OBVIOUS
<1>4. Outlined(o, all) BY <1>1, <1>2, <1>3 DEF Outlined
<1>5. QED BY <1>4 DEF o

LEMMA BatchOutlined ==
  ASSUME NEW content, NEW o \in outline_from_batch(content)
  PROVE  Outlined(o, Declared(content))
<1> DEFINE all == Declared(content)
<1>1. CASE \E n \in 0..Len(all), healthy \in BOOLEAN :
             o = truncate("ok", "worker", Prefix(all, n), n < Len(all) /\ healthy, healthy)
  <2>1. PICK n \in 0..Len(all), healthy \in BOOLEAN :
          o = truncate("ok", "worker", Prefix(all, n), n < Len(all) /\ healthy, healthy)
    BY <1>1
  <2>2. all \in Seq(Names) BY DeclaredListed
  <2> HIDE DEF all
  <2>3. Len(all) \in Nat /\ n \in Nat BY <2>2, PlacesOfSequence
  <2>4. Prefix(all, n) \in Seq(Names) /\ (Len(all) <= n => Prefix(all, n) = all)
    BY <2>2, <2>3, PrefixIsShort
  <2> DEFINE listed == Prefix(all, n)
             cut == (n < Len(all) /\ healthy) \/ Len(listed) > MAX_VERIFY_TARGETS
  <2>5. /\ DOMAIN o = InventoryFields /\ o.source = "worker"
        /\ o.healthy = healthy /\ o.names = Prefix(listed, MAX_VERIFY_TARGETS)
        /\ o.truncated = cut
    BY <2>1 DEF truncate, Inventory, InventoryFields
  <2>6. listed \in Seq(Names) BY <2>4
  <2>7. cut \in BOOLEAN OBVIOUS
  <2>8. ~cut => ~(Len(listed) > MAX_VERIFY_TARGETS) /\ ~(n < Len(all) /\ healthy) OBVIOUS
  <2> HIDE DEF cut
  <2>9. o.truncated \in BOOLEAN BY <2>5, <2>7, Zenon
  <2>10. ASSUME o.healthy, ~o.truncated
         PROVE  o.names = all
    <3>1. ~cut /\ healthy BY <2>5, <2>10
    <3>2. o.names = listed
      <4>1. Prefix(listed, MAX_VERIFY_TARGETS) = listed BY <2>6, <2>8, <3>1, LimitKeeps
      <4>2. QED BY <2>5, <4>1
    <3>3. Len(all) <= n BY <2>3, <2>8, <3>1
    <3>4. QED BY <2>4, <3>2, <3>3
  <2>11. o.names \in Seq(Names)
    <3>1. Prefix(listed, MAX_VERIFY_TARGETS) \in Seq(Names) BY <2>6, LimitKeeps
    <3>2. QED BY <2>5, <3>1
  <2>12. o.source # "ilean" BY <2>5
  <2>13. Outlined(o, all) BY <2>5, <2>9, <2>10, <2>11, <2>12 DEF Outlined
  <2>14. QED BY <2>13 DEF all
<1>2. CASE o = [NoInventory("ok") EXCEPT !.truncated = TRUE]
  <2>1. /\ DOMAIN o = InventoryFields /\ o.source = "none" /\ o.names = <<>>
        /\ o.truncated = TRUE
    BY <1>2 DEF NoInventory, Inventory, InventoryFields
  <2>2. o.truncated \in BOOLEAN /\ o.truncated BY <2>1, Zenon
  <2>3. <<>> \in Seq(Names) OBVIOUS
  <2>4. QED BY <2>1, <2>2, <2>3 DEF Outlined
<1>3. CASE o = NoInventory("unsupported") BY <1>3, NothingOutlined
<1>4. QED BY <1>1, <1>2, <1>3 DEF outline_from_batch

LEMMA InventoriesList ==
  ASSUME NEW t, NEW inv \in inventories_of(t)
  PROVE  Lists(inv, Shown(t, inv))
<1>1. CASE disk[t.file] # Absent
  <2> DEFINE all == Declared(disk[t.file])
  <2>1. PICK outline \in worker_outlines(disk[t.file]) : inv = supplement(outline, t.file)
    BY <1>1 DEF inventories_of
  <2>2. Outlined(outline, all)
    <3>1. CASE outline \in outline_from_batch(disk[t.file]) BY <3>1, BatchOutlined
    <3>2. CASE \E o \in outline_from_batch(disk[t.file]) : outline = [o EXCEPT !.status = "needs_build"]
      <4>1. PICK o \in outline_from_batch(disk[t.file]) : outline = [o EXCEPT !.status = "needs_build"]
        BY <3>2
      <4>2. Outlined(o, all) BY BatchOutlined
      <4> HIDE DEF all
      <4>3. /\ DOMAIN outline = InventoryFields /\ outline.status = "needs_build"
            /\ outline.names = o.names /\ outline.source = o.source /\ outline.truncated = o.truncated
        BY <4>1, <4>2 DEF Outlined, InventoryFields
      <4>4. QED BY <4>2, <4>3 DEF Outlined
    <3>3. CASE \E s \in {"header_parse_failed", "unsupported", "missing_build"} : outline = NoInventory(s)
      BY <3>3, NothingOutlined
    <3>4. QED BY <3>1, <3>2, <3>3 DEF worker_outlines
  <2>3. CASE ~(outline.status = "ok" /\ index[t.file] = disk[t.file])
    <3>1. inv = outline BY <2>1, <2>3 DEF supplement
    <3>2. Shown(t, inv) = Range(all) BY <2>2, <3>1 DEF Shown, Outlined
    <3>3. QED BY <2>2, <3>1, <3>2 DEF Lists, Outlined
  <2>4. CASE outline.status = "ok" /\ index[t.file] = disk[t.file]
    <3> DEFINE rest == Range(Declared(index[t.file])) \ Range(outline.names)
               more == SetToSeq(rest)
               room == MAX_VERIFY_TARGETS - Len(outline.names)
               added == Prefix(more, room)
               names == outline.names \o added
               short == outline.truncated \/ Len(more) > room
    <3>1. inv = [outline EXCEPT !.names = names, !.truncated = short]
      BY <2>1, <2>4 DEF supplement
    <3>2. PICK k : names = outline.names \o k /\ k \in Seq(Names)
      <4>1. rest \in SUBSET Names BY DeclaredListed
      <4>2. IsFiniteSet(rest) BY <4>1, VerifyConstants, FS_Subset
      <4> HIDE DEF rest
      <4>3. more \in Seq(rest) BY <4>2, SetListed
      <4>4. more \in Seq(Names) BY <4>1, <4>3
      <4> HIDE DEF more
      <4>5. added \in Seq(Names)
        <5>1. Len(outline.names) \in Nat /\ MAX_VERIFY_TARGETS \in Nat
          BY <2>2, PlacesOfSequence, VerifyConstants DEF Outlined
        <5>2. room \in Int BY <5>1
        <5> HIDE DEF room
        <5>3. CASE Len(more) <= room
          <6>1. added = SubSeq(more, 1, Len(more)) BY <5>3 DEF Prefix
          <6>2. QED BY <4>4, <6>1
        <5>4. CASE ~(Len(more) <= room)
          <6>1. added = SubSeq(more, 1, room) BY <5>4 DEF Prefix
          <6>2. Len(more) \in Nat /\ room < Len(more) BY <4>4, <5>2, <5>4, PlacesOfSequence
          <6>3. QED BY <4>4, <5>2, <6>1, <6>2
        <5>5. QED BY <5>3, <5>4
      <4> HIDE DEF added
      <4>6. QED BY <4>5
    <3> HIDE DEF names, short
    <3>3. /\ inv.names = names /\ inv.truncated = short /\ inv.status = outline.status
          /\ inv.healthy = outline.healthy /\ inv.source = outline.source
      BY <2>2, <3>1 DEF InventoryFields, Outlined
    <3>4. names \in Seq(Names) /\ Range(outline.names) \subseteq Range(names)
      BY <2>2, <3>2, RangeJoins, JoinedSequence DEF Outlined
    <3>5. short \in BOOLEAN /\ (~short => ~outline.truncated) BY DEF short
    <3>6. Shown(t, inv) = Range(all) BY <2>2, <3>3 DEF Shown, Outlined
    <3>7. QED BY <2>2, <3>3, <3>4, <3>5, <3>6 DEF Lists, Outlined
  <2>5. QED BY <2>3, <2>4
<1>2. CASE disk[t.file] = Absent
  <2>1. CASE inv \in {NoInventory("not_found"), NoInventory("missing_build")}
    <3>1. inv.names = <<>> /\ inv.truncated = FALSE /\ inv.status # "ok"
      BY <2>1 DEF NoInventory, Inventory
    <3>2. inv.truncated \in BOOLEAN BY <3>1, Zenon
    <3>3. <<>> \in Seq(Names) OBVIOUS
    <3>4. QED BY <3>1, <3>2, <3>3 DEF Lists
  <2>2. CASE inv = truncate("ok", "ilean", Declared(index[t.file]), FALSE, TRUE)
    <3>1. Declared(index[t.file]) \in Seq(Names) BY DeclaredListed
    <3> DEFINE all == Declared(index[t.file])
               cut == FALSE \/ Len(all) > MAX_VERIFY_TARGETS
    <3>5. cut \in BOOLEAN /\ (~cut => ~(Len(all) > MAX_VERIFY_TARGETS)) OBVIOUS
    <3> HIDE DEF cut, all
    <3>6. /\ inv.source = "ilean" /\ inv.names = Prefix(all, MAX_VERIFY_TARGETS)
          /\ inv.truncated = cut
      BY <2>2 DEF truncate, Inventory, cut, all
    <3>7. inv.truncated \in BOOLEAN BY <3>5, <3>6, Zenon
    <3>8. all \in Seq(Names) BY <3>1 DEF all
    <3>9. inv.names \in Seq(Names) BY <3>6, <3>8, LimitKeeps
    <3>10. ~inv.truncated => inv.names = all
      BY <3>5, <3>6, <3>8, LimitKeeps
    <3>2. /\ inv.source = "ilean" /\ inv.names \in Seq(Names) /\ inv.truncated \in BOOLEAN
          /\ ~inv.truncated => inv.names = Declared(index[t.file])
      BY <3>6, <3>7, <3>9, <3>10 DEF all
    <3>3. Shown(t, inv) = Range(Declared(index[t.file])) BY <3>2 DEF Shown
    <3>4. QED BY <3>2, <3>3 DEF Lists
  <2>3. QED BY <1>2, <2>1, <2>2 DEF inventories_of
<1>3. QED BY <1>1, <1>2
-----------------------------------------------------------------------------
(* What a step leaves alone.                                                *)
LEMMA TotalsKeep ==
  ASSUME Totals, UNCHANGED <<exp, req>>,
         pc' \in {"idle", "expand"} => pc \in {"idle", "expand"},
         pc' \in Verifying /\ Batched => pc \in Verifying
  PROVE  Totals'
<1>1. Batched' = Batched /\ exp' = exp BY DEF Batched
<1>2. ExpansionShape(exp)' BY <1>1 DEF Totals
<1>3. Counted(exp)' = Counted(exp) BY <1>1
<1>4. QED BY <1>1, <1>2, <1>3 DEF Totals

LEMMA CoveredKeep ==
  ASSUME Covered, UNCHANGED inventories, warned \subseteq warned', UNCHANGED exp
  PROVE  Covered'
<1>1. QED BY DEF Covered

LEMMA EditKeeps == ASSUME IInv, EditFile PROVE IInv'
<1>1. /\ StateShape /\ Totals /\ Covered /\ ReplyInHand /\ RowsInv BY DEF IInv
<1>2. /\ UNCHANGED <<index, pc, req, exp, inventories, group, work>>
      /\ UNCHANGED <<rows, recycled, build_causes, warned>>
  BY DEF EditFile, callVars
<1>3. disk' \in [Files -> Held]
  <2>1. disk \in [Files -> Held] BY <1>1 DEF StateShape
  <2>2. PICK f \in Files, c \in Contents : disk' = [disk EXCEPT ![f] = c] BY DEF EditFile
  <2>3. c \in Held BY DEF Held
  <2> HIDE DEF Held
  <2>4. QED BY <2>1, <2>2, <2>3
<1>4. StateShape' BY <1>1, <1>2, <1>3 DEF StateShape, Batched, Held, Absent
<1>5. Totals' BY <1>1, <1>2, TotalsKeep
<1>6. Covered' BY <1>1, <1>2, CoveredKeep
<1>7. ReplyInHand' BY <1>1, <1>2 DEF ReplyInHand, ReplyTrue, Targets, Group, Lost, Uninformed
<1>8. RowsInv' BY <1>1, <1>2, RowsKeep
<1>9. QED BY <1>4, <1>5, <1>6, <1>7, <1>8 DEF IInv

LEMMA BeginKeeps == ASSUME IInv, BeginCall PROVE IInv'
<1>1. /\ StateShape /\ Totals /\ Covered /\ ReplyInHand /\ RowsInv BY DEF IInv
<1>2. /\ pc = "idle"
      /\ UNCHANGED <<disk, index, exp, inventories, group, work, rows, recycled>>
  BY DEF BeginCall
<1>3. /\ exp = NoExpansion /\ inventories = {} /\ work = NoWork /\ rows = <<>> /\ group = 1
      /\ disk \in [Files -> Held] /\ index \in [Files -> Held] /\ recycled \in BOOLEAN
  BY <1>1, <1>2 DEF StateShape
<1>4. /\ req' \in Requests /\ pc' \in {"expand", "finish"}
      /\ pc' = "finish" => ~Batched'
  BY DEF BeginCall, Batched
<1>5. StateShape'
  <2>1. pc' \in Stages BY <1>4 DEF Stages
  <2>2. recycled' \in BOOLEAN BY <1>2, <1>3
  <2>3. /\ (disk \in [Files -> Held])' /\ (index \in [Files -> Held])' /\ group' \in Nat \ {0}
        /\ rows' = <<>> /\ group' = 1
    BY <1>2, <1>3 DEF Held, Absent
  <2>4. QED BY <1>4, <2>1, <2>2, <2>3 DEF StateShape
<1>6. Totals'
  <2>1. exp' = exp BY <1>2
  <2>2. ExpansionShape(exp)' /\ Counted(exp)' BY <1>3, <2>1, EmptyExpansion
  <2>3. ~(pc' \in Verifying /\ Batched') BY <1>4 DEF Verifying
  <2>4. QED BY <2>2, <2>3 DEF Totals
<1>7. Covered' BY <1>2, <1>3 DEF Covered
<1>8. ReplyInHand' BY <1>1, <1>2, <1>4 DEF ReplyInHand
<1>9. RowsInv' BY <1>2, <1>3, <1>4, <1>6, EmptyRowsKeep DEF Totals
<1>10. QED BY <1>5, <1>6, <1>7, <1>8, <1>9 DEF IInv
-----------------------------------------------------------------------------
(* Expansion.                                                               *)
LEMMA NextTargetKeeps ==
  ASSUME NEW e, ExpansionShape(e), NEW d, d = Expanded(e)
  PROVE  /\ ExpansionShape(d) /\ d.groups = e.groups /\ d.truncated = e.truncated
         /\ Counted(e) => Counted(d)
<1>1. /\ DOMAIN d = DOMAIN e /\ d.next = e.next + 1 /\ d.groups = e.groups
      /\ d.order = e.order /\ d.requested = e.requested /\ d.seen = e.seen
      /\ d.truncated = e.truncated
  BY DEF Expanded, ExpansionShape, NoExpansion
<1>2. d.next \in Nat \ {0} BY <1>1 DEF ExpansionShape
<1>3. \A t : Registered(d, t) <=> Registered(e, t) BY <1>1 DEF Registered
<1>4. ExpansionShape(d) BY <1>1, <1>2, <1>3 DEF ExpansionShape
<1>5. QED BY <1>1, <1>4 DEF Counted

LEMMA AbsorbKeeps ==
  ASSUME NEW e, ExpansionShape(e), NEW inv, inv.truncated \in BOOLEAN, NEW d, d = Absorb(e, inv)
  PROVE  /\ ExpansionShape(d) /\ d.groups = e.groups /\ d.next = e.next
         /\ d.truncated = (e.truncated \/ inv.truncated)
         /\ Counted(e) => Counted(d)
<1>1. /\ DOMAIN d = DOMAIN e /\ d.next = e.next /\ d.groups = e.groups
      /\ d.order = e.order /\ d.requested = e.requested /\ d.seen = e.seen
      /\ d.truncated = (e.truncated \/ inv.truncated)
  BY DEF Absorb, ExpansionShape, NoExpansion
<1>2. (e.truncated \/ inv.truncated) \in BOOLEAN OBVIOUS
<1>3. d.truncated \in BOOLEAN BY <1>1, <1>2, Zenon
<1>4. \A t : Registered(d, t) <=> Registered(e, t) BY <1>1 DEF Registered
<1>5. ExpansionShape(d) BY <1>1, <1>3, <1>4 DEF ExpansionShape
<1>6. QED BY <1>1, <1>5 DEF Counted

(* While targets are expanded only the expansion and its warnings change.   *)
LEMMA ExpansionKeeps ==
  ASSUME IInv, pc = "expand", UNCHANGED <<disk, index, pc, req, group, work, rows, recycled>>,
         ExpansionShape(exp'), Counted(exp'), Covered'
  PROVE  IInv'
<1>1. /\ StateShape /\ ReplyInHand BY DEF IInv
<1>2. /\ req \in Requests /\ rows = <<>> /\ group = 1
      /\ disk \in [Files -> Held] /\ index \in [Files -> Held] /\ recycled \in BOOLEAN
  BY <1>1 DEF StateShape
<1>3. StateShape'
  <2>1. pc' = "expand" /\ pc' \in Stages BY DEF Stages
  <2>2. recycled' \in BOOLEAN BY <1>2
  <2>3. /\ (disk \in [Files -> Held])' /\ (index \in [Files -> Held])' /\ group' \in Nat \ {0}
        /\ rows' = <<>> /\ group' = 1 /\ req' \in Requests
    BY <1>2 DEF Held, Absent
  <2>4. QED BY <2>1, <2>2, <2>3 DEF StateShape
<1>4. Totals'
  <2>1. ~(pc' \in Verifying) /\ pc' = "expand" BY DEF Verifying
  <2>2. QED BY <2>1 DEF Totals
<1>5. ReplyInHand' BY <1>1 DEF ReplyInHand
<1>6. RowsInv'
  <2>1. rows' = <<>> /\ pc' # "answered" /\ pc' \notin Verifying BY <1>2 DEF Verifying
  <2>2. QED BY <2>1, EmptyRowsKeep
<1>7. QED BY <1>3, <1>4, <1>5, <1>6 DEF IInv

LEMMA ExplicitKeeps == ASSUME IInv, ExpandExplicit PROVE IInv'
<1>1. /\ StateShape /\ Totals /\ Covered BY DEF IInv
<1>2. /\ pc = "expand" /\ exp.next <= Len(req.targets) /\ warned \subseteq warned'
      /\ UNCHANGED <<disk, index, pc, req, inventories, group, work, rows, recycled>>
  BY DEF ExpandExplicit
<1> DEFINE key == <<"file", Target.file>>
           pushed == push_declarations(exp, key, Target.names)
<1>3. exp' = Expanded(pushed) BY DEF ExpandExplicit
<1>4. ExpansionShape(exp) /\ Counted(exp) BY <1>1, <1>2 DEF Totals
<1>5. exp.next \in Nat /\ exp.next # 0 BY <1>4 DEF ExpansionShape
<1>6. Target.file \in Files /\ Target.names \in Seq(Names) BY <1>1, <1>2, <1>5, TargetsAreTyped
<1>7. key \in {"file", "module_index"} \X Files BY <1>6
<1> HIDE DEF key
<1>8. /\ ExpansionShape(pushed) /\ pushed.truncated = exp.truncated /\ Counted(pushed)
      /\ AllTargets(pushed.groups) = AllTargets(exp.groups) \cup NewTargets(exp, Target.names)
  BY <1>4, <1>6, <1>7, PushKeeps
<1> HIDE DEF pushed
<1>9. /\ ExpansionShape(exp') /\ Counted(exp') /\ exp'.truncated = exp.truncated
      /\ exp'.groups = pushed.groups
  BY <1>3, <1>8, NextTargetKeeps
<1>10. AllTargets(exp.groups) \subseteq AllTargets(exp'.groups) BY <1>8, <1>9
<1>11. Covered' BY <1>1, <1>2, <1>9, <1>10 DEF Covered
<1>12. QED BY <1>2, <1>9, <1>11, ExpansionKeeps

LEMMA InventoryKeeps == ASSUME IInv, ExpandInventory PROVE IInv'
<1>1. /\ StateShape /\ Totals /\ Covered BY DEF IInv
<1>2. /\ pc = "expand" /\ exp.next <= Len(req.targets)
      /\ UNCHANGED <<disk, index, pc, req, group, work, rows, recycled>>
  BY DEF ExpandInventory
<1>3. PICK inv \in inventories_of(Target) :
        LET e == Absorb(exp, inv)
            usable == inv.status \in Usable
        IN  /\ exp' = Expanded(IF usable
                        THEN push_declarations(e, VerifySource(Target, inv), inv.names) ELSE e)
            /\ warned' = warned \cup {w \in {"inventory"} : ~usable}
                                \cup {w \in {"needs_build"} : WithoutBuild(Target, inv)}
            /\ inventories' = inventories \cup
                 {[group |-> exp.next, healthy |-> inv.healthy, status |-> inv.status,
                   found |-> Range(Declared(
                      IF inv.source = "ilean" THEN index[Target.file] ELSE disk[Target.file]))]}
  BY DEF ExpandInventory
<1> DEFINE e == Absorb(exp, inv)
           usable == inv.status \in Usable
           key == VerifySource(Target, inv)
           pushed == push_declarations(e, key, inv.names)
           grown == IF usable THEN pushed ELSE e
           found == Shown(Target, inv)
           entry == [group |-> exp.next, healthy |-> inv.healthy, status |-> inv.status,
                     found |-> found]
<1>4. /\ exp' = Expanded(grown) /\ inventories' = inventories \cup {entry}
      /\ warned \subseteq warned' /\ (~usable => "inventory" \in warned')
      /\ inv.status = "needs_build" => "needs_build" \in warned'
  BY <1>3 DEF Shown, WithoutBuild
<1>5. ExpansionShape(exp) /\ Counted(exp) BY <1>1, <1>2 DEF Totals
<1>6. exp.next \in Nat /\ exp.next # 0 BY <1>5 DEF ExpansionShape
<1>7. Target.file \in Files BY <1>1, <1>2, <1>6, TargetsAreTyped
<1>8. key \in {"file", "module_index"} \X Files BY <1>7 DEF VerifySource
<1> HIDE DEF key, found
<1>9. /\ inv.names \in Seq(Names) /\ inv.truncated \in BOOLEAN
      /\ inv.status = "ok" /\ inv.healthy /\ ~inv.truncated =>
           found \subseteq Range(inv.names)
  BY <1>3, InventoriesList DEF Lists, found
<1>10. /\ ExpansionShape(e) /\ e.groups = exp.groups /\ e.next = exp.next
       /\ e.truncated = (exp.truncated \/ inv.truncated) /\ Counted(e)
  BY <1>5, <1>9, AbsorbKeeps
<1> HIDE DEF e
<1>11. /\ ExpansionShape(pushed) /\ pushed.truncated = e.truncated /\ Counted(pushed)
       /\ AllTargets(pushed.groups) = AllTargets(e.groups) \cup NewTargets(e, inv.names)
  BY <1>8, <1>9, <1>10, PushKeeps
<1> HIDE DEF pushed
<1>12. /\ ExpansionShape(grown) /\ grown.truncated = e.truncated /\ Counted(grown)
       /\ AllTargets(e.groups) \subseteq AllTargets(grown.groups)
       /\ usable => NewTargets(e, inv.names) \subseteq AllTargets(grown.groups)
  BY <1>10, <1>11
<1> HIDE DEF grown
<1>13. /\ ExpansionShape(exp') /\ Counted(exp') /\ exp'.truncated = e.truncated
       /\ exp'.groups = grown.groups
  BY <1>4, <1>12, NextTargetKeeps
<1>14. Covered'
  <2>1. ASSUME NEW old \in inventories
        PROVE  /\ old.status \notin Usable => "inventory" \in warned'
               /\ old.status = "needs_build" => "needs_build" \in warned'
               /\ old.status = "ok" /\ old.healthy /\ ~exp'.truncated => \A n \in old.found :
                    \E t \in AllTargets(exp'.groups) : t.id[1] = old.group /\ t.name = n
    <3>1. AllTargets(exp.groups) \subseteq AllTargets(exp'.groups) BY <1>10, <1>12, <1>13
    <3>2. ~exp'.truncated => ~exp.truncated BY <1>10, <1>13
    <3>3. QED BY <1>1, <1>4, <3>1, <3>2 DEF Covered
  <2>2. /\ entry.status \notin Usable => "inventory" \in warned'
        /\ entry.status = "needs_build" => "needs_build" \in warned'
        /\ entry.status = "ok" /\ entry.healthy /\ ~exp'.truncated => \A n \in entry.found :
             \E t \in AllTargets(exp'.groups) : t.id[1] = entry.group /\ t.name = n
    <3>1. /\ entry.status = inv.status /\ entry.healthy = inv.healthy /\ entry.found = found
          /\ entry.group = exp.next
      OBVIOUS
    <3>2. ASSUME inv.status = "ok", inv.healthy, ~exp'.truncated, NEW n \in found
          PROVE  \E t \in AllTargets(exp'.groups) : t.id[1] = exp.next /\ t.name = n
      <4>1. ~inv.truncated BY <1>10, <1>13, <3>2
      <4>2. n \in Range(inv.names) BY <1>9, <3>2, <4>1
      <4>3. PICK i \in DOMAIN inv.names : inv.names[i] = n BY <4>2 DEF Range
      <4>4. n # Blank BY DeclaredListed DEF found, Shown
      <4>5. /\ \A t \in NewTargets(e, inv.names) : t.id[1] = e.next
            /\ \E t \in NewTargets(e, inv.names) : t.name = n
        BY <1>9, <1>10, <4>3, <4>4, NewTargetsAreNew
      <4>6. usable BY <3>2 DEF Usable
      <4>7. QED BY <1>10, <1>12, <1>13, <4>5, <4>6
    <3>3. entry.status \notin Usable <=> ~usable BY <3>1
    <3> HIDE DEF entry, usable
    <3>4. QED BY <1>4, <3>1, <3>2, <3>3
  <2> HIDE DEF entry
  <2>3. QED BY <1>4, <2>1, <2>2 DEF Covered
<1>15. QED BY <1>2, <1>13, <1>14, ExpansionKeeps
-----------------------------------------------------------------------------
(* Groups.                                                                  *)
LEMMA FinishExpansionKeeps == ASSUME IInv, FinishExpansion PROVE IInv'
<1>1. /\ StateShape /\ Totals /\ Covered /\ ReplyInHand BY DEF IInv
<1>2. /\ pc = "expand" /\ pc' = "group"
      /\ UNCHANGED <<disk, index, req, inventories, group, work, rows, recycled, warned>>
  BY DEF FinishExpansion
<1>3. ExpansionShape(exp) /\ Counted(exp) BY <1>1, <1>2 DEF Totals
<1>4. /\ req \in Requests /\ rows = <<>> /\ group = 1
      /\ disk \in [Files -> Held] /\ index \in [Files -> Held] /\ recycled \in BOOLEAN
  BY <1>1, <1>2 DEF StateShape
<1>5. Batched' = Batched BY <1>2 DEF Batched
<1> DEFINE limit == MAX_VERIFY_TARGETS
           cut == [exp EXCEPT !.truncated = TRUE, !.groups = TruncateGroups(@, limit)]
<1>6. limit \in Nat BY VerifyConstants
<1>7. /\ ExpansionShape(exp') /\ (~exp'.truncated => exp' = exp)
      /\ Batched => Cardinality(AllTargets(exp'.groups)) <= limit
  <2>1. CASE Batched /\ Total(exp.groups) > limit
    <3>1. exp' = cut BY <2>1 DEF FinishExpansion
    <3> HIDE DEF cut
    <3>2. /\ ExpansionShape(exp') /\ exp'.truncated = TRUE
          /\ Cardinality(AllTargets(exp'.groups)) <= limit
      BY <1>3, <1>6, <3>1, TruncationKeeps DEF cut
    <3>3. QED BY <3>2
  <2>2. CASE ~(Batched /\ Total(exp.groups) > limit)
    <3>1. exp' = exp BY <2>2 DEF FinishExpansion
    <3>2. Cardinality(AllTargets(exp.groups)) \in Nat BY <1>3, FS_CardinalityType DEF ExpansionShape
    <3>3. Batched => Cardinality(AllTargets(exp.groups)) <= limit
      BY <1>6, <2>2, <3>2 DEF Total
    <3>4. QED BY <1>3, <3>1, <3>3
  <2>3. QED BY <2>1, <2>2
<1>8. StateShape'
  <2>1. pc' \in Stages BY <1>2 DEF Stages
  <2>2. recycled' \in BOOLEAN BY <1>2, <1>4
  <2>3. /\ (disk \in [Files -> Held])' /\ (index \in [Files -> Held])' /\ group' \in Nat \ {0}
        /\ req' \in Requests
    BY <1>2, <1>4 DEF Held, Absent
  <2>4. QED BY <1>2, <2>1, <2>2, <2>3 DEF StateShape
<1>9. Totals' BY <1>2, <1>3, <1>5, <1>7 DEF Totals
<1>10. Covered' BY <1>1, <1>2, <1>7 DEF Covered
<1>11. ReplyInHand' BY <1>1, <1>2 DEF ReplyInHand
<1>12. RowsInv' BY <1>2, <1>4, <1>7, EmptyRowsKeep
<1>13. QED BY <1>8, <1>9, <1>10, <1>11, <1>12 DEF IInv

LEMMA GroupsListed ==
  ASSUME ExpansionShape(exp)
  PROVE  /\ Len(exp.groups) \in Nat /\ DOMAIN exp.groups = 1..Len(exp.groups)
         /\ \A g \in 1..Len(exp.groups) : /\ exp.groups[g].targets \subseteq TargetRecords
                                          /\ exp.groups[g].key \in {"file", "module_index"} \X Files
<1>1. exp.groups \in Seq(Groups) BY DEF ExpansionShape
<1> DEFINE groups == exp.groups
<1> HIDE DEF groups
<1>2. groups \in Seq(Groups) BY <1>1 DEF groups
<1>3. /\ Len(groups) \in Nat /\ DOMAIN groups = 1..Len(groups)
      /\ \A g \in 1..Len(groups) : groups[g] \in Groups
  BY <1>2, PlacesOfSequence
<1>4. \A r \in Groups : /\ r.targets \subseteq TargetRecords
                       /\ r.key \in {"file", "module_index"} \X Files
  BY DEF Groups
<1>5. QED BY <1>3, <1>4 DEF groups

LEMMA NextGroupKeeps == ASSUME IInv, NextGroup PROVE IInv'
<1>1. /\ StateShape /\ Totals /\ Covered /\ ReplyInHand /\ RowsInv BY DEF IInv
<1>2. /\ pc = "group" /\ (More => Targets = {})
      /\ UNCHANGED <<disk, index, req, exp, inventories, work, rows, recycled, build_causes, warned>>
      /\ pc' \in {"group", "finish"}
      /\ IF More THEN group' = group + 1 /\ pc' = "group" ELSE pc' = "finish" /\ group' = group
  BY DEF NextGroup
<1>3. /\ req \in Requests /\ group \in Nat \ {0}
      /\ disk \in [Files -> Held] /\ index \in [Files -> Held] /\ recycled \in BOOLEAN
  BY <1>1, <1>2 DEF StateShape
<1>4. Len(exp.groups) \in Nat /\ DOMAIN exp.groups = 1..Len(exp.groups)
  BY <1>1, GroupsListed DEF Totals
<1>5. group' \in Nat \ {0} BY <1>2, <1>3
<1>6. pc' = "finish" => group' > Len(exp.groups) BY <1>2, <1>3, <1>4 DEF More
<1>7. StateShape'
  <2>1. pc' \in Stages BY <1>2 DEF Stages
  <2>2. recycled' \in BOOLEAN BY <1>2, <1>3
  <2>3. /\ (disk \in [Files -> Held])' /\ (index \in [Files -> Held])'
        /\ req' \in Requests /\ exp' = exp
    BY <1>2, <1>3 DEF Held, Absent
  <2>4. QED BY <1>2, <1>5, <1>6, <2>1, <2>2, <2>3 DEF StateShape
<1>8. Totals'
  <2>1. /\ pc' \notin {"idle", "expand"} /\ pc \in Verifying /\ UNCHANGED <<exp, req>>
    BY <1>2 DEF Verifying
  <2>2. QED BY <1>1, <2>1, TotalsKeep
<1>9. Covered' BY <1>1, <1>2, CoveredKeep
<1>10. ReplyInHand' BY <1>1, <1>2 DEF ReplyInHand
<1>11. RowsInv'
  <2>1. \A t : Done(t)' <=> Done(t)
    <3>1. CASE More
      <4>1. \A g \in 1..Len(exp.groups) : g < group + 1 <=> g < group \/ g = group BY <1>3, <1>4
      <4>2. exp.groups[group].targets = {} BY <1>2, <3>1 DEF Targets, Group
      <4>3. exp' = exp /\ group' = group + 1 BY <1>2, <3>1
      <4>4. QED BY <1>4, <4>1, <4>2, <4>3 DEF Done
    <3>2. CASE ~More
      <4>1. exp' = exp /\ group' = group BY <1>2, <3>2
      <4>2. QED BY <4>1 DEF Done
    <3>3. QED BY <3>1, <3>2
  <2>2. /\ rows' = rows /\ Batched' = Batched /\ \A r : HonestRow(r)' = HonestRow(r)
        /\ pc \in Verifying /\ pc' # "answered"
    BY <1>2 DEF Batched, HonestRow, Verifying
  <2>3. Batched => RowsOfTargets' BY <1>1, <2>1, <2>2 DEF RowsInv, RowsOfTargets
  <2>4. {r \in Rows : HonestRow(r)}' = {r \in Rows : HonestRow(r)} BY <2>2 DEF Rows
  <2>5. QED BY <1>1, <2>2, <2>3, <2>4 DEF RowsInv
<1>12. QED BY <1>7, <1>8, <1>9, <1>10, <1>11 DEF IInv

(* A step from one stage of a group to the next that only touches `work`.   *)
LEMMA StageKeeps ==
  ASSUME IInv, pc \in {"expand", "group", "call"}, pc' \in {"call", "project", "failed"},
         pc = "expand" => pc' = "failed",
         UNCHANGED <<disk, index, req, exp, inventories, group, rows, recycled, build_causes, warned>>,
         pc' # "failed" => group \in DOMAIN exp.groups /\ work'.source \in Contents,
         ReplyInHand'
  PROVE  IInv'
<1>1. /\ StateShape /\ Totals /\ Covered /\ RowsInv BY DEF IInv
<1>2. /\ req \in Requests /\ group \in Nat \ {0}
      /\ disk \in [Files -> Held] /\ index \in [Files -> Held] /\ recycled \in BOOLEAN
  BY <1>1 DEF StateShape
<1>3. StateShape'
  <2>1. pc' \in Stages BY DEF Stages
  <2>2. recycled' \in BOOLEAN BY <1>2
  <2>3. /\ (disk \in [Files -> Held])' /\ (index \in [Files -> Held])'
        /\ req' \in Requests /\ exp' = exp /\ group' \in Nat \ {0}
    BY <1>2 DEF Held, Absent
  <2>4. QED BY <2>1, <2>2, <2>3 DEF StateShape
<1>4. pc' \in Verifying => pc \in Verifying BY DEF Verifying
<1>5. Totals' BY <1>1, <1>4, TotalsKeep
<1>6. Covered' BY <1>1, CoveredKeep
<1>7. RowsInv' BY <1>1, <1>4, RowsKeep
<1>8. QED BY <1>3, <1>5, <1>6, <1>7 DEF IInv

LEMMA PrepareKeeps == ASSUME IInv, PrepareGroup PROVE IInv'
<1>1. /\ StateShape /\ Totals /\ ReplyInHand BY DEF IInv
<1>2. /\ pc = "group" /\ More
      /\ UNCHANGED <<disk, index, req, exp, inventories, group, rows, recycled, build_causes, warned>>
  BY DEF PrepareGroup
<1> DEFINE file == Group.key[2]
           source == IF Group.key[1] = "file" THEN disk[file] ELSE index[file]
<1>3. \/ source = Absent /\ pc' = "failed" /\ work' = work
      \/ source # Absent /\ pc' = "call" /\ work' = [NoWork EXCEPT !.source = source]
  BY DEF PrepareGroup
<1>4. /\ group \in Nat \ {0} /\ disk \in [Files -> Held] /\ index \in [Files -> Held]
  BY <1>1 DEF StateShape
<1>5. ExpansionShape(exp) BY <1>1 DEF Totals
<1>6. group \in DOMAIN exp.groups BY <1>2, <1>4, <1>5, GroupsListed DEF More
<1>7. Group.key \in {"file", "module_index"} \X Files BY <1>5, <1>6, GroupsListed DEF Group
<1>8. file \in Files BY <1>7
<1>9. source \in Held BY <1>4, <1>8
<1> HIDE DEF source
<1>10. source # Absent => source \in Contents BY <1>9 DEF Held
<1>11. ReplyInHand' BY <1>1, <1>3 DEF ReplyInHand, NoWork
<1>12. pc' # "failed" => work'.source \in Contents BY <1>3, <1>10 DEF NoWork
<1>13. QED BY <1>2, <1>3, <1>6, <1>11, <1>12, StageKeeps

LEMMA RepliesAreTrue == ASSUME NEW reply \in Replies PROVE ReplyTrue(reply)
<1> DEFINE honest == [t \in Targets |-> work.source[t.name]]
<1>1. CASE reply = [kind |-> "ok", taint |-> FALSE, verdicts |-> honest]
  <2>1. reply.taint = FALSE BY <1>1
  <2>2. reply.taint \in BOOLEAN BY <2>1, Zenon
  <2>3. QED BY <1>1, <2>2 DEF ReplyTrue, NoReply, Kinds
<1>2. CASE \E v \in [Targets -> Range(honest) \cup {Lost}] :
             /\ \A t \in Targets : v[t] \in {honest[t], Lost}
             /\ reply = [kind |-> "ok", taint |-> TRUE, verdicts |-> v]
  <2>1. PICK v \in [Targets -> Range(honest) \cup {Lost}] :
             /\ \A t \in Targets : v[t] \in {honest[t], Lost}
             /\ reply = [kind |-> "ok", taint |-> TRUE, verdicts |-> v]
    BY <1>2
  <2>2. reply.taint = TRUE BY <2>1
  <2>3. reply.taint \in BOOLEAN BY <2>2, Zenon
  <2>4. \A t \in Targets : v[t] = work.source[t.name] \/ v[t] = Lost BY <2>1
  <2>5. DOMAIN v = Targets OBVIOUS
  <2>6. DOMAIN reply = {"kind", "taint", "verdicts"} /\ reply.verdicts = v /\ reply.kind = "ok"
    BY <2>1
  <2>7. QED BY <2>2, <2>3, <2>4, <2>5, <2>6 DEF ReplyTrue, NoReply, Kinds
<1>3. CASE \E b \in BOOLEAN, v \in [Targets -> Uninformed] :
             reply = [kind |-> "missing_imports", taint |-> b, verdicts |-> v]
  BY <1>3 DEF ReplyTrue, NoReply, Kinds
<1>4. CASE \E b \in BOOLEAN, k \in {"header_parse_failed", "unsupported", "needs_build"} :
             reply = [kind |-> k, taint |-> b /\ k # "needs_build",
                      verdicts |-> [t \in Targets |-> k]]
  <2>1. PICK b \in BOOLEAN, k \in {"header_parse_failed", "unsupported", "needs_build"} :
             reply = [kind |-> k, taint |-> b /\ k # "needs_build",
                      verdicts |-> [t \in Targets |-> k]]
    BY <1>4
  <2>2. reply.taint = (b /\ k # "needs_build") BY <2>1
  <2>3. (b /\ k # "needs_build") \in BOOLEAN OBVIOUS
  <2>4. reply.taint \in BOOLEAN BY <2>2, <2>3, Zenon
  <2>5. QED BY <2>1, <2>4 DEF ReplyTrue, NoReply, Kinds
<1>5. QED BY <1>1, <1>2, <1>3, <1>4 DEF Replies

LEMMA CallKeeps == ASSUME IInv, CallWorker PROVE IInv'
<1>1. /\ StateShape /\ ReplyInHand BY DEF IInv
<1>2. /\ pc = "call" /\ pc' \in {"call", "project"}
      /\ UNCHANGED <<disk, index, req, exp, inventories, group, rows, recycled, build_causes, warned>>
  BY DEF CallWorker
<1>3. PICK reply \in Replies :
        work' = [work EXCEPT !.calls = @ + 1, !.reply = Settle(reply), !.heard = reply]
  BY DEF CallWorker
<1>4. group \in DOMAIN exp.groups /\ work.source \in Contents BY <1>1, <1>2 DEF StateShape
<1>5. /\ DOMAIN work' = DOMAIN NoWork /\ work'.source = work.source
      /\ work'.reply = reply /\ work'.heard = reply
  BY <1>1, <1>3 DEF ReplyInHand, NoWork, Settle
<1>6. ReplyTrue(reply) BY RepliesAreTrue
<1>7. Targets' = Targets /\ Lost' = Lost /\ Uninformed' = Uninformed
  BY <1>2 DEF Targets, Group, Lost, Uninformed
<1>8. ReplyTrue(reply)' BY <1>5, <1>6, <1>7 DEF ReplyTrue
<1>9. ReplyTrue(work.reply)' BY <1>5, <1>8 DEF ReplyTrue
<1>10. ReplyInHand' BY <1>5, <1>9 DEF ReplyInHand, NoWork
<1>11. QED BY <1>2, <1>4, <1>5, <1>10, StageKeeps

LEMMA FailureKeeps == ASSUME IInv, CallFails PROVE IInv'
<1>1. /\ ReplyInHand BY DEF IInv
<1>2. /\ pc \in {"call", "expand"} /\ pc' = "failed"
      /\ UNCHANGED <<disk, index, req, exp, inventories, group, work, rows, recycled, build_causes,
                     warned>>
  BY DEF CallFails
<1>3. ReplyInHand' BY <1>1, <1>2 DEF ReplyInHand
<1>4. QED BY <1>2, <1>3, StageKeeps

LEMMA ReturnKeeps == ASSUME IInv, Return PROVE IInv'
<1>1. /\ pc' = "idle" /\ exp' = NoExpansion /\ inventories' = {} /\ group' = 1 /\ work' = NoWork
      /\ rows' = <<>> /\ recycled' = FALSE /\ UNCHANGED <<disk, index>>
  BY DEF Return
<1>2. disk \in [Files -> Held] /\ index \in [Files -> Held] BY DEF IInv, StateShape
<1>3. StateShape'
  <2>1. pc' \in Stages BY <1>1 DEF Stages
  <2>2. recycled' \in BOOLEAN BY <1>1, Zenon
  <2>3. (disk \in [Files -> Held])' /\ (index \in [Files -> Held])' /\ group' \in Nat \ {0}
    BY <1>1, <1>2 DEF Held, Absent
  <2>4. QED BY <1>1, <2>1, <2>2, <2>3 DEF StateShape
<1>4. Totals'
  <2>1. pc' \notin Verifying BY <1>1 DEF Verifying
  <2>2. ExpansionShape(exp)' /\ Counted(exp)' BY <1>1, EmptyExpansion
  <2>3. QED BY <2>1, <2>2 DEF Totals
<1>5. Covered' BY <1>1 DEF Covered
<1>6. ReplyInHand' BY <1>1 DEF ReplyInHand
<1>7. RowsInv'
  <2>1. pc' # "answered" /\ pc' \notin Verifying BY <1>1 DEF Verifying
  <2>2. ExpansionShape(exp') BY <1>1, EmptyExpansion
  <2>3. QED BY <1>1, <2>1, <2>2, EmptyRowsKeep
<1>8. QED BY <1>3, <1>4, <1>5, <1>6, <1>7 DEF IInv
-----------------------------------------------------------------------------
(* The rows of a group.                                                     *)
LEMMA WalkListsAll ==
  ASSUME NEW S, IsFiniteSet(S), NEW walk \in SetToSeqs(S)
  PROVE  /\ walk \in Seq(S) /\ Len(walk) \in Nat /\ DOMAIN walk = 1..Len(walk)
         /\ \A i, j \in 1..Len(walk) : walk[i] = walk[j] => i = j
         /\ \A t \in S : \E i \in 1..Len(walk) : walk[i] = t
<1> DEFINE n == Cardinality(S)
<1>1. n \in Nat BY FS_CardinalityType
<1>2. walk \in [1..n -> S] /\ \A i, j \in 1..n : i # j => walk[i] # walk[j] BY DEF SetToSeqs
<1> HIDE DEF n
<1>3. walk \in Seq(S) /\ Len(walk) = n /\ DOMAIN walk = 1..n
  <2>1. walk = [i \in 1..n |-> walk[i]] /\ \A i \in 1..n : walk[i] \in S BY <1>2
  <2>2. QED BY <1>1, <2>1, FunctionIsSequence
<1>4. walk \in Surjection(1..n, S)
  <2>1. walk \in Injection(1..n, S) BY <1>2 DEF Injection, IsInjective
  <2>2. IsFiniteSet(1..n) /\ Cardinality(1..n) = n BY <1>1, FS_Interval
  <2>3. QED BY <2>1, <2>2, FS_Injection DEF n
<1>5. \A t \in S : \E i \in 1..n : walk[i] = t BY <1>4 DEF Surjection
<1>6. QED BY <1>1, <1>2, <1>3, <1>5

Judging == {"ok", "missing_imports"}
Projected(t) ==
  IF work.reply.taint /\ work.reply.kind = "ok" /\ req.tool # "try_proof_step"
    THEN relabel_recycled_verdict(work.reply.verdicts[t]) ELSE work.reply.verdicts[t]

(* The row of a target, from a verdict the reply gives it, is honest.       *)
LEMMA RowIsHonest ==
  ASSUME req.tool \in {"verify_targets", "verify_declaration", "try_proof_step"},
         ReplyTrue(work.reply), work.heard = work.reply, work.source \in Contents,
         recycled \in BOOLEAN, Targets \subseteq TargetRecords, ProjectVerdicts \/ ProjectWholeBatch,
         NEW t \in Targets,
         NEW verdict, verdict = IF work.reply.kind \in Judging THEN Projected(t)
                                ELSE work.reply.verdicts[t],
         NEW r, r = Row(t, verdict), UNCHANGED req
  PROVE  r \in Rows /\ HonestRow(r)'
<1> DEFINE v == work.reply.verdicts[t]
           kind == work.reply.kind
           taint == work.reply.taint
           truth == work.source[t.name]
           trial == req.tool = "try_proof_step"
<1>1. t.id \in Nat \X Names \X Nat /\ t.order \in Nat /\ t.name \in Names BY DEF TargetRecords
<1>2. truth \in Verdicts BY <1>1, VerifyConstants
<1>3. /\ r.id = t.id /\ r.order = t.order /\ r.name = t.name /\ r.status = verdict
      /\ r.reply = kind /\ r.taint = taint /\ r.source = work.source
  BY DEF Row
<1>4. r = [id |-> t.id, order |-> t.order, name |-> t.name, status |-> verdict,
           reply |-> kind, taint |-> taint, source |-> work.source]
  BY DEF Row
<1>5. /\ kind \in Kinds /\ taint \in BOOLEAN
      /\ kind = "ok" => v = truth \/ (taint /\ v = Lost)
      /\ kind = "missing_imports" => v \in Uninformed
      /\ kind \notin Judging => v = kind
  BY DEF ReplyTrue, Judging
<1>6. verdict = IF kind \in Judging /\ taint /\ kind = "ok" /\ ~trial
                  THEN relabel_recycled_verdict(v) ELSE v
  BY DEF Projected, Judging
<1>7. Lost \in {"failed", "not_found"} /\ (~trial => Lost = "not_found") /\ (trial => Lost = "failed")
  BY DEF Lost
<1>16. Uninformed \subseteq {"verified", "not_found", "needs_build", "closed", "failed"}
  BY DEF Uninformed
<1>8. v \in Verdicts \cup Kinds
  BY <1>2, <1>5, <1>7, <1>16 DEF Verdicts, Judged, Kinds, Judging
<1>9. verdict \in Verdicts \cup Kinds \cup {"worker_recycled"}
  BY <1>6, <1>8 DEF relabel_recycled_verdict
<1>10. v # "worker_recycled" BY <1>8 DEF Verdicts, Judged, Kinds
<1>11. kind = "ok" /\ taint /\ (trial \/ verdict # v) => recycled'
  <2>1. SUFFICES ASSUME kind = "ok", taint, trial \/ verdict # v PROVE recycled' OBVIOUS
  <2>2. ProjectVerdicts BY <2>1 DEF ProjectWholeBatch
  <2> DEFINE projected == [u \in Targets |-> IF taint /\ kind = "ok" /\ ~trial
                             THEN relabel_recycled_verdict(work.reply.verdicts[u])
                             ELSE work.reply.verdicts[u]]
  <2>3. recycled' = (recycled \/ (taint /\ (trial \/ projected # work.reply.verdicts)))
    BY <2>2 DEF ProjectVerdicts
  <2>4. projected[t] = verdict BY <1>6, <2>1 DEF Judging
  <2>5. trial \/ projected # work.reply.verdicts BY <2>1, <2>4
  <2> HIDE DEF projected
  <2>6. QED BY <2>1, <2>3, <2>5
<1>17. kind = "missing_imports" => build_causes' # {}
  BY DEF ProjectVerdicts, ProjectWholeBatch
<1>12. r \in Rows
  <2>1. work.source \in Contents OBVIOUS
  <2> HIDE DEF v, kind, taint, truth, trial
  <2>2. QED BY <1>1, <1>4, <1>5, <1>9, <2>1 DEF Rows
<1>13. /\ verdict \in {"verified", "closed"} =>
            truth = verdict \/ (kind = "missing_imports" /\ build_causes' # {})
       /\ verdict = "worker_recycled" => taint /\ recycled'
       /\ (taint /\ kind = "ok" /\ verdict # truth) =>
            recycled' /\ (~trial => verdict = "worker_recycled")
  <2> HIDE DEF v, kind, taint, truth, trial
  <2>1. CASE kind = "ok" /\ taint /\ ~trial
    <3>1. verdict = relabel_recycled_verdict(v) BY <1>6, <2>1 DEF Judging
    <3>2. CASE verdict_is_non_positive(v)
      <4>1. verdict = "worker_recycled" BY <3>1, <3>2 DEF relabel_recycled_verdict
      <4>2. QED BY <1>10, <1>11, <2>1, <4>1
    <3>3. CASE ~verdict_is_non_positive(v)
      <4>1. verdict = v /\ v # "not_found" BY <3>1, <3>3 DEF relabel_recycled_verdict, verdict_is_non_positive
      <4>2. v = truth BY <1>5, <1>7, <2>1, <4>1
      <4>3. QED BY <1>10, <4>1, <4>2
    <3>4. QED BY <3>2, <3>3
  <2>2. CASE kind = "ok" /\ ~(taint /\ ~trial)
    <3>1. verdict = v BY <1>6, <2>2
    <3>2. v = truth \/ (taint /\ v = Lost) BY <1>5, <2>2
    <3>3. taint => trial /\ recycled' BY <1>11, <2>2
    <3>4. QED BY <1>7, <1>10, <2>2, <3>1, <3>2, <3>3
  <2>3. CASE kind # "ok"
    <3>1. verdict = v BY <1>6, <2>3
    <3>2. CASE kind = "missing_imports" BY <1>10, <1>17, <3>1, <3>2
    <3>3. CASE kind # "missing_imports"
      <4>1. v \in Kinds BY <1>5, <2>3, <3>3 DEF Kinds, Judging
      <4>2. verdict \notin {"verified", "closed", "worker_recycled"} BY <3>1, <4>1 DEF Kinds
      <4>3. QED BY <2>3, <4>2
    <3>4. QED BY <3>2, <3>3
  <2>4. QED BY <2>1, <2>2, <2>3
<1>14. HonestRow(r)' BY <1>3, <1>13 DEF HonestRow
<1>15. QED BY <1>12, <1>14

LEMMA ProjectKeeps == ASSUME IInv, ProjectGroup PROVE IInv'
<1>1. /\ StateShape /\ Totals /\ Covered /\ ReplyInHand /\ RowsInv BY DEF IInv
<1>2. /\ pc = "project" /\ pc' = "group" /\ group' = group + 1 /\ work' = NoWork
      /\ UNCHANGED <<disk, index, req, exp, inventories, warned>>
      /\ ProjectVerdicts \/ ProjectWholeBatch
  BY DEF ProjectGroup
<1>3. /\ req \in Requests /\ group \in Nat \ {0} /\ group \in DOMAIN exp.groups
      /\ work.source \in Contents /\ recycled \in BOOLEAN
      /\ disk \in [Files -> Held] /\ index \in [Files -> Held]
  BY <1>1, <1>2 DEF StateShape
<1>4. work.heard = work.reply /\ ReplyTrue(work.reply) BY <1>1, <1>2 DEF ReplyInHand
<1>5. /\ ExpansionShape(exp) /\ Apart(exp.groups) /\ IsFiniteSet(AllTargets(exp.groups))
      /\ Len(exp.groups) \in Nat /\ DOMAIN exp.groups = 1..Len(exp.groups)
      /\ Targets \subseteq TargetRecords
  BY <1>1, <1>3, GroupsListed DEF Totals, ExpansionShape, Targets, Group
<1>6. req.tool \in {"verify_targets", "verify_declaration", "try_proof_step"}
  <2>1. \A A, B, C : \A r \in [tool : A, retry : B, targets : C] : r.tool \in A OBVIOUS
  <2>2. QED BY <1>3, <2>1, VerifyConstants
<1>7. recycled' \in BOOLEAN /\ (recycled => recycled') /\ build_causes \subseteq build_causes'
  <2>1. CASE ProjectVerdicts
    <3> DEFINE reply == work.reply
               relabels == reply.taint /\ reply.kind = "ok" /\ req.tool # "try_proof_step"
               projected == [t \in Targets |-> IF relabels
                      THEN relabel_recycled_verdict(reply.verdicts[t]) ELSE reply.verdicts[t]]
               lost == reply.taint /\ (req.tool = "try_proof_step" \/ projected # reply.verdicts)
    <3>1. recycled' = (recycled \/ lost) BY <2>1 DEF ProjectVerdicts
    <3>2. (recycled \/ lost) \in BOOLEAN OBVIOUS
    <3>3. build_causes \subseteq build_causes' BY <2>1 DEF ProjectVerdicts
    <3> HIDE DEF lost
    <3>4. recycled' \in BOOLEAN /\ (recycled => recycled') BY <3>1, <3>2, Zenon
    <3>5. QED BY <3>3, <3>4
  <2>2. CASE ProjectWholeBatch
    <3> DEFINE lost == work.reply.taint /\ req.tool = "try_proof_step"
    <3>1. recycled' = (recycled \/ lost) BY <2>2 DEF ProjectWholeBatch
    <3>2. (recycled \/ lost) \in BOOLEAN OBVIOUS
    <3>3. build_causes \subseteq build_causes' BY <2>2 DEF ProjectWholeBatch
    <3> HIDE DEF lost
    <3>4. recycled' \in BOOLEAN /\ (recycled => recycled') BY <3>1, <3>2, Zenon
    <3>5. QED BY <3>3, <3>4
  <2>3. QED BY <1>2, <2>1, <2>2
<1>8. PICK kept \in SUBSET Targets : \E verdicts :
        /\ AddRows(kept, verdicts) /\ (Batched => kept = Targets)
        /\ \A t \in kept : verdicts[t] = IF work.reply.kind \in Judging THEN Projected(t)
                                         ELSE work.reply.verdicts[t]
  <2>1. CASE ProjectVerdicts
    <3> DEFINE reply == work.reply
               relabels == reply.taint /\ reply.kind = "ok" /\ req.tool # "try_proof_step"
               projected == [t \in Targets |-> IF relabels
                      THEN relabel_recycled_verdict(reply.verdicts[t]) ELSE reply.verdicts[t]]
    <3>1. AddRows(Targets, projected) /\ reply.kind \in Judging
      BY <2>1 DEF ProjectVerdicts, Judging
    <3>2. \A t \in Targets : projected[t] = Projected(t) BY DEF Projected
    <3> HIDE DEF projected
    <3>3. Targets \in SUBSET Targets OBVIOUS
    <3>4. QED BY <3>1, <3>2, <3>3
  <2>2. CASE ProjectWholeBatch
    <3> DEFINE kept == IF req.tool = "try_proof_step" THEN {} ELSE Targets
    <3>1. AddRows(kept, work.reply.verdicts) /\ work.reply.kind \notin Judging
      BY <2>2 DEF ProjectWholeBatch, Judging
    <3>2. kept \in SUBSET Targets /\ (Batched => kept = Targets) BY DEF Batched
    <3> HIDE DEF kept
    <3>3. QED BY <3>1, <3>2
  <2>3. QED BY <1>2, <2>1, <2>2
<1>9. PICK verdicts :
        /\ AddRows(kept, verdicts) /\ (Batched => kept = Targets)
        /\ \A t \in kept : verdicts[t] = IF work.reply.kind \in Judging THEN Projected(t)
                                         ELSE work.reply.verdicts[t]
  BY <1>8
<1>10. PICK walk \in SetToSeqs(kept) :
         rows' = rows \o [i \in DOMAIN walk |-> Row(walk[i], verdicts[walk[i]])]
  BY <1>9 DEF AddRows
<1>11. IsFiniteSet(kept)
  <2>1. Targets \subseteq AllTargets(exp.groups) BY <1>3 DEF AllTargets, Targets, Group
  <2>2. kept \in SUBSET AllTargets(exp.groups) BY <2>1
  <2>3. QED BY <1>5, <2>2, FS_Subset
<1>12. /\ Len(walk) \in Nat /\ DOMAIN walk = 1..Len(walk) /\ \A i \in 1..Len(walk) : walk[i] \in kept
       /\ \A i, j \in 1..Len(walk) : walk[i] = walk[j] => i = j
       /\ \A t \in kept : \E i \in 1..Len(walk) : walk[i] = t
  <2>1. walk \in Seq(kept) BY <1>11, WalkListsAll
  <2>2. QED BY <1>11, <2>1, WalkListsAll, PlacesOfSequence
<1> DEFINE new == [i \in 1..Len(walk) |-> Row(walk[i], verdicts[walk[i]])]
           Honest == {r \in Rows : HonestRow(r)}
           HonestNow == {r \in Rows : HonestRow(r)'}
<1>13. rows' = rows \o new BY <1>10, <1>12
<1>14. \A i \in 1..Len(walk) : /\ new[i] = Row(walk[i], verdicts[walk[i]])
                               /\ new[i] \in HonestNow /\ RowOf(new[i], walk[i])
  <2>1. TAKE i \in 1..Len(walk)
  <2>2. walk[i] \in Targets BY <1>12
  <2>3. PICK r : r = Row(walk[i], verdicts[walk[i]]) OBVIOUS
  <2>4. PICK v : v = verdicts[walk[i]] OBVIOUS
  <2>5. v = IF work.reply.kind \in Judging THEN Projected(walk[i]) ELSE work.reply.verdicts[walk[i]]
    BY <1>9, <1>12, <2>4
  <2>6. r = Row(walk[i], v) BY <2>3, <2>4
  <2>7. r \in Rows /\ HonestRow(r)'
    BY <1>2, <1>3, <1>4, <1>5, <1>6, <2>2, <2>5, <2>6, RowIsHonest
  <2>8. RowOf(r, walk[i]) BY <2>3 DEF RowOf, Row
  <2>9. new[i] = r BY <2>3
  <2>10. QED BY <2>3, <2>7, <2>8, <2>9
<1> HIDE DEF new
<1>15. rows \in Seq(Honest) BY <1>1 DEF RowsInv
<1>16. Honest \subseteq HonestNow
  <2>1. SUFFICES ASSUME NEW r \in Rows, HonestRow(r) PROVE HonestRow(r)' OBVIOUS
  <2>2. QED BY <1>2, <1>7, <2>1 DEF HonestRow
<1> HIDE DEF Honest, HonestNow
<1>17. rows \in Seq(HonestNow)
  <2>1. \A S, T : S \subseteq T => Seq(S) \subseteq Seq(T) OBVIOUS
  <2>2. QED BY <1>15, <1>16, <2>1
<1>18. new \in Seq(HonestNow) /\ Len(new) = Len(walk)
  <2>1. new = [i \in 1..Len(walk) |-> new[i]] BY DEF new
  <2>2. QED BY <1>12, <1>14, <2>1, FunctionIsSequence
<1>19. /\ rows' \in Seq(HonestNow) /\ Len(rows') = Len(rows) + Len(walk) /\ Len(rows) \in Nat
       /\ \A i \in 1..Len(rows) : i \in 1..Len(rows') /\ rows'[i] = rows[i]
       /\ \A i \in 1..Len(walk) : Len(rows) + i \in 1..Len(rows') /\ rows'[Len(rows) + i] = new[i]
       /\ \A i \in 1..Len(rows') :
            i \in 1..Len(rows) \/ (i - Len(rows) \in 1..Len(walk) /\ rows'[i] = new[i - Len(rows)])
  <2> DEFINE both == rows \o new
  <2>1. /\ both \in Seq(HonestNow) /\ Len(both) = Len(rows) + Len(new)
        /\ \A i \in 1..Len(rows) : i \in 1..Len(both) /\ both[i] = rows[i]
        /\ \A i \in 1..Len(new) : Len(rows) + i \in 1..Len(both) /\ both[Len(rows) + i] = new[i]
        /\ \A i \in 1..Len(both) :
             i \in 1..Len(rows) \/ (i - Len(rows) \in 1..Len(new) /\ both[i] = new[i - Len(rows)])
    <3>1. PICK T, s, t : T = HonestNow /\ s = rows /\ t = new OBVIOUS
    <3>2. s \in Seq(T) /\ t \in Seq(T) BY <1>17, <1>18, <3>1
    <3>3. s \o t = both BY <3>1
    <3>4. /\ s \o t \in Seq(T) /\ Len(s \o t) = Len(s) + Len(t)
          /\ \A i \in 1..Len(s) : i \in 1..Len(s \o t) /\ (s \o t)[i] = s[i]
          /\ \A i \in 1..Len(t) : Len(s) + i \in 1..Len(s \o t) /\ (s \o t)[Len(s) + i] = t[i]
          /\ \A i \in 1..Len(s \o t) :
               i \in 1..Len(s) \/ (i - Len(s) \in 1..Len(t) /\ (s \o t)[i] = t[i - Len(s)])
      BY <3>2, JoinedSequence
    <3> HIDE DEF both
    <3>5. QED BY <3>1, <3>3, <3>4
  <2>2. Len(rows) \in Nat BY <1>17, PlacesOfSequence
  <2>3. rows' = both BY <1>13
  <2> HIDE DEF both
  <2>4. QED BY <1>18, <2>1, <2>2, <2>3
<1>20. StateShape'
  <2>1. pc' \in Stages BY <1>2 DEF Stages
  <2>2. /\ (disk \in [Files -> Held])' /\ (index \in [Files -> Held])'
        /\ req' \in Requests /\ group' \in Nat \ {0}
    BY <1>2, <1>3 DEF Held, Absent
  <2>3. QED BY <1>2, <1>7, <2>1, <2>2 DEF StateShape
<1>21. Totals'
  <2>1. /\ pc' \notin {"idle", "expand"} /\ pc \in Verifying /\ UNCHANGED <<exp, req>>
    BY <1>2 DEF Verifying
  <2>2. QED BY <1>1, <2>1, TotalsKeep
<1>22. Covered' BY <1>1, <1>2, CoveredKeep
<1>23. ReplyInHand' BY <1>2 DEF ReplyInHand
<1>24. ASSUME Batched PROVE RowsOfTargets'
  <2>1. RowsOfTargets
    <3>1. pc \in Verifying BY <1>2 DEF Verifying
    <3>2. QED BY <1>1, <1>24, <3>1 DEF RowsInv
  <2>2. kept = Targets BY <1>9, <1>24
  <2>3. \A t : Done(t)' <=> Done(t) \/ t \in Targets
    <3>1. \A g \in 1..Len(exp.groups) : g < group + 1 <=> g < group \/ g = group BY <1>3, <1>5
    <3>2. Targets = exp.groups[group].targets BY DEF Targets, Group
    <3>3. exp' = exp /\ group' = group + 1 BY <1>2
    <3>4. QED BY <1>3, <1>5, <3>1, <3>2, <3>3 DEF Done
  <2>4. ASSUME NEW t, Done(t), NEW u \in Targets PROVE t.order # u.order
    <3>1. PICK g \in DOMAIN exp.groups : g < group /\ t \in exp.groups[g].targets BY <2>4 DEF Done
    <3>2. g # group BY <1>3, <1>5, <3>1
    <3>3. u \in exp.groups[group].targets BY DEF Targets, Group
    <3>4. QED BY <1>3, <1>5, <3>1, <3>2, <3>3 DEF Apart
  <2>5. \A t, u \in Targets : t.order = u.order => t = u
    BY <1>3, <1>5 DEF Apart, Targets, Group
  <2>6. \A i \in 1..Len(rows') : \E t : Done(t)' /\ RowOf(rows'[i], t)
    <3>1. TAKE i \in 1..Len(rows')
    <3>2. CASE i \in 1..Len(rows)
      <4>1. PICK t : Done(t) /\ RowOf(rows[i], t) BY <2>1, <3>2 DEF RowsOfTargets
      <4>2. QED BY <1>19, <2>3, <3>2, <4>1
    <3>3. CASE i - Len(rows) \in 1..Len(walk) /\ rows'[i] = new[i - Len(rows)]
      <4>1. RowOf(rows'[i], walk[i - Len(rows)]) /\ walk[i - Len(rows)] \in Targets
        BY <1>12, <1>14, <3>3
      <4>2. QED BY <2>3, <4>1
    <3>4. QED BY <1>19, <3>2, <3>3
  <2>7. \A t : Done(t)' => \E i \in 1..Len(rows') : RowOf(rows'[i], t)
    <3>1. SUFFICES ASSUME NEW t, Done(t)' PROVE \E i \in 1..Len(rows') : RowOf(rows'[i], t)
      OBVIOUS
    <3>2. CASE Done(t)
      <4>1. PICK i \in 1..Len(rows) : RowOf(rows[i], t) BY <2>1, <3>2 DEF RowsOfTargets
      <4>2. QED BY <1>19, <4>1
    <3>3. CASE t \in Targets
      <4>1. PICK i \in 1..Len(walk) : walk[i] = t BY <1>12, <2>2, <3>3
      <4>2. RowOf(new[i], t) BY <1>14, <4>1
      <4>3. QED BY <1>19, <4>2
    <3>4. QED BY <2>3, <3>1, <3>2, <3>3
  <2>8. \A i, j \in 1..Len(rows') : rows'[i].order = rows'[j].order => i = j
    <3>1. ASSUME NEW i \in 1..Len(rows), NEW j \in 1..Len(rows'),
                 rows'[i].order = rows'[j].order
          PROVE  i = j
      <4>1. rows'[i] = rows[i] BY <1>19
      <4>2. CASE j \in 1..Len(rows)
        <5>1. rows'[j] = rows[j] BY <1>19, <4>2
        <5>2. QED BY <2>1, <3>1, <4>1, <4>2, <5>1 DEF RowsOfTargets
      <4>3. CASE j - Len(rows) \in 1..Len(walk) /\ rows'[j] = new[j - Len(rows)]
        <5>1. PICK t : Done(t) /\ RowOf(rows[i], t) BY <2>1 DEF RowsOfTargets
        <5>2. RowOf(rows'[j], walk[j - Len(rows)]) /\ walk[j - Len(rows)] \in Targets
          BY <1>12, <1>14, <4>3
        <5>3. t.order = walk[j - Len(rows)].order BY <3>1, <4>1, <5>1, <5>2 DEF RowOf
        <5>4. QED BY <2>4, <5>1, <5>2, <5>3
      <4>4. QED BY <1>19, <4>2, <4>3
    <3>2. ASSUME NEW i \in 1..Len(rows'), NEW j \in 1..Len(rows'),
                 rows'[i].order = rows'[j].order,
                 i - Len(rows) \in 1..Len(walk) /\ rows'[i] = new[i - Len(rows)],
                 j - Len(rows) \in 1..Len(walk) /\ rows'[j] = new[j - Len(rows)]
          PROVE  i = j
      <4> DEFINE k == i - Len(rows)
                 l == j - Len(rows)
      <4>1. k \in 1..Len(walk) /\ l \in 1..Len(walk) /\ (k = l => i = j) BY <1>19, <3>2
      <4>2. rows'[i] = new[k] /\ rows'[j] = new[l] BY <3>2
      <4> HIDE DEF k, l
      <4>3. walk[k].order = walk[l].order BY <1>14, <3>2, <4>1, <4>2 DEF RowOf
      <4>4. walk[k] = walk[l] BY <1>12, <2>5, <4>1, <4>3
      <4>5. QED BY <1>12, <4>1, <4>4
    <3>3. QED BY <1>19, <3>1, <3>2
  <2>9. QED BY <2>6, <2>7, <2>8 DEF RowsOfTargets
<1>25. RowsInv'
  <2>1. Batched' = Batched BY <1>2 DEF Batched
  <2>2. (rows \in Seq({r \in Rows : HonestRow(r)}))' BY <1>19 DEF HonestNow, Rows
  <2>3. pc' # "answered" BY <1>2
  <2>4. QED BY <1>24, <2>1, <2>2, <2>3 DEF RowsInv
<1>26. QED BY <1>20, <1>21, <1>22, <1>23, <1>25 DEF IInv

LEMMA FinishKeeps == ASSUME IInv, Finish PROVE IInv'
<1>1. /\ StateShape /\ Totals /\ Covered /\ ReplyInHand /\ RowsInv BY DEF IInv
<1>2. /\ pc = "finish" /\ pc' = "answered" /\ rows' \in InRequestOrder(rows)
      /\ warned \subseteq warned' /\ (recycled => "taint" \in warned')
      /\ build_causes # {} => "needs_build" \in warned'
      /\ UNCHANGED <<disk, index, req, exp, inventories, group, work, recycled, build_causes>>
  BY DEF Finish
<1>3. /\ req \in Requests /\ group \in Nat \ {0} /\ recycled \in BOOLEAN
      /\ disk \in [Files -> Held] /\ index \in [Files -> Held]
      /\ Batched => group > Len(exp.groups)
  BY <1>1, <1>2 DEF StateShape
<1> DEFINE Honest == {r \in Rows : HonestRow(r)}
           n == Len(rows)
<1>4. rows \in Seq(Honest) BY <1>1 DEF RowsInv
<1> HIDE DEF Honest
<1>5. n \in Nat /\ DOMAIN rows = 1..n /\ \A i \in 1..n : rows[i] \in Honest
  BY <1>4, PlacesOfSequence
<1> HIDE DEF n
<1>6. PICK p \in Bijection(1..n, 1..n) :
        /\ rows' = [i \in 1..n |-> rows[p[i]]]
        /\ \A i, j \in DOMAIN rows' : i < j => rows'[i].order <= rows'[j].order
  BY <1>2, <1>5 DEF InRequestOrder
<1>7. /\ \A i \in 1..n : p[i] \in 1..n
      /\ \A i, j \in 1..n : p[i] = p[j] => i = j
      /\ \A k \in 1..n : \E i \in 1..n : p[i] = k
  BY DEF Bijection, Injection, Surjection, IsInjective
<1>8. \A i \in 1..n : rows'[i] = rows[p[i]] /\ rows'[i] \in Honest BY <1>5, <1>6, <1>7
<1>9. rows' \in Seq(Honest) /\ Len(rows') = n /\ DOMAIN rows' = 1..n
  <2>1. rows' = [i \in 1..n |-> rows'[i]] BY <1>6
  <2>2. PICK f : f = rows' OBVIOUS
  <2>3. f = [i \in 1..n |-> f[i]] /\ \A i \in 1..n : f[i] \in Honest BY <1>8, <2>1, <2>2
  <2>4. f \in Seq(Honest) /\ Len(f) = n /\ DOMAIN f = 1..n BY <1>5, <2>3, FunctionIsSequence
  <2>5. QED BY <2>2, <2>4
<1>10. StateShape'
  <2>1. pc' \in Stages BY <1>2 DEF Stages
  <2>2. /\ (disk \in [Files -> Held])' /\ (index \in [Files -> Held])'
        /\ req' \in Requests /\ group' \in Nat \ {0} /\ Batched' = Batched /\ exp' = exp
    BY <1>2, <1>3 DEF Held, Absent, Batched
  <2>3. recycled' \in BOOLEAN BY <1>2, <1>3
  <2>4. QED BY <1>2, <1>3, <2>1, <2>2, <2>3 DEF StateShape
<1>11. Totals'
  <2>1. /\ pc' \notin {"idle", "expand"} /\ pc \in Verifying /\ UNCHANGED <<exp, req>>
    BY <1>2 DEF Verifying
  <2>2. QED BY <1>1, <2>1, TotalsKeep
<1>12. Covered' BY <1>1, <1>2, CoveredKeep
<1>13. ReplyInHand' BY <1>1, <1>2 DEF ReplyInHand
<1>14. ASSUME Batched PROVE RowsOfTargets'
  <2>1. RowsOfTargets
    <3>1. pc \in Verifying BY <1>2 DEF Verifying
    <3>2. QED BY <1>1, <1>14, <3>1 DEF RowsInv
  <2>2. \A t : Done(t)' <=> Done(t)
    <3>1. exp' = exp /\ group' = group BY <1>2
    <3>2. QED BY <3>1 DEF Done
  <2>3. /\ \A i \in 1..n : \E t : Done(t) /\ RowOf(rows[i], t)
        /\ \A t : Done(t) => \E i \in 1..n : RowOf(rows[i], t)
        /\ \A i, j \in 1..n : rows[i].order = rows[j].order => i = j
    BY <2>1 DEF RowsOfTargets, n
  <2>4. \A i \in 1..n : \E t : Done(t) /\ RowOf(rows'[i], t) BY <1>7, <1>8, <2>3
  <2>5. \A t : Done(t) => \E i \in 1..n : RowOf(rows'[i], t)
    <3>1. SUFFICES ASSUME NEW t, Done(t) PROVE \E i \in 1..n : RowOf(rows'[i], t) OBVIOUS
    <3>2. PICK k \in 1..n : RowOf(rows[k], t) BY <2>3, <3>1
    <3>3. PICK i \in 1..n : p[i] = k BY <1>7
    <3>4. rows'[i] = rows[k] BY <1>8, <3>3
    <3>5. QED BY <3>2, <3>4
  <2>6. \A i, j \in 1..n : rows'[i].order = rows'[j].order => i = j
    <3>1. SUFFICES ASSUME NEW i \in 1..n, NEW j \in 1..n, rows'[i].order = rows'[j].order
                   PROVE  i = j
      OBVIOUS
    <3>2. p[i] \in 1..n /\ p[j] \in 1..n /\ (p[i] = p[j] => i = j) BY <1>7
    <3>3. rows[p[i]].order = rows[p[j]].order BY <1>8, <3>1
    <3>4. p[i] = p[j] BY <2>3, <3>2, <3>3
    <3>5. QED BY <3>2, <3>4
  <2>7. QED BY <1>9, <2>2, <2>4, <2>5, <2>6 DEF RowsOfTargets
<1>15. RowsInv'
  <2>1. Batched' = Batched /\ \A r : HonestRow(r)' = HonestRow(r) BY <1>2 DEF Batched, HonestRow
  <2>2. (rows \in Seq({r \in Rows : HonestRow(r)}))' BY <1>9, <2>1 DEF Honest, Rows
  <2>3. \A i, j \in 1..Len(rows') : i < j => rows'[i].order <= rows'[j].order BY <1>6, <1>9
  <2>4. QED BY <1>14, <2>1, <2>2, <2>3 DEF RowsInv
<1>16. QED BY <1>10, <1>11, <1>12, <1>13, <1>15 DEF IInv

LEMMA StutterKeeps == ASSUME IInv, UNCHANGED vars PROVE IInv'
<1>1. /\ StateShape /\ Totals /\ Covered /\ ReplyInHand /\ RowsInv BY DEF IInv
<1>2. /\ UNCHANGED <<disk, index, pc, req, exp, inventories, group, work>>
      /\ UNCHANGED <<rows, recycled, build_causes, warned>>
  BY DEF vars, callVars
<1>3. StateShape' BY <1>1, <1>2 DEF StateShape, Batched, Held, Absent
<1>4. Totals' BY <1>1, <1>2, TotalsKeep
<1>5. Covered' BY <1>1, <1>2, CoveredKeep
<1>6. ReplyInHand' BY <1>1, <1>2 DEF ReplyInHand, ReplyTrue, Targets, Group, Lost, Uninformed
<1>7. RowsInv' BY <1>1, <1>2, RowsKeep
<1>8. QED BY <1>3, <1>4, <1>5, <1>6, <1>7 DEF IInv

THEOREM InvariantHolds == Spec => []IInv
<1>1. Init => IInv BY InitHolds
<1>2. IInv /\ [Next]_vars => IInv'
  <2>1. SUFFICES ASSUME IInv, [Next]_vars PROVE IInv' OBVIOUS
  <2>2. CASE UNCHANGED vars BY <2>1, <2>2, StutterKeeps
  <2>3. CASE EditFile BY <2>1, <2>3, EditKeeps
  <2>4. CASE BeginCall BY <2>1, <2>4, BeginKeeps
  <2>5. CASE ExpandExplicit BY <2>1, <2>5, ExplicitKeeps
  <2>6. CASE ExpandInventory BY <2>1, <2>6, InventoryKeeps
  <2>7. CASE FinishExpansion BY <2>1, <2>7, FinishExpansionKeeps
  <2>8. CASE NextGroup BY <2>1, <2>8, NextGroupKeeps
  <2>9. CASE PrepareGroup BY <2>1, <2>9, PrepareKeeps
  <2>10. CASE CallWorker BY <2>1, <2>10, CallKeeps
  <2>11. CASE CallFails BY <2>1, <2>11, FailureKeeps
  <2>12. CASE ProjectGroup BY <2>1, <2>12, ProjectKeeps
  <2>13. CASE Finish BY <2>1, <2>13, FinishKeeps
  <2>14. CASE Return BY <2>1, <2>14, ReturnKeeps
  <2>15. QED BY <2>1, <2>2, <2>3, <2>4, <2>5, <2>6, <2>7, <2>8, <2>9, <2>10, <2>11, <2>12,
                <2>13, <2>14 DEF Next
<1>3. QED BY <1>1, <1>2, PTL DEF Spec
-----------------------------------------------------------------------------
(* What the answers promise.                                                *)

(* RowsAreHonest: every row of an answer says what its source deserves, and *)
(* a verdict a recycle took away is relabelled and warned about.           *)
THEOREM EveryRowIsHonest == Spec => []RowsAreHonest
<1>1. IInv => RowsAreHonest
  <2>1. SUFFICES ASSUME IInv, Answered, NEW i \in DOMAIN rows
                 PROVE  LET r == rows[i] IN
                   /\ r.status \in {"verified", "closed"} =>
                        \/ r.source[r.name] = r.status
                        \/ r.reply = "missing_imports" /\ "needs_build" \in warned
                   /\ r.status = "worker_recycled" => r.taint /\ "taint" \in warned
                   /\ (r.taint /\ r.reply = "ok" /\ r.status # r.source[r.name]) =>
                        "taint" \in warned
                        /\ (req.tool # "try_proof_step" => r.status = "worker_recycled")
    BY DEF RowsAreHonest
  <2>2. StateShape /\ RowsInv /\ pc = "answered" BY <2>1 DEF IInv, Answered
  <2>3. /\ recycled => "taint" \in warned
        /\ build_causes # {} => "needs_build" \in warned
    BY <2>2 DEF StateShape
  <2>4. rows[i] \in {r \in Rows : HonestRow(r)} BY <2>1, <2>2, PlacesOfSequence DEF RowsInv
  <2>5. HonestRow(rows[i]) BY <2>4
  <2>6. QED BY <2>3, <2>5 DEF HonestRow
<1>2. QED BY <1>1, InvariantHolds, PTL

(* Once every group is done the rows are one for each target.               *)
LEMMA RowsCountTargets ==
  ASSUME IInv, Answered, Batched
  PROVE  /\ DOMAIN rows = 1..Len(rows) /\ Len(rows) \in Nat
         /\ Len(rows) = Cardinality(AllTargets(exp.groups))
         /\ \A i \in 1..Len(rows) : \E t \in AllTargets(exp.groups) : RowOf(rows[i], t)
         /\ \A t \in AllTargets(exp.groups) : \E i \in 1..Len(rows) : RowOf(rows[i], t)
         /\ \A i, j \in 1..Len(rows) : rows[i].order = rows[j].order => i = j
<1>1. /\ StateShape /\ Totals /\ RowsInv /\ pc = "answered" BY DEF IInv, Answered
<1>2. group > Len(exp.groups) /\ group \in Nat BY <1>1 DEF StateShape
<1>3. /\ ExpansionShape(exp) /\ Apart(exp.groups) /\ IsFiniteSet(AllTargets(exp.groups))
      /\ Len(exp.groups) \in Nat /\ DOMAIN exp.groups = 1..Len(exp.groups)
  BY <1>1, GroupsListed DEF Totals, ExpansionShape
<1>4. RowsOfTargets /\ rows \in Seq({r \in Rows : HonestRow(r)})
  BY <1>1 DEF RowsInv, Verifying
<1> DEFINE n == Len(rows)
           all == AllTargets(exp.groups)
<1>5. n \in Nat /\ DOMAIN rows = 1..n BY <1>4, PlacesOfSequence
<1>6. \A t : Done(t) <=> t \in all
  <2>1. \A g \in 1..Len(exp.groups) : g < group BY <1>2, <1>3
  <2>2. QED BY <1>3, <2>1 DEF Done, AllTargets
<1> HIDE DEF n, all
<1>7. /\ \A i \in 1..n : \E t \in all : RowOf(rows[i], t)
      /\ \A t \in all : \E i \in 1..n : RowOf(rows[i], t)
      /\ \A i, j \in 1..n : rows[i].order = rows[j].order => i = j
  BY <1>4, <1>6 DEF RowsOfTargets, n
<1>8. n = Cardinality(all)
  <2> DEFINE row == [t \in all |-> CHOOSE i \in 1..n : RowOf(rows[i], t)]
  <2>1. \A t \in all : row[t] \in 1..n /\ RowOf(rows[row[t]], t) BY <1>7
  <2>2. row \in [all -> 1..n] BY <2>1
  <2> HIDE DEF row
  <2>3. \A t, u \in all : row[t] = row[u] => t = u
    <3>1. \A t, u \in all : t.order = u.order => t = u BY <1>3 DEF Apart, AllTargets, all
    <3>2. QED BY <2>1, <3>1 DEF RowOf
  <2>4. \A i \in 1..n : \E t \in all : row[t] = i
    <3>1. TAKE i \in 1..n
    <3>2. PICK t \in all : RowOf(rows[i], t) BY <1>7
    <3>3. rows[row[t]].order = rows[i].order BY <2>1, <3>2 DEF RowOf
    <3>4. QED BY <1>7, <2>1, <3>3
  <2>5. row \in Bijection(all, 1..n)
    BY <2>2, <2>3, <2>4 DEF Bijection, Injection, Surjection, IsInjective
  <2>6. ExistsBijection(all, 1..n) BY <2>5 DEF ExistsBijection
  <2>7. IsFiniteSet(1..n) /\ Cardinality(1..n) = n BY <1>5, FS_Interval
  <2>8. IsFiniteSet(all) BY <1>3 DEF all
  <2>9. Cardinality(all) = Cardinality(1..n) BY <2>6, <2>8, FS_Bijection
  <2>10. QED BY <2>7, <2>9
<1>9. QED BY <1>5, <1>7, <1>8 DEF n, all

(* RowsFollowRequest: the rows of a batch are those of its targets, one     *)
(* each, in the order of the request.                                      *)
THEOREM OneRowPerTarget == Spec => []RowsFollowRequest
<1>1. IInv => RowsFollowRequest
  <2>1. SUFFICES ASSUME IInv, Answered, Batched
                 PROVE  /\ \A i, j \in DOMAIN rows :
                             i < j => rows[i].order < rows[j].order /\ rows[i].id # rows[j].id
                        /\ Len(rows) <= MAX_VERIFY_TARGETS
                        /\ ~exp.truncated => Len(rows) = exp.requested
    BY DEF RowsFollowRequest
  <2>2. /\ Totals /\ RowsInv /\ pc = "answered" BY <2>1 DEF IInv, Answered
  <2>3. /\ DOMAIN rows = 1..Len(rows) /\ Len(rows) \in Nat
        /\ Len(rows) = Cardinality(AllTargets(exp.groups))
        /\ \A i \in 1..Len(rows) : \E t \in AllTargets(exp.groups) : RowOf(rows[i], t)
        /\ \A i, j \in 1..Len(rows) : rows[i].order = rows[j].order => i = j
    BY <2>1, RowsCountTargets
  <2>4. Cardinality(AllTargets(exp.groups)) <= MAX_VERIFY_TARGETS
    BY <2>1, <2>2 DEF Totals, Verifying
  <2>5. ~exp.truncated => Cardinality(AllTargets(exp.groups)) = exp.requested
    BY <2>2 DEF Totals, Counted
  <2>6. ASSUME NEW i \in 1..Len(rows), NEW j \in 1..Len(rows), i < j
        PROVE  rows[i].order < rows[j].order /\ rows[i].id # rows[j].id
    <3>1. rows[i].order <= rows[j].order BY <2>2, <2>6 DEF RowsInv
    <3>2. rows[i].order # rows[j].order BY <2>3, <2>6
    <3>3. PICK t \in AllTargets(exp.groups) : RowOf(rows[i], t) BY <2>3
    <3>4. PICK u \in AllTargets(exp.groups) : RowOf(rows[j], u) BY <2>3
    <3>5. Apart(exp.groups) BY <2>2 DEF Totals, ExpansionShape
    <3>6. t.id = u.id => t = u BY <3>5 DEF Apart, AllTargets
    <3>7. rows[i].id # rows[j].id BY <3>2, <3>3, <3>4, <3>6 DEF RowOf
    <3>8. rows[i].order \in Nat /\ rows[j].order \in Nat
      <4>1. \A r \in Rows : r.order \in Nat BY DEF Rows
      <4>2. rows \in Seq({r \in Rows : HonestRow(r)}) BY <2>2 DEF RowsInv
      <4>3. rows[i] \in Rows /\ rows[j] \in Rows BY <4>2, PlacesOfSequence
      <4>4. QED BY <4>1, <4>3
    <3>9. QED BY <3>1, <3>2, <3>7, <3>8
  <2>7. QED BY <2>3, <2>4, <2>5, <2>6
<1>2. QED BY <1>1, InvariantHolds, PTL

(* CoverageIsHonest: an answer that says all it was asked for is verified,  *)
(* and that nothing was cut, has verified every declaration its            *)
(* inventories found.                                                      *)
THEOREM CleanAnswersCover == Spec => []CoverageIsHonest
<1>1. IInv => CoverageIsHonest
  <2>1. SUFFICES ASSUME IInv, Answered, Batched, ~exp.truncated,
                        summarize_rows.verified = exp.requested,
                        NEW inv \in inventories, inv.healthy
                 PROVE  \/ inv.status \notin Usable /\ "inventory" \in warned
                        \/ inv.status = "needs_build" /\ "needs_build" \in warned
                        \/ \A n \in inv.found : \E i \in DOMAIN rows :
                             rows[i].id[1] = inv.group /\ rows[i].name = n
                             /\ rows[i].status = "verified"
    BY DEF CoverageIsHonest
  <2>2. /\ Totals /\ Covered /\ pc = "answered" BY <2>1 DEF IInv, Answered
  <2>3. /\ DOMAIN rows = 1..Len(rows) /\ Len(rows) \in Nat
        /\ Len(rows) = Cardinality(AllTargets(exp.groups))
        /\ \A t \in AllTargets(exp.groups) : \E i \in 1..Len(rows) : RowOf(rows[i], t)
    BY <2>1, RowsCountTargets
  <2>4. Len(rows) = exp.requested BY <2>1, <2>2, <2>3 DEF Totals, Counted
  <2>5. \A i \in 1..Len(rows) : rows[i].status = "verified"
    <3> DEFINE held == {i \in DOMAIN rows : rows[i].status = "verified"}
    <3>1. Cardinality(held) = Len(rows) BY <2>1, <2>4 DEF summarize_rows, Count
    <3>2. held \in SUBSET (1..Len(rows)) /\ \A i \in held : rows[i].status = "verified" BY <2>3
    <3> HIDE DEF held
    <3>3. IsFiniteSet(1..Len(rows)) /\ Cardinality(1..Len(rows)) = Len(rows) BY <2>3, FS_Interval
    <3>4. held = 1..Len(rows) BY <3>1, <3>2, <3>3, FS_Subset
    <3>5. QED BY <3>2, <3>4
  <2>6. CASE inv.status # "ok" BY <2>2, <2>6 DEF Covered, Usable
  <2>7. CASE inv.status = "ok"
    <3>1. ASSUME NEW n \in inv.found
          PROVE  \E i \in DOMAIN rows : rows[i].id[1] = inv.group /\ rows[i].name = n
                                        /\ rows[i].status = "verified"
      <4>1. PICK t \in AllTargets(exp.groups) : t.id[1] = inv.group /\ t.name = n
        BY <2>1, <2>2, <2>7 DEF Covered
      <4>2. PICK i \in 1..Len(rows) : RowOf(rows[i], t) BY <2>3
      <4>3. QED BY <2>3, <2>5, <4>1, <4>2 DEF RowOf
    <3>2. QED BY <3>1
  <2>8. QED BY <2>6, <2>7
<1>2. QED BY <1>1, InvariantHolds, PTL
=============================================================================
