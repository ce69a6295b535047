---------------------------- MODULE ProofSearch ----------------------------
(***************************************************************************)
(* Retrieval for a proof goal: which declaration searches are planned for  *)
(* a goal's profile, and how their rows and the semantic candidates are    *)
(* merged, scored, demoted and cut. A profile is what extract_heads,       *)
(* extract_constants and extract_name_fragments found in the goal's text.  *)
(* A reason is the set of words it is spelled with, so that "equals" and   *)
(* "contains" are told apart: {"conclusion_head"} is the label of a        *)
(* search, {"broad", "conclusion_head"} contains it, and so does the       *)
(* worker's own match_reason {"worker", "conclusion_head"}.                *)
(***************************************************************************)
EXTENDS Integers, Sequences, SequencesExt, FiniteSetsExt, Listing

CONSTANTS
  Decls,        \* [name, words, head, consts, bias, evidence]: a declaration; name
                \* is its place in name order, words the fragments it contains,
                \* bias what candidate_score adds whatever found it, evidence the
                \* families the semantic search explains it with
  MAX_SEARCHES, SEARCH_FANOUT, MAX_REQUIRED_CONSTANTS

ASSUME SearchConstants ==
  /\ {MAX_SEARCHES, SEARCH_FANOUT, MAX_REQUIRED_CONSTANTS} \subseteq Nat \ {0}
  /\ IsFiniteSet(Decls) /\ \A d \in Decls : d.name \in Nat /\ d.bias \in Nat
  /\ \A d, e \in Decls : d.name = e.name => d = e

FirstOf(s, limit) == SubSeq(s, 1, Min({Len(s), limit}))

NoHead == "none"
is_broad_head(h) == h \in {"Eq", "Iff", "Exists", "True"}

preferred_head(heads, mode) ==
  LET specific == SelectSeq(heads, LAMBDA h : ~is_broad_head(h))
  IN  IF mode = "rewrite" /\ Contains(heads, "Eq") THEN "Eq"
      ELSE IF mode = "rewrite" /\ Contains(heads, "Iff") THEN "Iff"
      ELSE IF specific # <<>> THEN specific[1]
      ELSE IF heads # <<>> THEN heads[1] ELSE NoHead
-----------------------------------------------------------------------------
HeadSearch(label, h) == [label |-> label, head |-> h, consts |-> {}, fragment |-> ""]
FragmentSearches(label, fragments) ==
  [i \in DOMAIN fragments |->
     [label |-> label, head |-> NoHead, consts |-> {}, fragment |-> fragments[i]]]
ConstantsSearch(consts) ==
  [label |-> {"required_constants"}, head |-> NoHead, consts |-> consts, fragment |-> ""]

(* plan_searches: for a direct step, the goal's preferred head and its      *)
(* first constants; then the goal's name fragments.                        *)
DirectSearches(profile, mode) ==
  LET head == preferred_head(profile.heads, mode)
      consts == Range(FirstOf(profile.consts, MAX_REQUIRED_CONSTANTS))
      tooBroad == mode = "next_step" /\ consts = {} /\ is_broad_head(head)
  IN  (IF head = NoHead \/ tooBroad THEN <<>>
       ELSE <<HeadSearch(IF is_broad_head(head) THEN {"broad", "conclusion_head"}
                                                ELSE {"conclusion_head"}, head)>>)
      \o (IF consts = {} THEN <<>> ELSE <<ConstantsSearch(consts)>>)
ModeSearches(profile, mode) ==
  LET head == preferred_head(profile.heads, mode)
  IN  CASE mode = "rewrite" ->
             <<HeadSearch({"rewrite_eq"}, "Eq"), HeadSearch({"rewrite_iff"}, "Iff")>>
               \o FragmentSearches({"mode_fragment"}, <<"rw", "rewrite">>)
        [] mode = "simp" ->
             FragmentSearches({"mode_fragment"}, <<"simp">>)
               \o (IF head = NoHead THEN <<>> ELSE <<HeadSearch({"simp_head"}, head)>>)
        [] OTHER -> DirectSearches(profile, mode)

(* dedupe_searches keeps the first of equal requests, up to MAX_SEARCHES.   *)
SameRequest(s, t) == s.head = t.head /\ s.consts = t.consts /\ s.fragment = t.fragment
plan_searches(profile, mode) ==
  LET all == ModeSearches(profile, mode) \o FragmentSearches({"name_fragment"}, profile.fragments)
      firsts == At(all, {i \in DOMAIN all : \A j \in 1..i - 1 : ~SameRequest(all[i], all[j])})
  IN  FirstOf(firsts, MAX_SEARCHES)
-----------------------------------------------------------------------------
(* The worker's search: the best SEARCH_FANOUT matches, a name match ahead  *)
(* of a match of the statement.                                            *)
WorkerScore(search) == IF search.fragment # "" THEN 40 ELSE 30
lookup(search) ==
  LET found == {d \in Decls : /\ search.head \in {NoHead, d.head}
                              /\ search.consts \subseteq d.consts
                              /\ search.fragment \in d.words \cup {""}}
  IN  FirstOf(Listed(found, {p \in found \X found : p[1].name < p[2].name}), SEARCH_FANOUT)
WorkerReason(search) ==
  {"worker"} \cup (IF search.head # NoHead THEN {"conclusion_head"} ELSE {})

(* The semantic search's candidates: those some family but the role's head  *)
(* explains.                                                               *)
semantic_evidence_admits(family) == family # "role_head"
SemanticCandidates == {d \in Decls : \E e \in d.evidence : semantic_evidence_admits(e)}

ContainsLabel(reasons) ==
  \E r \in reasons : r \cap {"conclusion_head", "required_constants"} # {}
StatementEvidence == {"statement_fingerprint", "safe_permutation_fingerprint",
  "connective_fingerprint", "conclusion_fingerprint", "role_conclusion_const"}
CorroboratedBySubstring(reasons) ==
  ContainsLabel(reasons) \/ \E e \in StatementEvidence : {"semantic", e} \in reasons
is_corroborated(reasons) ==
  \/ {{"conclusion_head"}, {"required_constants"}} \cap reasons # {}
  \/ \E e \in StatementEvidence : {"semantic", e} \in reasons

candidate_score(base, d, label) ==
  base + d.bias + (IF label = {"required_constants"} THEN 6 ELSE 0)
                + (IF label = {"conclusion_head"} THEN 20 ELSE 0)

(* rank_results: the evidence for each candidate from all searches...       *)
FoundBy(d, searches) == {i \in DOMAIN searches : Contains(lookup(searches[i]), d)}
Reasons(d, searches, semantic) ==
  (UNION {{searches[i].label, WorkerReason(searches[i])} : i \in FoundBy(d, searches)})
  \cup (IF semantic /\ d \in SemanticCandidates
          THEN {{"semantic"}} \cup {{"semantic", e} : e \in {f \in d.evidence : semantic_evidence_admits(f)}}
          ELSE {})
Candidates(searches, semantic) == {d \in Decls : Reasons(d, searches, semantic) # {}}

(* ... its best score, raised once per fragment its name contains...        *)
FragmentBonus(d, profile, corroborated) ==
  LET named == {f \in Range(profile.fragments) : f \in d.words}
      doubled == IF corroborated THEN named \cap profile.structural ELSE {}
  IN  5 * (Cardinality(named) + Cardinality(doubled))
Score(d, profile, searches, semantic) ==
  Max({candidate_score(WorkerScore(searches[i]), d, searches[i].label) : i \in FoundBy(d, searches)}
      \cup (IF semantic /\ d \in SemanticCandidates THEN {candidate_score(150, d, {"semantic"})} ELSE {}))
  + FragmentBonus(d, profile, is_corroborated(Reasons(d, searches, semantic)))

(* ... and the order: the uncorroborated below every corroborated one.      *)
Ranked(profile, searches, semantic) ==
  LET found == Candidates(searches, semantic)
      corroborated == {d \in found : is_corroborated(Reasons(d, searches, semantic))}
      score == [d \in found |-> Score(d, profile, searches, semantic)]
      ahead == {p \in found \X found :
                  \/ score[p[1]] > score[p[2]]
                  \/ score[p[1]] = score[p[2]] /\ p[1].name < p[2].name}
  IN  Listed(corroborated, ahead) \o Listed(found \ corroborated, ahead)
rank_results(profile, limit, searches, semantic) ==
  FirstOf(Ranked(profile, searches, semantic), limit)

(* The two warnings about what the returned candidates rest on.             *)
HeadOnly(profile, candidates) ==
  candidates # <<>> /\ profile.fragments # <<>>
    /\ \A d \in Range(candidates) : d.words \cap Range(profile.fragments) = {}
LexicalOnly(candidates, searches, semantic) ==
  candidates # <<>> /\ \A d \in Range(candidates) : ~ContainsLabel(Reasons(d, searches, semantic))
-----------------------------------------------------------------------------
(* What vouches for a candidate beyond its name: a search for a specific    *)
(* head or for the goal's constants found it, or the semantic search saw    *)
(* the goal in its statement.                                              *)
Vouched(d, searches, semantic) ==
  \/ \E i \in FoundBy(d, searches) :
       searches[i].consts # {} \/ ~(searches[i].head = NoHead \/ is_broad_head(searches[i].head))
  \/ semantic /\ d.evidence \cap StatementEvidence # {}

(* A guess by name never ranks above, and is never returned instead of, a   *)
(* candidate that something type-aware vouched for. (mode simp is excluded: *)
(* there the code does not count its head search, is_corroborated 962-972.) *)
VouchedFirst(candidates, searches, semantic) ==
  LET vouched == {d \in Candidates(searches, semantic) : Vouched(d, searches, semantic)}
      returned == Range(candidates)
  IN  /\ \A i, j \in DOMAIN candidates :
           i < j /\ candidates[j] \in vouched => candidates[i] \in vouched
      /\ vouched \subseteq returned \/ returned \subseteq vouched
(* The two warnings never appear together (comment at 884).                 *)
WarningsExclude(profile, candidates, searches, semantic) ==
  ~(HeadOnly(profile, candidates) /\ LexicalOnly(candidates, searches, semantic))
=============================================================================
