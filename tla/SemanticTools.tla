--------------------------- MODULE SemanticTools ---------------------------
(***************************************************************************)
(* One request to the public tools, from its kind to its semantic          *)
(* response: the mode handlers, the worker's outcomes they meet, the       *)
(* warnings, next actions and trust facts they attach, and the facade that *)
(* turns those into the response's issues. References is what the index    *)
(* scan does, ProofSearch how retrieval is planned and ranked, Toolchain   *)
(* what an unsupported pin is told; verdict rows are LeanVerify's.         *)
(*                                                                         *)
(* A condition is something that makes an answer worth less than it looks. *)
(* Warnings and next actions are named by the condition they are about.    *)
(***************************************************************************)
EXTENDS Toolchain, References, ProofSearch

CONSTANTS
  Requests,   \* [tool, kind, decodes, scope]: the kind as written, "" for none; scope
              \* is "index" for project-scope references and a module's inventory
  Windows,    \* the supported entries a build of the server may carry
  Pins,       \* toolchain pins
  Goals       \* [profile, mode, limit]: what a proof search is asked for

ASSUME ToolConstants ==
  /\ \A r \in Requests : r.decodes \in BOOLEAN
  /\ Windows \subseteq Seq(Seq(Keys) \ {<<>>}) /\ Pins \subseteq Keys \cup Others
  /\ \A w \in Windows : \A i, j \in DOMAIN w : i < j => Before(w[i][1], w[j][1])
  /\ \A g \in Goals : /\ DOMAIN g = {"profile", "mode", "limit"}
                       /\ g.profile.fragments \in Seq(STRING) /\ g.limit \in Nat

VARIABLES
  request, mode,  \* the request, and the canonical kind it was dispatched to
  pc,             \* "dispatch", "run", "search", "respond", "done"
  response,       \* the mode handler's Response
  search,         \* proof search between its worker calls
  answer,         \* the SemanticResponse
  suffered        \* history: the conditions this request met

toolVars == <<request, mode, pc, response, search, answer, suffered>>
vars == <<toolVars, refVars>>

Blank == [shows |-> {}, notes |-> <<>>, live |-> FALSE]
NoSearch == [goal |-> <<>>, semantic |-> FALSE, planned |-> <<>>, candidates |-> <<>>]
NoAnswer == [code |-> "none", issues |-> <<>>, shows |-> {}, pin |-> <<>>, window |-> <<>>]

(* Response::warn and Response::hint, in the order they are called.         *)
Warn(about) == [warning |-> about, action |-> ""]
Hint(about) == [warning |-> "", action |-> about]
WarnAndHint(about) == [warning |-> about, action |-> about]
When(condition, note) == IF condition THEN <<note>> ELSE <<>>
-----------------------------------------------------------------------------
Init ==
  /\ RefInit
  /\ request \in Requests /\ mode = "" /\ pc = "dispatch"
  /\ response = Blank /\ search = NoSearch /\ answer = NoAnswer /\ suffered = {}

canonical_kind(tool, kind) ==
  CASE tool = "lean_context" /\ kind \in {"goal", "state", "proof"} -> "proof_position"
    [] tool = "lean_trial" /\ kind \in {"tactic", "proof", "try"} -> "proof_step"
    [] tool = "lean_trial" /\ kind \in {"snippet", "check", "eval"} -> "command"
    [] tool = "lean_lookup" /\ kind \in {"signature", "check", "lookup"} -> "declaration"
    [] tool = "lean_lookup" /\ kind \in {"inventory", "outline"} -> "declarations"
    [] tool = "lean_lookup" /\ kind \in {"usages", "find_references"} -> "references"
    [] tool = "lean_lookup" /\ kind \in {"suggest", "premises"} -> "proof_search"
    [] tool = "lean_status" /\ kind \in {"", "health", "config"} -> "project"
    [] tool = "lean_status" /\ kind \in {"diagnostics", "check"} -> "file_diagnostics"
    [] OTHER -> kind
Allowed(tool) ==
  CASE tool = "lean_context" -> {"proof_position"}
    [] tool = "lean_trial" -> {"proof_step", "command"}
    [] tool = "lean_lookup" -> {"declaration", "declarations", "proof_search", "references"}
    [] tool = "lean_status" -> {"project", "file_diagnostics"}
    [] tool = "lean_verify" -> {""}

Answer(code, issues) == answer' = [NoAnswer EXCEPT !.code = code, !.issues = issues]
Issue(code) == [code |-> code, about |-> code, next_action |-> code]

(* lean_context, lean_trial, lean_lookup, lean_status, lean_verify.         *)
Dispatch ==
  LET kind == canonical_kind(request.tool, request.kind)
      refused == IF kind \notin Allowed(request.tool)
                   THEN IF kind = "" THEN "missing_kind" ELSE "invalid_kind"
                   ELSE IF ~request.decodes THEN "invalid_request" ELSE "no"
  IN  /\ pc = "dispatch" /\ mode' = IF kind = "" THEN "verify" ELSE kind
      /\ IF refused # "no" THEN Answer(refused, <<Issue(refused)>>) /\ pc' = "done"
                           ELSE UNCHANGED answer /\ pc' = "run"
      /\ UNCHANGED <<request, response, search, suffered, refVars>>

(* The error paths of respond_semantic, for every mode that asks a worker.  *)
(* A failing semantic search of proof_search is not one of them.            *)
AsksWorker ==
  /\ mode # "project" /\ request.scope # "index"
  /\ pc = "run" \/ (pc = "search" /\ search.planned # <<>>)
WorkerUnavailable ==
  /\ AsksWorker /\ suffered' = suffered \cup {"unavailable"} /\ pc' = "done"
  /\ \/ \E advised \in BOOLEAN :
          Answer("runtime_unavailable",
                 <<[code |-> "runtime_unavailable", about |-> "unavailable", next_action |-> ""]>>
                   \o When(advised, [code |-> "warning", about |-> "advisory", next_action |-> ""]))
     \/ Answer("runtime_unavailable", <<[code |-> "runtime_unavailable", about |-> "unavailable",
                                        next_action |-> "recovery_command"]>>)
  /\ UNCHANGED <<request, mode, response, search, refVars>>
(* The project's pin is outside the window: BadProject, naming a release.   *)
PinUnsupported ==
  /\ AsksWorker /\ pc' = "done"
  /\ \E window \in Windows, pin \in Pins :
       /\ window_verdict(window, pin) = "out_of_window"
       /\ answer' = [NoAnswer EXCEPT !.code = "bad_project", !.pin = pin, !.window = window]
  /\ UNCHANGED <<request, mode, response, search, suffered, refVars>>
-----------------------------------------------------------------------------
(* A mode handler has answered: what its result shows by itself, and the    *)
(* notes it attached. Without a worker's answer the response is built on   *)
(* project_identity_without_worker: no call to be slow, no advisories.     *)
FromWorker(conditions) ==
  /\ request.scope # "index" /\ conditions \cap {"empty", "missing_olean", "unreadable", "invalid"} = {}
  /\ mode = "proof_search" => search.planned # <<>>
Responds(conditions, shows, notes) ==
  /\ pc' = "respond" /\ suffered' = suffered \cup conditions
  /\ response' = [shows |-> shows, notes |-> notes, live |-> FromWorker(conditions)]
  /\ UNCHANGED <<request, mode, answer>>

Tainted(tainted) == IF tainted THEN {"tainted"} ELSE {}
Missing(missing) == IF missing THEN {"missing_imports"} ELSE {}
Unanswerable == {"header_parse_failed", "unsupported"}
\* A missing .olean, classified before any result is projected.
NeedsBuild ==
  Responds({"missing_olean"}, {"missing_olean"}, <<WarnAndHint("missing_olean")>>)
GoalOutcomes == {"state", "budget", "unresolved", "needs_build", "ambiguous"}

(* proof_state_internal: a missing .olean degrades to needs_build.          *)
ProofPosition ==
  /\ pc = "run" /\ mode = "proof_position"
  /\ \/ NeedsBuild
     \/ \E outcome \in Unanswerable, tainted \in BOOLEAN :
          Responds({outcome} \cup (IF tainted THEN {"tainted_unread"} ELSE {}), {outcome}, <<>>)
     \/ \E goal \in GoalOutcomes, tainted, missing \in BOOLEAN :
          Responds(({goal} \ {"state"}) \cup Tainted(tainted) \cup Missing(missing), {goal},
                   When(goal \notin {"state", "budget"}, WarnAndHint(goal))
                     \o When(tainted, WarnAndHint("tainted"))
                     \o When(missing, Warn("missing_imports")))
  /\ UNCHANGED <<search, refVars>>

(* command_trial and file_diagnostics: the worker's diagnostics are the     *)
(* result, empty where it had none to give. Here as everywhere,            *)
(* warn_needs_build also puts a missing_build fact among the trust facts.  *)
Diagnostics ==
  /\ pc = "run" /\ mode \in {"command", "file_diagnostics"}
  /\ \/ mode = "command" /\ Responds({"empty"}, {}, <<Warn("empty")>>)
     \/ NeedsBuild
     \/ \E outcome \in Unanswerable \cup {"ok", "budget"}, tainted, missing \in BOOLEAN :
          /\ missing => outcome \notin Unanswerable
          /\ Responds(({outcome} \ {"ok"}) \cup Tainted(tainted) \cup Missing(missing),
                      ({outcome} \cap {"header_parse_failed"}) \cup Missing(missing),
                      When(tainted, WarnAndHint("tainted"))
                        \o When(missing, WarnAndHint("missing_imports")))
  /\ UNCHANGED <<search, refVars>>

(* inspect_declaration.                                                     *)
InspectDeclaration ==
  /\ pc = "run" /\ mode = "declaration"
  /\ \/ Responds({"empty"}, {}, <<Warn("empty")>>)
     \/ NeedsBuild
     \/ \E tainted, bareAndMissed \in BOOLEAN :
          Responds(Tainted(tainted), {}, When(bareAndMissed, Hint("bare_name")))
  /\ UNCHANGED <<search, refVars>>

(* find_references_in_file: each reason a file was left out is a list in    *)
(* the result, but a Ready outcome whose result is not References counts   *)
(* as a scanned file; attach_query_notes adds a hint about the cache.      *)
FileReferences ==
  /\ pc = "run" /\ mode = "references" /\ request.scope # "index"
  /\ \/ NeedsBuild
     \/ \E outcome \in {"unreadable", "invalid"} : Responds({outcome}, {outcome}, <<>>)
     \/ \E outcome \in Unanswerable, tainted \in BOOLEAN :
          Responds({outcome} \cup Tainted(tainted), {outcome}, <<>>)
     \/ \E other \in SUBSET {"other_result"}, tainted, missing, fresh \in BOOLEAN :
          Responds(other \cup Tainted(tainted) \cup Missing(missing), Missing(missing),
                   When(fresh, Hint("cached")))
  /\ UNCHANGED <<search, refVars>>

(* worker_declarations: the status of the inventory says what went wrong.   *)
FileDeclarations ==
  /\ pc = "run" /\ mode = "declarations" /\ request.scope # "index"
  /\ \/ NeedsBuild
     \/ \E outcome \in Unanswerable \cup {"budget"}, tainted \in BOOLEAN :
          Responds({outcome} \cup Tainted(tainted), {outcome}, <<>>)
     \/ \E tainted, missing \in BOOLEAN :
          Responds(Tainted(tainted) \cup Missing(missing), Missing(missing),
                   When(missing, WarnAndHint("missing_imports")))
  /\ UNCHANGED <<search, refVars>>

(* find_references_in_project and the inventory of a module read the        *)
(* indices while the disk moves. (What the worker answers about a module's *)
(* source is FileDeclarations'.)                                           *)
ScanIndices ==
  /\ pc = "run" /\ request.scope = "index" /\ scan.pc # "answered"
  /\ \/ mode = "references" /\ BeginReferences
     \/ mode = "declarations" /\ BeginDeclarations
     \/ RefSteps
     \/ RefDisk
  /\ UNCHANGED toolVars
ScanAnswered ==
  /\ pc = "run" /\ scan.pc = "answered"
  /\ LET incomplete == {scan.trust} \cap {"missing_build", "stale_build"}
         warned == incomplete # {} /\ (mode = "references" \/ scan.unbuilt)
     IN  Responds(incomplete, {scan.trust}, When(warned, WarnAndHint(scan.trust)))
  /\ UNCHANGED <<search, refVars>>

(* try_proof_step: the result's status, and one note per cause.             *)
ProofStep ==
  /\ pc = "run" /\ mode = "proof_step"
  /\ \/ Responds({"empty"}, {}, <<Warn("empty")>>)
     \/ Responds({"missing_olean"}, {"missing_olean"},
                 <<Hint("unmodified"), WarnAndHint("missing_olean")>>)
     \/ \E outcome \in Unanswerable \cup {"tried"}, tainted, missing, partial, rebinds \in BOOLEAN :
          /\ outcome # "tried" => ~missing /\ ~partial /\ ~rebinds
          /\ Responds(({outcome} \ {"tried"}) \cup Tainted(tainted) \cup Missing(missing),
                      {outcome} \cup Missing(missing),
                      <<Hint("unmodified")>> \o When(missing, WarnAndHint("missing_imports"))
                        \o When(tainted, WarnAndHint("tainted"))
                        \o When(partial, WarnAndHint("partial"))
                        \o When(rebinds, WarnAndHint("rebinds")))
  /\ UNCHANGED <<search, refVars>>

(* verify_targets: a row shows its own verdict; the notes name the causes.  *)
(* The notes of the inventories come first. Taint is named once a verdict   *)
(* was relabelled: that of a batch whose rows never are, and that of an     *)
(* inventory's own worker call, is dropped.                                 *)
Verify ==
  /\ pc = "run" /\ mode = "verify"
  /\ \/ Responds({"empty"}, {}, <<WarnAndHint("empty"), Hint("unmodified")>>)
     \/ \E causes \in SUBSET {"inventory", "no_inventory", "missing_imports", "ambiguous",
                             "similar", "axioms", "tainted"},
           shown \in SUBSET (Unanswerable \cup {"stale_build"}),
           dropped \in SUBSET {"tainted_unread", "tainted_inventory"} :
          /\ "tainted_unread" \in dropped =>
               "missing_imports" \in causes \/ shown \cap Unanswerable # {}
          /\ Responds(causes \cup shown \cup dropped,
                      (causes \ {"no_inventory", "axioms"}) \cup shown,
                      When("inventory" \in causes, WarnAndHint("inventory"))
                        \o When("no_inventory" \in causes, Warn("no_inventory"))
                        \o <<Hint("unmodified")>>
                        \o When("missing_imports" \in causes, WarnAndHint("missing_imports"))
                        \o When("ambiguous" \in causes, WarnAndHint("ambiguous"))
                        \o When("similar" \in causes, WarnAndHint("similar"))
                        \o When("axioms" \in causes, Warn("axioms"))
                        \o When("tainted" \in causes, WarnAndHint("tainted")))
  /\ UNCHANGED <<search, refVars>>
-----------------------------------------------------------------------------
(* target_profile: the goal read at the position asked for, or the text the *)
(* caller gave. The result says what could not be read or did not fit; the  *)
(* notes proof_state_internal attached are not looked at.                  *)
Silent == {"unbuilt_goal", "needs_build", "ambiguous"}
Read == {"text", "unbuilt_goal"} \cup GoalOutcomes \cup Unanswerable
NoText == [heads |-> <<>>, consts |-> <<>>, fragments |-> <<>>, structural |-> {}]
TargetProfile ==
  /\ pc = "run" /\ mode = "proof_search" /\ pc' = "search"
  /\ \E goal \in Goals, read \in Read, known, tainted, missing \in BOOLEAN :
       /\ tainted => read \notin {"text", "unbuilt_goal"}
       /\ missing => read \in GoalOutcomes
       /\ \E semantic \in {FALSE, read \notin ({"text"} \cup Unanswerable)} :
            search' = [NoSearch EXCEPT !.semantic = semantic,
                         !.goal = IF known THEN goal ELSE [goal EXCEPT !.profile = NoText]]
       /\ suffered' = suffered \cup ({read} \ {"text", "state"})
                         \cup Tainted(tainted) \cup Missing(missing)
       /\ response' = [response EXCEPT !.shows = {read} \ Silent]
  /\ UNCHANGED <<request, mode, answer, refVars>>

(* run_semantic_search, then plan_searches: a failing semantic search is    *)
(* said in the result, and so is a goal with nothing to search for. The     *)
(* runtime facts of one that answered are dropped.                         *)
SemanticSearch ==
  /\ pc = "search" /\ search.planned = <<>>
  /\ \E failed \in {FALSE, search.semantic}, tainted \in {FALSE, search.semantic} :
       LET semantic == search.semantic /\ ~failed
           met == IF failed THEN {"semantic"} ELSE Tainted(tainted)
           planned == plan_searches(search.goal.profile, search.goal.mode)
           shows == response.shows \cup (IF failed THEN {"semantic"} ELSE {})
                      \cup (IF planned = <<>> /\ ~semantic THEN {"nothing_to_search"} ELSE {})
           candidates == IF planned # <<>> THEN <<>>
                         ELSE rank_results(search.goal.profile, search.goal.limit, <<>>, semantic)
       IN  /\ search' = [search EXCEPT !.semantic = semantic, !.planned = planned,
                                       !.candidates = candidates]
           /\ IF planned = <<>>
                THEN Responds(met, shows, <<>>)
                ELSE /\ response' = [response EXCEPT !.shows = shows]
                     /\ suffered' = suffered \cup met
                     /\ UNCHANGED <<request, mode, pc, answer>>
  /\ UNCHANGED refVars

(* run_declaration_searches and rank_results.                               *)
DeclarationSearches ==
  /\ pc = "search" /\ search.planned # <<>>
  /\ \/ /\ Responds({"missing_olean"}, response.shows \cup {"missing_olean"},
                     <<WarnAndHint("missing_olean"), Hint("supply_imports")>>)
        /\ UNCHANGED search
     \/ LET candidates == rank_results(search.goal.profile, search.goal.limit,
                                       search.planned, search.semantic)
            warned == (IF HeadOnly(search.goal.profile, candidates) THEN {"head_only"} ELSE {})
                      \cup (IF LexicalOnly(candidates, search.planned, search.semantic)
                              THEN {"lexical_only"} ELSE {})
        IN  \E tainted \in BOOLEAN :
              /\ search' = [search EXCEPT !.candidates = candidates]
              /\ Responds(Tainted(tainted), response.shows \cup warned, <<>>)
  /\ UNCHANGED refVars
-----------------------------------------------------------------------------
(* lean_status(kind=project): what the build tree looks like, no worker.    *)
Status ==
  /\ pc = "run" /\ mode = "project" /\ pc' = "done"
  /\ \E facts \in {{}, {"unknown"}, {"missing_build"}} :
       answer' = [NoAnswer EXCEPT !.code = "ok", !.shows = facts]
  /\ UNCHANGED <<request, mode, response, search, suffered, refVars>>

Warnings(notes) == At(notes, {i \in DOMAIN notes : notes[i].warning # ""})
Actions(notes) == At(notes, {i \in DOMAIN notes : notes[i].action # ""})
IssuesOfPairs(notes) ==
  LET warnings == Warnings(notes)
      actions == Actions(notes)
  IN  [i \in 1..Min({Len(warnings), Len(actions)}) |->
         [code |-> "warning", about |-> warnings[i].warning, next_action |-> actions[i].action]]
semantic_issues(notes) ==
  LET warnings == Warnings(notes)
      actions == Actions(notes)
  IN  [i \in DOMAIN warnings |->
         [code |-> "warning", about |-> warnings[i].warning,
          next_action |-> IF i <= Len(actions) THEN actions[i].action ELSE ""]]

(* from_tool_response: the project's advisories and the slow-call warning   *)
(* come after the handler's own; proof search keeps only its call's runtime.*)
Respond ==
  /\ pc = "respond" /\ pc' = "done"
  /\ \E slow \in {FALSE, response.live}, advised \in {FALSE, response.live /\ mode # "proof_search"} :
       LET notes == response.notes \o When(advised, Warn("advisory")) \o When(slow, Warn("slow"))
       IN  answer' = [NoAnswer EXCEPT !.code = "ok", !.issues = semantic_issues(notes),
                                      !.shows = response.shows]
  /\ UNCHANGED <<request, mode, response, search, suffered, refVars>>

Next ==
  \/ Dispatch \/ WorkerUnavailable \/ PinUnsupported \/ Status
  \/ ProofPosition \/ Diagnostics \/ InspectDeclaration \/ ProofStep \/ Verify
  \/ FileReferences \/ FileDeclarations \/ ScanIndices \/ ScanAnswered
  \/ TargetProfile \/ SemanticSearch \/ DeclarationSearches
  \/ Respond
Spec == Init /\ [][Next]_vars
-----------------------------------------------------------------------------
(* What the code is known to leave out of its answers: README, section 6.   *)
Unflagged ==
  {<<"proof_position", "tainted_unread">>}
  \cup ({"command", "file_diagnostics"} \X {"unsupported", "budget"})
  \cup ({"declaration", "references", "declarations", "proof_search"} \X {"tainted"})
  \cup ({"proof_search"} \X {"unbuilt_goal", "needs_build", "ambiguous", "missing_imports"})
  \cup {<<"references", "other_result">>}
  \cup ({"verify"} \X {"tainted_unread", "tainted_inventory"})

(* An answer that is worth less than it looks says so: every condition the  *)
(* request met, in whichever of its worker calls or index reads, is either *)
(* visible in the result and its trust facts or is an issue of the         *)
(* response. The exceptions are the modes and conditions of Unflagged.     *)
NoSilentDegrade ==
  pc = "done" /\ answer.code = "ok" => \A c \in suffered :
    \/ <<mode, c>> \in Unflagged
    \/ c \in answer.shows
    \/ \E i \in DOMAIN answer.issues : answer.issues[i].about = c

(* The advice given with a warning reaches the agent as that warning's      *)
(* next_action (diagnosis.rs 129-140, docs/operations.md 315).             *)
AdviceReachesItsWarning ==
  pc = "done" /\ answer.code = "ok" => \A n \in DOMAIN response.notes :
    LET about == response.notes[n].warning
    IN  about # "" /\ response.notes[n].action = about =>
          \E i \in DOMAIN answer.issues :
            answer.issues[i].about = about /\ answer.issues[i].next_action = about

(* What a proof search answers is ordered by evidence: see VouchedFirst.    *)
CorroboratedFirst ==
  mode = "proof_search" /\ pc = "respond" /\ search.goal.mode # "simp" =>
    VouchedFirst(search.candidates, search.planned, search.semantic)

(* A project whose pin is outside the window is told a release it can move  *)
(* to: supported by this build, and none nearer on its side.               *)
AdvisedReleaseIsNeighbour ==
  answer.code = "bad_project" => AdviceIsNeighbour(answer.window, answer.pin)
=============================================================================
