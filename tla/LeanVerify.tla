----------------------------- MODULE LeanVerify -----------------------------
(***************************************************************************)
(* lean_verify and lean_trial(proof_step): a call names declarations or    *)
(* proof snippets, or whole files and modules that an inventory expands    *)
(* into declarations; the targets are grouped by source, each group is one *)
(* worker call on a snapshot of its source, and the verdicts become rows.  *)
(* Files are edited while the call runs, and the worker may be recycled    *)
(* under any of its calls.                                                 *)
(*                                                                         *)
(* A file's content is what a healthy worker says of each name: a verdict  *)
(* of Judged for the declarations it holds, "not_found" for the others; a  *)
(* proof snippet is "closed" or "failed".                                  *)
(***************************************************************************)
EXTENDS Naturals, Sequences, SequencesExt, FiniteSets, Functions

CONSTANTS
  Files, Names,
  Contents,       \* what a file, or the index of its module, may hold
  Checkouts,      \* [disk, index] of the project when the server starts
  Requests,       \* the calls: [tool, targets, retry]
  Blank,          \* a name of white space only
  MAX_VERIFY_TARGETS,
  MaxEdits        \* bound of the model

Absent == [n \in Names |-> "absent"]
Judged == {"verified", "rejected", "ambiguous"}
Verdicts == Judged \cup {"not_found", "closed", "progressed", "failed"}
ASSUME VerifyConstants ==
  /\ IsFiniteSet(Names) /\ Blank \in Names /\ MAX_VERIFY_TARGETS \in Nat /\ MaxEdits \in Nat
  /\ Contents \subseteq [Names -> Verdicts]
  /\ Requests \subseteq
       [tool : {"verify_targets", "verify_declaration", "try_proof_step"}, retry : BOOLEAN,
        targets : Seq([kind : {"explicit", "file_all", "module_all"}, file : Files,
                       names : Seq(Names)])]
  /\ \A c \in Requests : c.tool # "verify_targets" =>
       Len(c.targets) = 1 /\ c.targets[1].kind = "explicit"
  /\ \A c \in Checkouts : c.disk \in [Files -> Contents \cup {Absent}]
                        /\ c.index \in [Files -> Contents \cup {Absent}]

Declared(content) == SetToSeq({n \in Names \ {Blank} : content[n] \in Judged})

VARIABLES
  disk, edits,    \* the sources, and how often one was saved during the calls
  index,          \* the declaration index of the last `lake build`, by file
  pc, req,
  exp,            \* VerifyExpansion, and `next`: the target group to expand next
  inventories,    \* history: what each inventory was asked about and what it found
  group, work,    \* the group under verification, its snapshot and worker reply
                  \* (`heard` is history: the last reply as the worker gave it)
  rows, recycled, build_causes, warned

callVars == <<pc, req, exp, inventories, group, work, rows, recycled, build_causes, warned>>
vars == <<disk, edits, index, callVars>>

NoExpansion == [groups |-> <<>>, requested |-> 0, order |-> 0, seen |-> {},
                truncated |-> FALSE, next |-> 1]
NoReply == [kind |-> "none", verdicts |-> <<>>, taint |-> FALSE]
NoWork == [source |-> Absent, calls |-> 0, reply |-> NoReply, heard |-> NoReply]
NoCall == [tool |-> "none", targets |-> <<>>, retry |-> FALSE]

Init ==
  /\ \E c \in Checkouts : disk = c.disk /\ index = c.index
  /\ edits = 0
  /\ pc = "idle" /\ req = NoCall /\ exp = NoExpansion /\ inventories = {}
  /\ group = 1 /\ work = NoWork
  /\ rows = <<>> /\ recycled = FALSE /\ build_causes = {} /\ warned = {}

EditFile ==
  /\ edits < MaxEdits /\ edits' = edits + 1
  /\ \E f \in Files, c \in Contents : disk' = [disk EXCEPT ![f] = c]
  /\ UNCHANGED <<index, callVars>>
-----------------------------------------------------------------------------
(* Targets.                                                                *)

Batched == req.tool = "verify_targets"
(* try_proof_step without a snippet and verify_declaration without a name   *)
(* answer at once; verify_targets only warns about each empty name.        *)
Asked(names) == {i \in DOMAIN names : names[i] # Blank}

BeginCall ==
  /\ pc = "idle"
  /\ \E call \in Requests :
       /\ req' = call
       /\ IF call.tool # "verify_targets" /\ Asked(call.targets[1].names) = {}
            THEN pc' = "finish" /\ warned' = {"nothing_asked"}
            ELSE /\ pc' = "expand"
                 /\ warned' = IF call.targets = <<>> THEN {"nothing_asked"} ELSE {}
  /\ UNCHANGED <<disk, edits, index, exp, inventories, group, work, rows, recycled, build_causes>>

WithGroup(groups, key) ==
  IF \E g \in DOMAIN groups : groups[g].key = key THEN groups
  ELSE Append(groups, [key |-> key, targets |-> {}])

(* push_declarations: one target per name that is not blank; a name asked   *)
(* for twice in a group gets an id of its own. A group's targets are a set: *)
(* order is their place in the vector.                                     *)
NewTargets(e, names) ==
  LET asked == Asked(names)
      place(i) == e.order + Cardinality({j \in asked : j < i})
      repeated(i) == \/ <<e.next, names[i], 0>> \in e.seen
                     \/ \E j \in asked : j < i /\ names[j] = names[i]
  IN  {[order |-> place(i), name |-> names[i],
        id |-> <<e.next, names[i], IF repeated(i) THEN place(i) + 1 ELSE 0>>] : i \in asked}
push_declarations(e, key, names) ==
  LET new == NewTargets(e, names)
      groups == WithGroup(e.groups, key)
  IN  [e EXCEPT
        !.requested = @ + Cardinality(new), !.order = @ + Cardinality(new),
        !.seen = @ \cup {t.id : t \in new},
        !.groups = [g \in DOMAIN groups |-> IF groups[g].key = key
                      THEN [groups[g] EXCEPT !.targets = @ \cup new] ELSE groups[g]]]

Expanded(e) == [e EXCEPT !.next = @ + 1]
Target == req.targets[exp.next]

ExpandExplicit ==
  /\ pc = "expand" /\ exp.next <= Len(req.targets) /\ Target.kind = "explicit"
  /\ exp' = Expanded(push_declarations(exp, <<"file", Target.file>>, Target.names))
  /\ warned' = warned \cup {w \in {"empty_name"} : Batched /\ Blank \in Range(Target.names)}
  /\ UNCHANGED <<disk, edits, index, pc, req, inventories, group, work, rows, recycled, build_causes>>

(* declaration_inventory's result. `healthy` is history: the worker call    *)
(* behind it was not recycled.                                             *)
Inventory(status, source, names, truncated, healthy) ==
  [status |-> status, source |-> source, names |-> names,
   truncated |-> truncated, healthy |-> healthy]
NoInventory(status) == Inventory(status, "none", <<>>, FALSE, TRUE)

Prefix(s, n) == SubSeq(s, 1, IF Len(s) <= n THEN Len(s) ELSE n)
truncate(status, source, names, cut, healthy) ==
  Inventory(status, source, Prefix(names, MAX_VERIFY_TARGETS),
            cut \/ Len(names) > MAX_VERIFY_TARGETS, healthy)

(* The outline of a snapshot: all its declarations, or fewer when the       *)
(* worker cut the output short (and says so) or was recycled (and does     *)
(* not); or nothing, over budget (and says so) or Unavailable.             *)
outline_from_batch(content) ==
  LET all == Declared(content) IN
  {truncate("ok", "worker", Prefix(all, n), n < Len(all) /\ healthy, healthy) :
     n \in 0..Len(all), healthy \in BOOLEAN}
  \cup {[NoInventory("ok") EXCEPT !.truncated = TRUE], NoInventory("unsupported")}

(* With imports missing, whatever the outline is becomes "needs_build", an  *)
(* Unavailable one included: nothing listed, and nothing said to be cut.   *)
worker_outlines(content) ==
  outline_from_batch(content)
  \cup {[o EXCEPT !.status = "needs_build"] : o \in outline_from_batch(content)}
  \cup {NoInventory(s) : s \in {"header_parse_failed", "unsupported", "missing_build"}}

(* supplement_with_fresh_index: an index no older than the source adds the  *)
(* declarations the outline lacks, up to the limit.                        *)
supplement(inv, f) ==
  LET more == SetToSeq(Range(Declared(index[f])) \ Range(inv.names))
      room == MAX_VERIFY_TARGETS - Len(inv.names)
  IN  IF inv.status = "ok" /\ index[f] = disk[f]
        THEN [inv EXCEPT !.names = @ \o Prefix(more, room), !.truncated = @ \/ Len(more) > room]
        ELSE inv

inventories_of(t) ==
  IF disk[t.file] # Absent
    THEN {supplement(inv, t.file) : inv \in worker_outlines(disk[t.file])}
  ELSE IF t.kind = "file_all" THEN {NoInventory("not_found")}
  ELSE IF index[t.file] = Absent THEN {NoInventory("missing_build")}
  ELSE {truncate("ok", "ilean", Declared(index[t.file]), FALSE, TRUE)}

VerifySource(t, inv) == <<IF inv.source = "ilean" THEN "module_index" ELSE "file", t.file>>

(* What an inventory could not list stays unlisted, and must be said. *)
AbsorbLast(e, inv) == [e EXCEPT !.truncated = inv.truncated]
Absorb(e, inv) == [e EXCEPT !.truncated = @ \/ inv.truncated]

Usable == {"ok", "needs_build"}
WithoutBuild(t, inv) ==
  inv.status = "needs_build" \/ (inv.status = "missing_build" /\ disk[t.file] # Absent)

ExpandInventory ==
  /\ pc = "expand" /\ exp.next <= Len(req.targets) /\ Target.kind \in {"file_all", "module_all"}
  /\ \E inv \in inventories_of(Target) :
       LET e == Absorb(exp, inv)
           usable == inv.status \in Usable
       IN  /\ exp' = Expanded(IF usable
                       THEN push_declarations(e, VerifySource(Target, inv), inv.names) ELSE e)
           /\ warned' = warned \cup {w \in {"inventory"} : ~usable}
                               \cup {w \in {"needs_build"} : WithoutBuild(Target, inv)}
           /\ inventories' = inventories \cup
                {[group |-> exp.next, healthy |-> inv.healthy, status |-> inv.status,
                  found |-> Range(Declared(
                     IF inv.source = "ilean" THEN index[Target.file] ELSE disk[Target.file]))]}
  /\ UNCHANGED <<disk, edits, index, pc, req, group, work, rows, recycled, build_causes>>

(* VerifyExpansion::truncate: the first `limit` targets, group by group. *)
AllTargets(groups) == UNION {groups[g].targets : g \in DOMAIN groups}
Ahead(groups, g, t) ==
  (UNION {groups[h].targets : h \in 1..g - 1}) \cup {u \in groups[g].targets : u.order < t.order}
TruncateGroups(groups, limit) ==
  [g \in DOMAIN groups |->
     [groups[g] EXCEPT !.targets = {t \in @ : Cardinality(Ahead(groups, g, t)) < limit}]]
Total(groups) == Cardinality(AllTargets(groups))

FinishExpansion ==
  /\ pc = "expand" /\ exp.next > Len(req.targets)
  /\ exp' = IF Batched /\ Total(exp.groups) > MAX_VERIFY_TARGETS
              THEN [exp EXCEPT !.truncated = TRUE, !.groups = TruncateGroups(@, MAX_VERIFY_TARGETS)]
              ELSE exp
  /\ pc' = "group"
  /\ UNCHANGED <<disk, edits, index, req, inventories, group, work, rows, recycled, build_causes, warned>>
-----------------------------------------------------------------------------
(* One group.                                                              *)

Group == exp.groups[group]
Targets == Group.targets
More == group <= Len(exp.groups)

NextGroup ==
  /\ pc = "group" /\ (More => Targets = {})
  /\ IF More THEN group' = group + 1 /\ UNCHANGED pc ELSE pc' = "finish" /\ UNCHANGED group
  /\ UNCHANGED <<disk, edits, index, req, exp, inventories, work, rows, recycled, build_causes, warned>>

(* prepare_verify_group: the source is read now, not when it was            *)
(* inventoried; a module without a source is judged from its build.        *)
PrepareGroup ==
  /\ pc = "group" /\ More /\ Targets # {}
  /\ LET file == Group.key[2]
         source == IF Group.key[1] = "file" THEN disk[file] ELSE index[file]
     IN  IF source = Absent THEN pc' = "failed" /\ UNCHANGED work
         ELSE pc' = "call" /\ work' = [NoWork EXCEPT !.source = source]
  /\ UNCHANGED <<disk, edits, index, req, exp, inventories, group, rows, recycled, build_causes, warned>>

(* What the worker may answer. A recycle can cost a name its verdict but    *)
(* never grants one; with imports missing any verdict is possible, row by  *)
(* row. A missing .olean is an error without a worker, hence no taint.     *)
Lost == IF req.tool = "try_proof_step" THEN "failed" ELSE "not_found"
Uninformed == IF req.tool = "try_proof_step" THEN {"closed", "failed"}
              ELSE {"verified", "not_found", "needs_build"}
Replies ==
  LET honest == [t \in Targets |-> work.source[t.name]] IN
  {[kind |-> "ok", taint |-> FALSE, verdicts |-> honest]}
  \cup {[kind |-> "ok", taint |-> TRUE, verdicts |-> v] :
          v \in {u \in [Targets -> Range(honest) \cup {Lost}] :
                   \A t \in Targets : u[t] \in {honest[t], Lost}}}
  \cup {[kind |-> "missing_imports", taint |-> b, verdicts |-> v] :
          b \in BOOLEAN, v \in [Targets -> Uninformed]}
  \cup {[kind |-> k, taint |-> b /\ k # "needs_build", verdicts |-> [t \in Targets |-> k]] :
          b \in BOOLEAN, k \in {"header_parse_failed", "unsupported", "needs_build"}}

(* The verdicts a recycle may have caused. *)
verdict_is_non_positive(v) == v \notin {"verified", "needs_build", "ambiguous"}
attempt_is_non_positive(verdicts) == \A t \in DOMAIN verdicts : verdicts[t] \notin {"closed", "progressed"}
batch_is_non_positive(reply) ==
  /\ reply.kind = "ok"
  /\ IF req.tool = "try_proof_step" THEN attempt_is_non_positive(reply.verdicts)
     ELSE \E t \in DOMAIN reply.verdicts : verdict_is_non_positive(reply.verdicts[t])

(* The verdicts and the taint are those of the same call: the last. *)
SettleOnFirstTaint(reply) == [reply EXCEPT !.taint = @ \/ work.reply.taint]
Settle(reply) == reply

CallWorker ==
  /\ pc = "call"
  /\ \E reply \in Replies :
       /\ work' = [work EXCEPT !.calls = @ + 1, !.reply = Settle(reply), !.heard = reply]
       /\ pc' = IF req.retry /\ work.calls = 0 /\ reply.taint /\ batch_is_non_positive(reply)
                  THEN "call" ELSE "project"
  /\ UNCHANGED <<disk, edits, index, req, exp, inventories, group, rows, recycled, build_causes, warned>>

(* An infrastructure error other than a missing .olean ends the whole call, *)
(* an inventory's as well as a verification's.                             *)
Inventories == exp.next <= Len(req.targets) /\ Target.kind # "explicit"
CallFails ==
  /\ pc = "call" \/ (pc = "expand" /\ Inventories)
  /\ pc' = "failed"
  /\ UNCHANGED <<disk, edits, index, req, exp, inventories, group, work, rows, recycled, build_causes, warned>>

relabel_recycled_verdict(v) == IF verdict_is_non_positive(v) THEN "worker_recycled" ELSE v

Row(t, verdict) ==
  [id |-> t.id, order |-> t.order, name |-> t.name, status |-> verdict,
   reply |-> work.reply.kind, taint |-> work.heard.taint, source |-> work.source]

(* A batch's rows come in the order the worker's reply or the map of        *)
(* targets is walked in.                                                   *)
AddRows(targets, verdicts) ==
  \E walk \in SetToSeqs(targets) :
    rows' = rows \o [i \in DOMAIN walk |-> Row(walk[i], verdicts[walk[i]])]

ProjectVerdicts ==
  LET reply == work.reply
      relabels == reply.taint /\ reply.kind = "ok" /\ req.tool # "try_proof_step"
      projected == [t \in Targets |-> IF relabels
                      THEN relabel_recycled_verdict(reply.verdicts[t]) ELSE reply.verdicts[t]]
  IN  /\ reply.kind \in {"ok", "missing_imports"}
      /\ AddRows(Targets, projected)
      /\ recycled' = (recycled \/ (reply.taint
                        /\ (req.tool = "try_proof_step" \/ projected # reply.verdicts)))
      /\ build_causes' = build_causes \cup {m \in {"missing_imports"} : reply.kind = "missing_imports"}

(* A batch without verdicts: one row per target, none for proof snippets,   *)
(* whose answer is flagged all the same when the worker was recycled.      *)
ProjectWholeBatch ==
  LET reply == work.reply
      kept == IF req.tool = "try_proof_step" THEN {} ELSE Targets
  IN  /\ reply.kind \notin {"ok", "missing_imports"}
      /\ AddRows(kept, reply.verdicts)
      /\ build_causes' = build_causes \cup {m \in {"missing_olean"} : reply.kind = "needs_build"}
      /\ recycled' = (recycled \/ (reply.taint /\ req.tool = "try_proof_step"))

ProjectGroup ==
  /\ pc = "project" /\ (ProjectVerdicts \/ ProjectWholeBatch)
  /\ pc' = "group" /\ group' = group + 1 /\ work' = NoWork
  /\ UNCHANGED <<disk, edits, index, req, exp, inventories, warned>>

AsProjected(unordered) == {unordered}
InRequestOrder(unordered) ==
  {s \in {[i \in DOMAIN unordered |-> unordered[p[i]]] :
            p \in Bijection(DOMAIN unordered, DOMAIN unordered)} :
     \A i, j \in DOMAIN s : i < j => s[i].order <= s[j].order}

Finish ==
  /\ pc = "finish" /\ pc' = "answered"
  /\ rows' \in InRequestOrder(rows)
  /\ warned' = warned \cup {w \in {"taint"} : recycled}
                      \cup {w \in {"needs_build"} : build_causes # {}}
  /\ UNCHANGED <<disk, edits, index, req, exp, inventories, group, work, recycled, build_causes>>

(* The answer, or the error, is returned. *)
Return ==
  /\ pc \in {"answered", "failed"} /\ pc' = "idle"
  /\ req' = NoCall /\ exp' = NoExpansion /\ inventories' = {} /\ group' = 1 /\ work' = NoWork
  /\ rows' = <<>> /\ recycled' = FALSE /\ build_causes' = {} /\ warned' = {}
  /\ UNCHANGED <<disk, edits, index>>

Next ==
  \/ EditFile \/ BeginCall \/ ExpandExplicit \/ ExpandInventory \/ FinishExpansion
  \/ NextGroup \/ PrepareGroup \/ CallWorker \/ CallFails \/ ProjectGroup \/ Finish \/ Return
Spec == Init /\ [][Next]_vars
-----------------------------------------------------------------------------
Answered == pc = "answered"
Count(status) == Cardinality({i \in DOMAIN rows : rows[i].status = status})
summarize_rows ==
  [requested |-> exp.requested, verified |-> Count("verified"), truncated |-> exp.truncated,
   needs_build |-> Count("needs_build"),
   failed |-> Len(rows) - Count("verified") - Count("needs_build")]

(* No verdict is the work of a recycled worker: success is what the source  *)
(* the row was judged on deserves, unless it was judged with imports       *)
(* missing, which is warned about; a refusal from a worker recycled in that *)
(* same call is relabelled (or, for proof snippets, flagged), a refusal     *)
(* from a healthy worker is not, and a relabelled row never comes without   *)
(* the warning.                                                            *)
RowsAreHonest ==
  Answered => \A i \in DOMAIN rows :
    LET r == rows[i] IN
    /\ r.status \in {"verified", "closed"} =>
         \/ r.source[r.name] = r.status
         \/ r.reply = "missing_imports" /\ "needs_build" \in warned
    /\ r.status = "worker_recycled" => r.taint /\ "taint" \in warned
    /\ (r.taint /\ r.reply = "ok" /\ r.status # r.source[r.name]) =>
         "taint" \in warned /\ (req.tool # "try_proof_step" => r.status = "worker_recycled")

(* A caller who reads "every requested target verified, nothing truncated"  *)
(* for a whole file or module may conclude that every declaration the       *)
(* inventory's source held has been verified, unless a warning says what    *)
(* the inventory could not do (list anything, or see the imports the       *)
(* source needs), or the inventory's own worker was recycled.              *)
CoverageIsHonest ==
  (Answered /\ Batched /\ ~exp.truncated /\ summarize_rows.verified = exp.requested) =>
    \A inv \in inventories :
      inv.healthy => \/ inv.status \notin Usable /\ "inventory" \in warned
                     \/ inv.status = "needs_build" /\ "needs_build" \in warned
                     \/ \A n \in inv.found : \E i \in DOMAIN rows :
                          rows[i].id[1] = inv.group /\ rows[i].name = n /\ rows[i].status = "verified"

(* However the targets were grouped by source and whatever order a group's  *)
(* verdicts came in, the answer has one row per target, in the order of     *)
(* the request, and drops targets only when it says so.                    *)
RowsFollowRequest ==
  (Answered /\ Batched) =>
    /\ \A i, j \in DOMAIN rows : i < j => rows[i].order < rows[j].order /\ rows[i].id # rows[j].id
    /\ Len(rows) <= MAX_VERIFY_TARGETS
    /\ ~exp.truncated => Len(rows) = exp.requested
=============================================================================
