----------------------------- MODULE References -----------------------------
(***************************************************************************)
(* Reading Lake's .ilean indices: project-scope find_references and the    *)
(* declaration inventory of one module. The scan reads one index file after    *)
(* the other and asks the sources' and indices' mtimes only at the end,    *)
(* while sources are edited and Lake writes indices. A module is the       *)
(* number of its source in path order; an index holds the positions at     *)
(* which its source named the queried name when Lake read it.              *)
(***************************************************************************)
EXTENDS Naturals, Sequences, SequencesExt, FiniteSetsExt, Listing

CONSTANTS
  Files, Positions,
  Estranged,   \* modules whose name does not spell their source's path («a-b»)
  RefRequests, \* [tool, files, limit]; files is a sequence of [file, as]: "plain"
               \* is the path under the canonical root, "alias" any other spelling
  MaxTime      \* bound of the model: writes of a source or an index

ASSUME ReferenceConstants ==
  /\ Files \subseteq Nat /\ Positions \subseteq Nat /\ Positions # {}
  /\ IsFiniteSet(Files) /\ IsFiniteSet(Positions) /\ Estranged \subseteq Files
  /\ \A r \in RefRequests :
       /\ r.tool \in {"references", "declarations"} /\ r.limit \in Nat
       /\ r.files \in Seq([file : Files, as : {"plain", "alias"}])
       /\ r.tool = "declarations" => r.files # <<>>
  /\ MaxTime \in Nat

VARIABLES
  now,       \* writes so far: the clock mtimes are read from
  source,    \* per file: what it holds, and its mtime; 0 once deleted
  index,     \* per file: its .ilean
  lake,      \* per file: the source Lake is compiling, or Nothing
  built,     \* .lake/build/lib/lean is a directory
  scan,      \* the request in hand
  torn,      \* history: indices written after an edit they do not contain
  overtaken  \* history: modules whose index changed since the scan first read it

diskVars == <<now, source, index, lake, built>>
refVars == <<diskVars, scan, torn, overtaken>>

Nothing == [hits |-> {}, time |-> 0]
NoIndex == [kind |-> "absent", hits |-> {}, time |-> 0]
Resting == [pc |-> "idle", ask |-> <<>>, outline |-> Nothing, todo |-> <<>>, refs |-> <<>>,
            contributing |-> <<>>, skipped |-> 0, unbuilt |-> FALSE, stale |-> {},
            truncated |-> FALSE, trust |-> "none", asOf |-> <<>>]
-----------------------------------------------------------------------------
RefInit ==
  /\ now = 1 /\ built = FALSE
  /\ source = [f \in Files |-> [hits |-> {Min(Positions)}, time |-> 1]]
  /\ index = [f \in Files |-> NoIndex] /\ lake = [f \in Files |-> Nothing]
  /\ scan = Resting /\ torn = {} /\ overtaken = {}

EditSource(f) ==
  /\ now < MaxTime /\ now' = now + 1
  /\ \E hits \in SUBSET Positions : source' = [source EXCEPT ![f] = [hits |-> hits, time |-> now + 1]]
  /\ UNCHANGED <<index, lake, built, scan, torn, overtaken>>
DeleteSource(f) ==
  /\ source[f] # Nothing /\ source' = [source EXCEPT ![f] = Nothing]
  /\ UNCHANGED <<now, index, lake, built, scan, torn, overtaken>>

LakeReads(f) ==
  /\ lake[f] = Nothing /\ source[f] # Nothing
  /\ lake' = [lake EXCEPT ![f] = source[f]]
  /\ UNCHANGED <<now, source, index, built, scan, torn, overtaken>>
LakeWrites(f) ==
  /\ lake[f] # Nothing /\ lake' = [lake EXCEPT ![f] = Nothing]
  /\ now < MaxTime /\ now' = now + 1 /\ built' = TRUE
  /\ \E kind \in {"current", "unreadable"} :
       index' = [index EXCEPT ![f] = [kind |-> kind, hits |-> lake[f].hits, time |-> now + 1]]
  /\ torn' = IF source[f] = lake[f] THEN torn \ {f} ELSE torn \cup {f}
  /\ overtaken' = overtaken \cup {f}
  /\ UNCHANGED <<source, scan>>
LakeClean ==
  /\ built /\ built' = FALSE
  /\ index' = [f \in Files |-> NoIndex] /\ overtaken' = overtaken \cup Files
  /\ UNCHANGED <<now, source, lake, scan, torn>>
-----------------------------------------------------------------------------
OnDisk == {f \in Files : index[f].kind # "absent"}
\* Parsed at a version this build knows, with well-formed positions.
Readable(f) == index[f].kind = "current"

(* indices_for: the requested files' own indices, when every path can be    *)
(* turned into one that exists; the whole tree otherwise.                  *)
Invertible(entry) == entry.as = "plain" /\ entry.file \in OnDisk
IndicesUntilMissing(files) ==
  LET good == {n \in 0..Len(files) : \A i \in 1..n : Invertible(files[i])}
  IN  [i \in 1..Max(good) |-> files[i].file]
indices_for(files) ==
  IF files # <<>> /\ \A i \in DOMAIN files : Invertible(files[i])
    THEN [i \in DOMAIN files |-> files[i].file]
    ELSE Ascending(OnDisk)

NotBuilt(ask) == [Resting EXCEPT !.pc = "answered", !.ask = ask, !.trust = "missing_build",
                                 !.unbuilt = TRUE]
(* find_references_in_project and references_to up to the first index. An   *)
(* absent build directory is needs_build.                                  *)
BeginReferences ==
  /\ scan.pc = "idle" /\ overtaken' = {}
  /\ \E ask \in RefRequests :
       /\ ask.tool = "references"
       /\ scan' = IF ~built THEN NotBuilt(ask)
                  ELSE [Resting EXCEPT !.pc = "scan", !.ask = ask, !.todo = indices_for(ask.files)]
  /\ UNCHANGED <<diskVars, torn>>

(* declaration_inventory of a module: the worker's outline of its source,   *)
(* to be completed from the module's index; the index alone without one.   *)
BeginDeclarations ==
  /\ scan.pc = "idle" /\ overtaken' = {}
  /\ \E ask \in RefRequests :
       /\ ask.tool = "declarations"
       /\ LET f == ask.files[1].file
          IN  scan' = [Resting EXCEPT !.pc = "scan", !.ask = ask, !.todo = <<f>>,
                                      !.outline = source[f]]
  /\ UNCHANGED <<diskVars, torn>>

(* ReferenceScan::visit of one index, or declarations_in_module. Reading    *)
(* the modules in another order gives the same answer: hits are sorted at  *)
(* the end.                                                                *)
Places(f, hits) == LET sorted == Ascending(hits) IN [i \in DOMAIN sorted |-> <<f, sorted[i]>>]
Visit ==
  LET f == Head(scan.todo)
      contributes == index[f].hits # {} \/ scan.ask.tool = "declarations"
  IN  /\ scan.pc = "scan" /\ scan.todo # <<>>
      /\ overtaken' = IF scan.ask.tool = "declarations" \/ f \in Range(scan.contributing)
                         THEN overtaken ELSE overtaken \ {f}
      /\ scan' = IF ~Readable(f)
                   THEN [scan EXCEPT !.todo = Tail(@), !.skipped = @ + 1, !.unbuilt = ~built]
                   ELSE [scan EXCEPT !.todo = Tail(@), !.refs = @ \o Places(f, index[f].hits),
                           !.contributing = IF contributes THEN Append(@, f) ELSE @]
      /\ UNCHANGED <<diskVars, torn>>

(* source_newer_than_index; a failing stat on either side is "not newer".   *)
NewerThanLastIndex(f) == source[f].time > Max({index[g].time : g \in Files})
source_newer_than_index(f) ==
  /\ f \notin Estranged /\ source[f] # Nothing /\ index[f] # NoIndex
  /\ source[f].time > index[f].time

(* collect_stale_sources, after the last index was read.                    *)
CollectStale ==
  /\ scan.pc = "scan" /\ scan.todo = <<>>
  /\ scan' = [scan EXCEPT !.pc = "stat", !.asOf = source,
                !.stale = {f \in Range(scan.contributing) : source_newer_than_index(f)}]
  /\ UNCHANGED <<diskVars, torn, overtaken>>

(* find_references_in_project: what survives the display-path filter,       *)
(* sorted and capped, and the trust fact the answer carries.               *)
Kept(ask, ref) ==
  \/ ask.tool = "declarations" \/ ask.files = <<>>
  \/ ref[1] \notin Estranged /\ [file |-> ref[1], as |-> "plain"] \in Range(ask.files)
SortsBefore(a, b) == a[1] < b[1] \/ (a[1] = b[1] /\ a[2] < b[2])
\* Vec::sort is stable: equal references stay in the order they were found in.
KeptInOrder(ask, refs) ==
  LET kept == {i \in DOMAIN refs : Kept(ask, refs[i])}
      order == {p \in kept \X kept :
                  SortsBefore(refs[p[1]], refs[p[2]]) \/ (refs[p[1]] = refs[p[2]] /\ p[1] < p[2])}
      places == Listed(kept, order)
  IN  [n \in DOMAIN places |-> refs[places[n]]]
Finish(hits, trust) ==
  scan' = [scan EXCEPT !.pc = "answered", !.trust = trust,
             !.refs = SubSeq(hits, 1, Min({Len(hits), scan.ask.limit})),
             !.truncated = Len(hits) > scan.ask.limit]
FinishReferences ==
  /\ scan.pc = "stat" /\ scan.ask.tool = "references"
  /\ Finish(KeptInOrder(scan.ask, scan.refs),
            IF scan.stale = {} THEN "build_fresh" ELSE "stale_build")
  /\ UNCHANGED <<diskVars, torn, overtaken>>

Hits(f) == {scan.refs[i][2] : i \in {j \in DOMAIN scan.refs : scan.refs[j][1] = f}}

(* supplement_with_fresh_index adds what the outline lacks, from an index   *)
(* that is readable and not stale; index_declarations has only the index.  *)
FinishDeclarations ==
  LET f == scan.ask.files[1].file
      indexed == scan.contributing # <<>>
      outlined == scan.outline # Nothing
      outline == Places(f, scan.outline.hits)
      missing == Places(f, Hits(f) \ scan.outline.hits)
  IN  /\ scan.pc = "stat" /\ scan.ask.tool = "declarations"
      /\ CASE indexed /\ scan.stale = {} -> Finish(outline \o missing, "build_fresh")
           [] indexed /\ scan.stale # {} /\ ~outlined -> Finish(scan.refs, "stale_build")
           [] outlined /\ ~(indexed /\ scan.stale = {}) -> Finish(outline, "edit_fresh")
           [] ~indexed /\ ~outlined -> Finish(<<>>, "missing_build")
      /\ UNCHANGED <<diskVars, torn, overtaken>>

RefDisk ==
  \/ \E f \in Files : EditSource(f) \/ DeleteSource(f) \/ LakeReads(f) \/ LakeWrites(f)
  \/ LakeClean
RefSteps == Visit \/ CollectStale \/ FinishReferences \/ FinishDeclarations
RefNext == BeginReferences \/ BeginDeclarations \/ RefSteps \/ RefDisk
-----------------------------------------------------------------------------
Reported == {scan.refs[i][1] : i \in DOMAIN scan.refs}

(* An answer that claims to be build-fresh is true of every module it       *)
(* reports: the positions it gives are those of the source as it stood     *)
(* when the mtimes were compared, for every source that still exists.      *)
(* Lake overtaking the scan after a module was read, and an edit overtaking *)
(* Lake between compile and write, are the races mtimes cannot show.       *)
FreshClaimIsTrue ==
  scan.pc = "answered" /\ scan.trust = "build_fresh" =>
    \A f \in Reported \ (torn \cup overtaken \cup Estranged) :
      scan.asOf[f] # Nothing =>
        /\ Hits(f) \subseteq scan.asOf[f].hits
        /\ scan.truncated \/ Hits(f) = scan.asOf[f].hits

(* Narrowing a request to files chooses what is read, never what is found:  *)
(* each readable module asked for, in a spelling of the canonical root,    *)
(* has all its indexed positions in the answer, whatever else was asked.   *)
NarrowingLosesNothing ==
  scan.pc = "answered" /\ scan.ask.tool = "references" /\ ~scan.truncated
    /\ scan.trust # "missing_build" =>
      \A f \in OnDisk \ (overtaken \cup Estranged) :
        Kept(scan.ask, <<f, 0>>) /\ Readable(f) => Hits(f) = index[f].hits

(* No position is reported twice. The code breaks this when a request names *)
(* one file twice: its index is then read twice.                           *)
NoHitTwice == scan.pc = "answered" => IsInjective(scan.refs)
=============================================================================
