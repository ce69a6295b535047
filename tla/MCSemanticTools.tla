-------------------------- MODULE MCSemanticTools --------------------------
(* Requests of every tool and mode, four disk moves under an index scan,   *)
(* and a library of five declarations for two goals.                       *)
EXTENDS SemanticTools

Ask(tool, kind, scope) == [tool |-> tool, kind |-> kind, decodes |-> TRUE, scope |-> scope]
MCRequests ==
  {Ask("lean_context", "goal", "file"), Ask("lean_trial", "tactic", "file"),
   Ask("lean_trial", "check", "file"), Ask("lean_lookup", "check", "file"),
   Ask("lean_lookup", "outline", "file"), Ask("lean_lookup", "outline", "index"),
   Ask("lean_lookup", "usages", "file"), Ask("lean_lookup", "usages", "index"),
   Ask("lean_lookup", "premises", "file"), Ask("lean_status", "", "file"),
   Ask("lean_status", "check", "file"), Ask("lean_verify", "", "file"),
   Ask("lean_verify", "declaration", "file"), Ask("lean_trial", "", "file"),
   [Ask("lean_trial", "command", "file") EXCEPT !.decodes = FALSE]}

Entry(f, as) == [file |-> f, as |-> as]
Scan(files, limit) == [tool |-> "references", files |-> files, limit |-> limit]
MCRefRequests ==
  {Scan(<<>>, 9), Scan(<<>>, 1), Scan(<<Entry(2, "plain")>>, 9),
   Scan(<<Entry(1, "plain"), Entry(2, "plain")>>, 9),
   Scan(<<Entry(1, "alias"), Entry(2, "plain")>>, 9),
   [tool |-> "declarations", files |-> <<Entry(1, "plain")>>, limit |-> 9]}

Release(major, minor, patch) == <<major, minor, patch, 1, 0>>
Candidate(major, minor, patch, rc) == <<major, minor, patch, 0, rc>>
MCWindows ==
  {<<<<Release(1, 0, 0), Release(1, 0, 1)>>, <<Release(1, 1, 0)>>>>,
   <<<<Release(0, 2, 1)>>, <<Candidate(1, 0, 0, 2)>>, <<Release(1, 0, 2)>>>>,
   <<<<Candidate(1, 0, 0, 2)>>, <<Release(1, 0, 0)>>>>}
MCPins == {Release(0, 1, 0), Candidate(1, 0, 0, 1), Release(1, 0, 0), Release(1, 0, 1),
           Candidate(1, 1, 0, 1), Release(2, 0, 0)} \cup Others

MCDecls ==
  {[name |-> 1, words |-> {"add"}, head |-> "Lt", consts |-> {"K"}, bias |-> 0, evidence |-> {}],
   [name |-> 2, words |-> {"add", "simp"}, head |-> "Eq", consts |-> {}, bias |-> 3, evidence |-> {}],
   [name |-> 3, words |-> {}, head |-> "Lt", consts |-> {}, bias |-> 0,
    evidence |-> {"role_head", "statement_fingerprint"}],
   [name |-> 4, words |-> {"zero", "add", "rw"}, head |-> "Dvd", consts |-> {}, bias |-> 1,
    evidence |-> {"role_head"}],
   [name |-> 5, words |-> {"zero"}, head |-> "Eq", consts |-> {"K"}, bias |-> 0, evidence |-> {}]}
Profile(heads, consts) ==
  [heads |-> heads, consts |-> consts, fragments |-> <<"add", "zero">>, structural |-> {"add"}]
MCGoals ==
  [profile : {Profile(<<"Eq", "Lt">>, <<"K">>), Profile(<<"Eq">>, <<>>), Profile(<<"Eq">>, <<"K">>),
              Profile(<<>>, <<"K">>)},
   mode : {"next_step", "exact", "rewrite", "simp"}, limit : {1, 3}]
=============================================================================
