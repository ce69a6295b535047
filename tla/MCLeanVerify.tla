--------------------------- MODULE MCLeanVerify ---------------------------
(* A module of two provable declarations, and what it was before or becomes *)
(* after an edit; a module that is only built, only written, or both.      *)
EXTENDS LeanVerify, TLC
Content(a, b, s) == ("a" :> a) @@ ("b" :> b) @@ ("s" :> s) @@ (" " :> "not_found")
Whole == Content("verified", "verified", "closed")
Broken == Content("rejected", "not_found", "failed")
MCContents == {Whole, Broken}
Sources(a, b) == ("A" :> a) @@ ("B" :> b)
MCCheckouts == {[disk |-> Sources(a, b[1]), index |-> Sources(ix, b[2])] :
                  a \in {Whole, Broken}, ix \in {Whole, Absent},
                  b \in {<<Broken, Broken>>, <<Absent, Whole>>, <<Absent, Absent>>}}
Explicit(f, names) == [kind |-> "explicit", file |-> f, names |-> names]
All(kind, f) == [kind |-> kind, file |-> f, names |-> <<>>]
Ask(tool, targets, retry) == [tool |-> tool, targets |-> targets, retry |-> retry]
MCRequests ==
  {Ask("verify_targets", t, FALSE) : t \in {
     <<>>,
     <<Explicit("A", <<"a">>), Explicit("B", <<"b">>), Explicit("A", <<"b">>)>>,
     <<Explicit("A", <<"a", " ">>), All("file_all", "A")>>,
     <<All("file_all", "A"), All("module_all", "B")>>}}
  \cup {Ask("verify_targets", <<Explicit("A", <<"a", "a">>)>>, TRUE),
        Ask("try_proof_step", <<Explicit("A", <<" ", "s">>)>>, TRUE),
        Ask("try_proof_step", <<Explicit("A", <<" ">>)>>, FALSE)}
  \cup {Ask("verify_declaration", <<Explicit("A", <<n>>)>>, FALSE) : n \in {"b", " "}}
=============================================================================
