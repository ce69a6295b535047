----------------------------- MODULE Toolchain -----------------------------
(***************************************************************************)
(* Where a toolchain pin sits relative to the releases lean-rs supports,   *)
(* which release an unsupported pin is told to migrate to, and in which    *)
(* order toolchains are listed.                                            *)
(*                                                                         *)
(* A numbered pin is its version_key <<major, minor, patch, rc_flag, rc>>, *)
(* rc_flag 0 for a candidate and 1 for the release; any other pin (a       *)
(* nightly) is in Others. version_scalar's weights are the powers of       *)
(* Base: 1000 in the code, small for TLC.                                  *)
(***************************************************************************)
EXTENDS Integers, Sequences

CONSTANTS Base, Others

ASSUME ToolchainConstants == Base \in Nat /\ Base > 1

Keys == (0..Base - 1) \X (0..Base - 1) \X (0..Base - 1) \X {0, 1} \X (0..Base - 1)

Before(a, b) ==
  \/ a[1] < b[1]
  \/ a[1] = b[1] /\ a[2] < b[2]
  \/ a[1] = b[1] /\ a[2] = b[2] /\ a[3] < b[3]
  \/ a[1] = b[1] /\ a[2] = b[2] /\ a[3] = b[3] /\ a[4] < b[4]
  \/ a[1] = b[1] /\ a[2] = b[2] /\ a[3] = b[3] /\ a[4] = b[4] /\ a[5] < b[5]

ScalarWithoutFlag(k) == ((k[1] * Base + k[2]) * Base + k[3]) * Base + k[5]
version_scalar(k) == (((k[1] * Base + k[2]) * Base + k[3]) * Base + k[4]) * Base + k[5]

abs_diff(a, b) == IF a < b THEN b - a ELSE a - b
version_distance(a, b) == abs_diff(version_scalar(a), version_scalar(b))

(* SUPPORTED_TOOLCHAINS: entries in ascending order, each a sequence of    *)
(* versions of which the first is canonical.                               *)
Canonical(entries) == {entries[i][1] : i \in 1..Len(entries)}
supported_for(entries, pin) ==
  \E i \in 1..Len(entries) : \E j \in 1..Len(entries[i]) : entries[i][j] = pin

\* out_of_window_bounds: a closest canonical release. Of two as close the code
\* takes the one whose spelling is greater; the properties hold of either.
nearest(entries, pin) ==
  {v \in Canonical(entries) : \A w \in Canonical(entries) :
     version_distance(v, pin) <= version_distance(w, pin)}

window_verdict(entries, pin) ==
  IF supported_for(entries, pin) THEN "supported"
  ELSE IF pin \in Others THEN "unknown" ELSE "out_of_window"

\* ToolchainId::sort_key: numbered releases in version order, then the rest.
ListedBefore(a, b) ==
  IF a \in Others \/ b \in Others THEN a \notin Others ELSE Before(a, b)

-----------------------------------------------------------------------------
(* version_scalar is what "nearest" measures with: it must put versions in  *)
(* the order the listing and the window do, a candidate before its release *)
(* and after every earlier patch.                                          *)
ScalarKeepsOrder(a, b) == Before(a, b) <=> version_scalar(a) < version_scalar(b)

(* The advice given for an unsupported pin can be followed: the pin it      *)
(* names is supported, and no release closer in version order was passed   *)
(* over on the same side.                                                  *)
AdviceIsNeighbour(entries, pin) ==
  window_verdict(entries, pin) = "out_of_window" =>
    \A advised \in nearest(entries, pin) :
      /\ window_verdict(entries, advised) = "supported"
      /\ \A v \in Canonical(entries) :
           ~(Before(pin, v) /\ Before(v, advised)) /\ ~(Before(advised, v) /\ Before(v, pin))
=============================================================================
