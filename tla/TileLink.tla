------------------------------ MODULE TileLink ------------------------------
(***************************************************************************)
(* The part of the TileLink vocabulary (ip/tl/rtl/tl_pkg.sv) that the      *)
(* caches, the LLC and the hubs share.  A burst's opcode and param are     *)
(* kept as strings; permissions are N (none), B (branch) and T (trunk).    *)
(***************************************************************************)

Perms == {"N", "B", "T"}

\* Permission order N < B < T.
PermLeq(p, q) == p = q \/ p = "N" \/ q = "T"

\* A-channel growth requested, B/D-channel cap, C-channel report.
GrowParams == {"NtoB", "NtoT", "BtoT"}
CapParams == {"toT", "toB", "toN"}
ReportParams == {"TtoB", "TtoN", "BtoN", "TtoT", "BtoB", "NtoN"}

\* The permission a cap leaves, and the permission a report ends in.
CapPerm(cap) == CASE cap = "toT" -> "T" [] cap = "toB" -> "B" [] cap = "toN" -> "N"
ReportPerm(param) ==
    CASE param \in {"TtoN", "BtoN", "NtoN"} -> "N"
      [] param \in {"TtoB", "BtoB"} -> "B"
      [] param = "TtoT" -> "T"

COpcodes == {"ProbeAck", "ProbeAckData", "Release", "ReleaseData"}
HasCData(opcode) == opcode \in {"ProbeAckData", "ReleaseData"}
IsRelease(opcode) == opcode \in {"Release", "ReleaseData"}

=============================================================================
