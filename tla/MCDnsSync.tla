----------------------------- MODULE MCDnsSync -----------------------------
(***************************************************************************)
(* An instance of DnsSync for TLC: a hostname that two nested zones may    *)
(* own, and with which other zones share only letters.                     *)
(***************************************************************************)
EXTENDS DnsSync

Nested == {<<"a", ".", "a", ".", "a">>}

\* Nothing tells one tunnel, or one target, from another.
Interchangeable == Permutations(DnsTunnels) \cup Permutations(CFTargets)
=============================================================================
