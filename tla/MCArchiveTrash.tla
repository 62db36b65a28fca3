--------------------------- MODULE MCArchiveTrash ---------------------------
(* Small instances of ArchiveTrash for TLC.                                *)
EXTENDS ArchiveTrash, TLC

CONSTANTS jsonl, zst, other, r1, r2, s1, s2

(* r1 has a plain file and its compressed twin, r2 one file. *)
MCFiles == {jsonl, zst, other}
MCAge == (jsonl :> 1) @@ (zst :> 2) @@ (other :> 3)
MCRollouts == {r1, r2}
MCRolloutOf == (jsonl :> r1) @@ (zst :> r1) @@ (other :> r2)
MCPlainOf == (r1 :> jsonl) @@ (r2 :> other)
MCStages == {s1, s2}
MCSatOrder == <<"logs", "memories">>

Alike == Permutations(MCStages)
=============================================================================
