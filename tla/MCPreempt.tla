----------------------------- MODULE MCPreempt ------------------------------
(* Paths for the runs of Preempt: a slash in front, two in a row, one at the *)
(* end, and more components than parse_path has room for.                    *)
EXTENDS Preempt

MCPaths == {<<Slash>>,
            <<Slash, Letter, Slash, Slash, Letter>>,
            <<Letter, Slash, Letter, Slash, Letter, Slash>>}
=============================================================================
