----------------------------- MODULE Namespace -----------------------------
(***************************************************************************)
(* What a mounted archive promises of its names, whatever FileSystem does  *)
(* with nodes, keys, children and pathnames underneath: a function from    *)
(* paths to "none", "file" or "dir", changed only by                       *)
(*   - adding a path (with any missing ancestors as directories),          *)
(*   - removing paths together with everything below them, and            *)
(*   - moving a path with everything below it to a free path or over an    *)
(*     entry of the same kind, whose own subtree goes away.               *)
(* FileTree is shown to implement it through the pathnames of its live     *)
(* nodes (FileTree!NamespaceRefined).                                       *)
(***************************************************************************)
EXTENDS Sequences, SequencesExt

CONSTANT Paths  \* the paths the model enumerates

VARIABLE ns

Kinds == {"none", "file", "dir"}

\* p is a top-level name or sits in a directory.
InDir(p) == Len(p) = 1 \/ ns[Front(p)] = "dir"

\* The path below p that corresponds to r below q.
Rebase(r, q, p) == p \o SubSeq(r, Len(q) + 1, Len(r))

NInit == ns = [q \in Paths |-> "none"]

Add(p, t) ==
  /\ ns[p] = "none"
  /\ \A k \in 1..(Len(p) - 1) : ns[SubSeq(p, 1, k)] # "file"
  /\ ns' = [q \in Paths |-> IF q = p THEN t
                            ELSE IF IsStrictPrefix(q, p) /\ ns[q] = "none" THEN "dir"
                            ELSE ns[q]]

\* Some paths go, each with everything below it, and nothing else changes.
Drop ==
  /\ ns' # ns
  /\ \A q \in Paths : ns'[q] \in {ns[q], "none"}
  /\ \A q, r \in Paths : ns'[q] # ns[q] /\ IsPrefix(q, r) => ns'[r] = "none"

Move(p, q) ==
  /\ ns[p] # "none"
  /\ ~IsPrefix(p, q) /\ ~IsPrefix(q, p)
  /\ InDir(q)
  /\ ns[q] \in {"none", ns[p]}
  /\ \A r \in Paths : IsPrefix(p, r) /\ ns[r] # "none" => Rebase(r, p, q) \in Paths
  /\ ns' = [r \in Paths |-> IF IsPrefix(q, r) THEN
                              (IF Rebase(r, q, p) \in Paths THEN ns[Rebase(r, q, p)] ELSE "none")
                            ELSE IF IsPrefix(p, r) THEN "none"
                            ELSE ns[r]]

NNext ==
  \/ \E p \in Paths, t \in {"file", "dir"} : Add(p, t)
  \/ Drop
  \/ \E p, q \in Paths : Move(p, q)

NSpec == NInit /\ [][NNext]_ns

=============================================================================
