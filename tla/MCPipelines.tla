----------------------------- MODULE MCPipelines -----------------------------
(* Small instances of Pipelines. *)
EXTENDS Pipelines, TLC

CONSTANTS c1, c2, p1, p2, n1, n2, n3, x, y, s1, s2, r1, r2

RequestSymmetry == Permutations(Requests)

OneOwner == (p1 :> c1) @@ (p2 :> c1)

\* Two names that differ in punctuation only, and one that does not.
Slugs == (n1 :> "slug") @@ (n2 :> "slug") @@ (n3 :> "slug3")

Entry(n, s) == [node |-> n, secret |-> s]

\* A client that edits a redacted graph and takes its first exporter out.
Redactions == {<<Entry(x, s1), Entry(y, s2)>>, <<Entry(y, Redacted)>>}

\* The same, and a graph that is refused for its duplicate exporter.
WithDuplicate == Redactions \cup {<<Entry(x, s1), Entry(x, s1)>>}

=============================================================================
