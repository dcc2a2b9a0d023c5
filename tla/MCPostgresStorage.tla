------------------------- MODULE MCPostgresStorage -------------------------
(* A small instance of PostgresStorage for TLC. *)
EXTENDS PostgresStorage, TLC

CONSTANTS c1, c2, c3

Op(kind, rows) == [kind |-> kind, rows |-> rows]
Work(o1, o2, o3) == c1 :> o1 @@ c2 :> o2 @@ c3 :> o3

AB == Op("batch", <<"a", "b">>)
BA == Op("batch", <<"b", "a">>)
AA == Op("batch", <<"a", "a">>)
GA == Op("batch", <<"g", "a">>)
A  == Op("update", <<"a">>)
G  == Op("update", <<"g">>)

\* Batches that meet in opposite order beside a single update or a snapshot,
\* single updates of one counter beside a batch that names it twice, and
\* updates of a gauge beside a read.
SmallWorkloads ==
    {Work(AB, BA, A), Work(AB, BA, Op("snapshot", <<>>)), Work(AA, A, A), Work(GA, G, Op("get", <<"g">>))}
=============================================================================
