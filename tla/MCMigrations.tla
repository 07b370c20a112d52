--------------------------- MODULE MCMigrations ---------------------------
(* Migrations over the shipped files. *)
EXTENDS Migrations, Schema

\* The checkouts that matter: before 110 replaced the view, before 140
\* replaced the watermark table, and today's.
ThreeReleases == {11, 14, 15}
=============================================================================
