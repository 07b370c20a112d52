------------------------------- MODULE Schema -------------------------------
(***************************************************************************)
(* The migrations the repository ships (schemas/clickhouse/*.sql), in file *)
(* order.  A file is the sequence of its statements; a statement is its    *)
(* effect on the set of tables, views and dictionaries, and the objects    *)
(* ClickHouse must find for it to succeed.  Columns, engines and queries   *)
(* are left out; what the views do to rows is modelled elsewhere.          *)
(***************************************************************************)
EXTENDS Sequences

\* CREATE ... IF NOT EXISTS; a view or a dictionary names other objects.
Create(table, needs) == [op |-> "create", table |-> table, from |-> table, needs |-> needs]

\* DROP ... IF EXISTS
Drop(table) == [op |-> "drop", table |-> table, from |-> table, needs |-> {}]

\* INSERT INTO table SELECT ... FROM from
Copy(from, table) == [op |-> "copy", table |-> table, from |-> from, needs |-> {from, table}]

\* RENAME TABLE from TO table
Rename(from, table) == [op |-> "rename", table |-> table, from |-> from, needs |-> {from}]

F000 == <<Create("telemetry", {})>>
F010 == <<Create("kafka_spans", {"telemetry"})>>
F020 == <<Create("spans_raw", {"telemetry"})>>
F030 == <<Create("mv_spans_raw", {"kafka_spans", "spans_raw"})>>
F040 == <<Create("spans_ingest_errors", {"telemetry"})>>
F050 == <<Create("mv_spans_ingest_errors", {"kafka_spans", "spans_ingest_errors"})>>
F060 == <<Create("dim_allowlist", {"telemetry"}),
          Create("dim_allowlist_dict", {"telemetry"})>>
F070 == <<Create("spans_1m", {"telemetry"})>>
F080 == <<Create("mv_spans_1m", {"spans_raw", "spans_1m", "dim_allowlist_dict"})>>
F090 == <<Create("spans_1h", {"telemetry"})>>
F100 == <<Create("mv_spans_1h", {"spans_1m", "spans_1h"})>>
F110 == <<Drop("mv_spans_1m"),
          Create("mv_spans_1m", {"spans_raw", "spans_1m", "dim_allowlist_dict"})>>
F120 == <<Create("pipeline_health", {"telemetry"})>>
F130 == <<Create("cold_export_watermark", {"telemetry"})>>

\* Mutant of F140: the old table is dropped before its row is copied.
F140DropsFirst == <<Create("cold_export_watermark_v2", {"telemetry"}),
          Drop("cold_export_watermark"),
          Copy("cold_export_watermark", "cold_export_watermark_v2"),
          Rename("cold_export_watermark_v2", "cold_export_watermark")>>

F140 == <<Create("cold_export_watermark_v2", {"telemetry"}),
          Copy("cold_export_watermark", "cold_export_watermark_v2"),
          Drop("cold_export_watermark"),
          Rename("cold_export_watermark_v2", "cold_export_watermark")>>

Shipped ==
  <<F000, F010, F020, F030, F040, F050, F060, F070, F080, F090, F100, F110,
    F120, F130, F140>>
=============================================================================
