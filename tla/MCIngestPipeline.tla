-------------------------- MODULE MCIngestPipeline --------------------------
(* Instances of IngestPipeline for TLC. *)
EXTENDS IngestPipeline, TLC

CONSTANTS u1, u2, x1, x2

\* An NDJSON import and a posted batch that share one id.
MCKind    == (u1 :> "ndjson") @@ (u2 :> "post")
MCCarries == (u1 :> {x1, x2}) @@ (u2 :> {x1})

\* Two imports, the second in Parquet.
ImportKind == (u1 :> "ndjson") @@ (u2 :> "parquet")

\* One import.
OneImport  == u1 :> "ndjson"
OneCarries == u1 :> {x1, x2}
=============================================================================
