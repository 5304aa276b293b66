---------------------------- MODULE MCRagIngest ----------------------------
(***************************************************************************)
(* RagIngest.cfg: two collections, one of them made from the repository.   *)
(* RagIngestConcurrent.cfg: one collection of two documents, so that       *)
(* concurrent calls meet on the same object.                               *)
(***************************************************************************)
EXTENDS RagIngest

MCOrder    == <<"ocp_docs", "operator_code">>
MCColls    == {"ocp_docs", "operator_code"}
MCRepo     == {"operator_code"}
MCVersions == 0..MaxVersion

OneOrder == <<"operator_code">>
=============================================================================
