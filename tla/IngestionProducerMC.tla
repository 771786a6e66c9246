------------------------- MODULE IngestionProducerMC -------------------------
(* A small ingestion worker for TLC. *)
EXTENDS IngestionProducer

CONSTANTS rss, election, trump
=============================================================================
