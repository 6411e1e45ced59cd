------------------------------ MODULE MCCrawl ------------------------------
(***************************************************************************)
(* Small instances of Crawl for TLC.                                       *)
(***************************************************************************)
EXTENDS CrawlProps, TLC

WorkerSymmetry == Permutations(Worker)
=============================================================================
