----------------------------- MODULE MCCrawlJobs -----------------------------
(***************************************************************************)
(* Instances of CrawlJobs for TLC.                                          *)
(***************************************************************************)
EXTENDS CrawlJobs, TLC
=============================================================================
