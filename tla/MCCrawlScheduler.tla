-------------------------- MODULE MCCrawlScheduler --------------------------
(* Two targets, one of them added later. *)
EXTENDS CrawlScheduler

CONSTANTS t1, t2

=============================================================================
