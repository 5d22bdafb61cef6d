-------------------------- MODULE MCCrawlPipeline --------------------------
(* A store and two domains that are no host names, swept two by two.       *)
EXTENDS CrawlPipeline

CONSTANTS a, b, x, y, o1, o2, w1, w2
=============================================================================
