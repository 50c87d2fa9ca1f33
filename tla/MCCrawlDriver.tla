---------------------------- MODULE MCCrawlDriver ----------------------------
(* A seed with two children that share a grandchild and link back. *)
EXTENDS CrawlDriver

CONSTANTS home, left, right, deep

Diamond == [u \in Url |-> CASE u = home -> {left, right}
                            [] u = left -> {deep, home}
                            [] u = right -> {deep}
                            [] u = deep -> {home}]

DelayAnswers == {None, 1, 3}       \* none, below and above politeness_delay
RetryAnswers == {None, 0, 7}       \* none, at once, beyond MAX_BACKOFF

=============================================================================
