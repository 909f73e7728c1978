---------------------------- MODULE MCSpiderCrawl ----------------------------
(* Small sites for the model checker. *)
EXTENDS SpiderCrawl, TLC

CONSTANTS w1, w2, s, a, b, c, d

ok(u) == [href |-> u, iflag |-> TRUE]
no(u) == [href |-> u, iflag |-> FALSE]

(* The seed lists a and b, a lists b too and goes back to the seed; the     *)
(* link to c is one the filters reject.                                    *)
Diamond ==
  [u \in Urls |-> CASE u = s -> <<ok(a), no(c), ok(b)>>
                    [] u = a -> <<ok(s), ok(b)>>
                    [] OTHER -> <<>>]

(* d lies two links below the seed by way of b, three by way of a and c. *)
TwoWays ==
  [u \in Urls |-> CASE u = s -> <<ok(a), ok(b)>>
                    [] u = a -> <<ok(c)>>
                    [] u = b -> <<ok(d)>>
                    [] u = c -> <<ok(d)>>
                    [] OTHER -> <<>>]

(* Every page lists more pages than the queue of two holds. *)
Wide ==
  [u \in Urls |-> CASE u = s -> <<ok(a), ok(b), ok(c), ok(d)>>
                    [] u = a -> <<ok(c), ok(d), ok(s)>>
                    [] OTHER -> <<>>]

WorkerSymmetry == Permutations(Workers)
=============================================================================
