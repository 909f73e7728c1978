---------------------------- MODULE MCSpiderSystem ----------------------------
(* One small site, crawled, stopped and crawled again. *)
EXTENDS SpiderSystem, TLC

CONSTANTS w1, w2, s, a, b, c

ok(u) == [href |-> u, iflag |-> TRUE]

(* The seed lists two pages, the second of which lists the first and a third, *)
(* and that one leads back to the second.                                     *)
Site ==
  [u \in Urls |-> CASE u = s -> <<ok(a), ok(b)>>
                    [] u = b -> <<ok(c), ok(a)>>
                    [] u = c -> <<ok(b)>>
                    [] OTHER -> <<>>]

(* Two pages that the seed lists, one of which lists the other. *)
Pair ==
  [u \in Urls |-> CASE u = s -> <<ok(a), ok(b)>>
                    [] u = a -> <<ok(b)>>
                    [] OTHER -> <<>>]

WorkerSymmetry == Permutations(Workers)
=============================================================================
