---------------------------- MODULE MCSpiderCommon ----------------------------
(* A small site for the model checker, crawled in every mode.               *)
EXTENDS SpiderCommon

CONSTANTS s, a, b, c, d, e, name, more

ok(u, t) == [href |-> u, text |-> t, iflag |-> TRUE]
no(u, t) == [href |-> u, text |-> t, iflag |-> FALSE]

(* a lists the seed and b again; both lead down to d, on walks of different *)
(* length, and d to e and back up; the short way from b to e is one the     *)
(* filters reject.  b is looked at before a, and has a text that is wanted  *)
(* where a has none.                                                        *)
Knot ==
  [u \in Urls |-> CASE u = s -> <<ok(a, NoText), ok(b, name)>>
                    [] u = a -> <<ok(s, more), ok(b, more), ok(c, NoText)>>
                    [] u = b -> <<no(e, name), ok(d, more)>>
                    [] u = c -> <<ok(d, NoText), ok(a, name)>>
                    [] u = d -> <<ok(e, NoText), ok(c, more)>>
                    [] OTHER -> <<ok(c, more)>>]

AllModes == SUBSET OptionNames
=============================================================================
