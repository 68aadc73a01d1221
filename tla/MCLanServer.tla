---------------------------- MODULE MCLanServer ----------------------------
(* Two connections; a laptop with the token, one with an old token, links of
   the simple door under both names, an order whose length is not declared,
   and one that is too long for the buffer. *)
EXTENDS LanServer

CONSTANTS t1, t2, k1

On == [enabled |-> TRUE, on |-> TRUE, locate |-> TRUE, token |-> t1, key |-> k1]

TheConfigs == {On,
               [On EXCEPT !.enabled = FALSE],
               [On EXCEPT !.token = t2, !.locate = FALSE, !.key = Nothing],
               [On EXCEPT !.token = Nothing]}

Order == [kind |-> "order", secret |-> t1, verb |-> "where", older |-> FALSE,
          body |-> 1, declared |-> 1]

Link == [kind |-> "simple", secret |-> k1, verb |-> "ring", older |-> FALSE,
         body |-> 0, declared |-> 0]

TheRequests == {Order, [Order EXCEPT !.declared = 0],
                [Order EXCEPT !.body = 3, !.declared = 3, !.secret = t2],
                [Order EXCEPT !.kind = "state", !.body = 0, !.declared = 0],
                Link, [Link EXCEPT !.older = TRUE], [Link EXCEPT !.verb = "where"],
                [Link EXCEPT !.secret = Nothing]}
=============================================================================
