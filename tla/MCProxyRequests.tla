-------------------------- MODULE MCProxyRequests --------------------------
(* In the main instance two GETs of x and one of y arrive at worker w1 and a
   POST at w2.  In the instance with a HEAD all three requests name x. *)
EXTENDS ProxyRequests

CONSTANTS a, b, c, d, w1, w2, x, y

Four == {a, b, c, d}
Three == {a, b, c}
TwoWorkers == {w1, w2}
TwoKeys == {x, y}
WorkerMap == [r \in Requests |-> IF r = d THEN w2 ELSE w1]
Mixed == [r \in Requests |-> IF r = c THEN y ELSE x]
AllX == [r \in Requests |-> x]
OnePost == [r \in Requests |-> IF r = d THEN "POST" ELSE "GET"]
OneHead == [r \in Requests |-> IF r = a THEN "HEAD" ELSE "GET"]
=============================================================================
