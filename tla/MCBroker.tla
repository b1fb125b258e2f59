------------------------------ MODULE MCBroker ------------------------------
(* Broker with model values for the goroutines, which are interchangeable.   *)
EXTENDS Broker

\* No caller of Subscribe in the sources passes less than 1, but the code
\* accepts it; it is the argument that exercises the default.
NotPositive == {-1}
=============================================================================
