------------------------------ MODULE MCOutbox ------------------------------
(* Model checking of Outbox: u1 stays, may mute email and has a page open,   *)
(* u2 comes and goes.                                                        *)
EXTENDS Outbox

CONSTANTS u1, u2, p1, p2

MutableEmail == {<<u1, "email">>}
Pages == [t \in Tabs |-> IF t = p1 THEN u1 ELSE u2]
=============================================================================
