-------------------------- MODULE MCControlEgress --------------------------
(* A small instance of ControlEgress.                                       *)
EXTENDS ControlEgress

(* One domain moves between families and may be answered with 0.0.0.0; the *)
(* other keeps its address and may be answered with a zoned one only.      *)
MCDomains == <<"login", "derp">>
MCAnswers == [d \in {"login", "derp"} |->
                IF d = "login" THEN {{"a4"}, {"a6"}, {"zero"}} ELSE {{"b4"}, {"zoned"}}]
MCAddresses == {"a4", "a6", "b4", "zero", "ns1", "ns2"}
MCAccepted == MCAddresses \ {"zero"}

(* Two name servers, one of them listed twice; a line that is wrong.       *)
MCResolvConfs == {<<"ns1", "ns2", "ns1">>, <<"ns2", "bad">>}
=============================================================================
