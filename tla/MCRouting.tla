----------------------------- MODULE MCRouting -----------------------------
(* Instances of Routing for TLC. *)
EXTENDS Routing

Text(number, domain) == [number |-> number, domain |-> domain]
Number(n) == Text(n, "")
Mail(d) == Text(<<>>, d)

Rule(type, value, egress, target, priority, active) ==
    [type |-> type, value |-> value, egress |-> egress, target |-> target,
     priority |-> priority, active |-> active]

\* A rule of every kind, the last but one without its target, the last inactive.
MCRouteBodies ==
    {Rule("msisdn_prefix", Number(<<"+", "4">>), "", "d1", 1, TRUE),
     Rule("msisdn_prefix", Number(<<"+", "4", "-", "6">>), "mm4", "d2", 0, TRUE),
     Rule("msisdn_exact", Number(<<"+", "4", "6">>), "local", "d1", 0, TRUE),
     Rule("recipient_domain", Mail("d1"), "mm3", "", 0, TRUE),
     Rule("recipient_domain", Mail("d1"), "mm4", "d2", 0, TRUE),
     Rule("msisdn_prefix", Number(<<"+", "4">>), "mm4", "", 2, TRUE),
     Rule("msisdn_exact", Number(<<"+", "4", "6">>), "reject", "", 1, FALSE)}

MCRecipients ==
    {<<Number(<<"+", "4", "6">>)>>, <<Mail("d1")>>,
     <<Number(<<"+", "4", "6">>), Number(<<"+", "4">>)>>,
     <<Number(<<>>), Number(<<"4">>)>>}
=============================================================================
