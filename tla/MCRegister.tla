----------------------------- MODULE MCRegister -----------------------------
EXTENDS Register
acc(p, f, as) == [prio |-> p, fb |-> f, afs |-> as]
MCAccounts == {<<acc(0, f, <<"v4">>), acc(1, g, <<"v6">>)>> : f, g \in BOOLEAN}
   \cup {<<acc(0, FALSE, <<"v4", "v6">>), acc(1, FALSE, <<"v4">>)>>}
MCLater == {<<>>, <<acc(0, FALSE, <<"v4">>)>>, <<acc(2, FALSE, <<"v6">>)>>}
MCFam == {"v4", "v6"}
=============================================================================
