------------------------------ MODULE MCInputs ------------------------------
\* A deploy over a contract and two env files.
EXTENDS Inputs

\* A contract with an escaped dollar sign, and one whose URL depends on PORT.
Plain ==
  [services |-> {"web"}, envFiles |-> Nothing,
   env |-> <<Dollar, Dollar, VarName("HOME")>>,
   url |-> <<Text("shop:"), Dollar, VarName("PORT")>>]
Listed ==
  [services |-> {"api"}, envFiles |-> <<2>>,
   env |-> <<Dollar, Braces("PORT", ":-", <<Text("80")>>)>>,
   url |-> <<Dollar, Braces("PORT", ":+", <<Text("shop")>>)>>]
MCContractTexts == {Plain, Listed, Garbled}

Port(stamp, value) == [stamp |-> stamp, vars |-> [PORT |-> value]]
MCEnvTexts == {Port(1, <<Text("1")>>), Port(1, <<Text("2")>>), Port(2, <<>>), Garbled}
MCToken ==
  {Dollar, Kept, VarName("HOME"), VarName("PORT"), Text("shop:"), Text("root"), Text("1"), Text("2"),
   Text("80"), Text("shop"), Braces("PORT", ":-", <<Text("80")>>),
   Braces("PORT", ":+", <<Text("shop")>>)}
MCDefaultFiles == <<1, 2>>
MCOSEnv == [HOME |-> <<Text("root")>>]
=============================================================================
