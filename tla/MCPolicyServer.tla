--------------------------- MODULE MCPolicyServer ---------------------------
(***************************************************************************)
(* SystemRun for TLC: trigger strings with marks in both cases, in both    *)
(* orders, with empty parts and with none.                                 *)
(***************************************************************************)
EXTENDS SystemRun

PluginTriggers ==
  {<<>>, <<"Once">>, <<"DOMAIN", Sep>>, <<"cms", Sep, Sep, "domain", Sep, "ONCE">>}

TaskTriggers == {<<>>, <<Sep, "Cms", Sep, "cms">>}
=============================================================================
