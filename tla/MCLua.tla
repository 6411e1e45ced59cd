-------------------------------- MODULE MCLua -------------------------------
(***************************************************************************)
(* Instances of LuaProps: tables whose metatables say each __mode.         *)
(***************************************************************************)
EXTENDS LuaProps

CONSTANTS ts, tk, tv, tkv

MCMode ==
  [h \in Table |-> CASE h = ts -> "strong" [] h = tk -> "k" [] h = tv -> "v" [] h = tkv -> "kv"]
=============================================================================
