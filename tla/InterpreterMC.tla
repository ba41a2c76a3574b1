--------------------------- MODULE InterpreterMC ----------------------------
(***************************************************************************)
(* The instance of Interpreter that TLC checks: capabilities for files and *)
(* for the language model, with a directory for a scope.                   *)
(***************************************************************************)
EXTENDS Interpreter

CONSTANTS data, none, m1, m2

MCMatches == {<<data, data>>}
Of(ty, scope) == [ty |-> ty, scope |-> scope]
MCAutoGrants == {Of("llm", none)}
MCRequirable == {Of("file", data)}
MCDeclarations == {{Of("file.read", data), Of("llm", none)}, {Of("file", none), Of("file", data)}}
MCCeilings == {{Of("file.read", none)}}
ModuleSymmetry == Permutations({m1, m2})
=============================================================================
