-------------------------------- MODULE MCRun --------------------------------
(***************************************************************************)
(* Instances of FexRun and FexMain.  Scripts may do anything that their    *)
(* features allow, within a small step limit.                              *)
(***************************************************************************)
EXTENDS FexMain

CONSTANTS m1, m2

MCScripts ==
  {{"import", "module"}, {"import", "native", "reenter"}, {"import", "badfile", "module", "native"},
   {"native", "reenter", "ignore"}}

\* Each input with and without JSON, the REPL, and every way to be refused.
MCCommandLines ==
  {<<>>, <<"-e", "c">>, <<"--json-output", "f">>, <<"-I", "d", "--builtins", "--", "-x">>,
   <<"--stats", "-">>, <<"--json-output", "-e", "", "-">>,
   <<"-e", "c", "-e", "">>, <<"-e", "c", "f">>, <<"f", "-e", "c">>, <<"-", "-">>,
   <<"--version">>, <<"-e", "c", "-h">>, <<"-x">>, <<"-e">>, <<"--max-steps", "x">>,
   <<"--memory-pool-size", "0">>, <<"--max-steps", "0", "--builtin", "list", "--builtin", "lists">>}

=============================================================================
