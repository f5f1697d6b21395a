---------------------------- MODULE MCConnection ----------------------------
(* Constants for the model checking of Cyberctl with Connection. *)
EXTENDS Cyberctl, TLC

(* A letter which is no command, and whose low five bits are one.            *)
Letter == 129

RootName == <<Letter, NUL>>

(* Words as strings: two names which docs/endpoints.md has, one of NAME_MAX  *)
(* bytes, one which is longer, one with a slash, and the empty one.          *)
Spelling ==
  ("root" :> RootName) @@ ("start" :> <<Letter, Letter, NUL>>)
    @@ ("stop" :> <<Letter, Letter, Letter, NUL>>)
    @@ ("long" :> <<Letter, Letter, Letter, Letter, NUL>>)
    @@ ("slash" :> <<Slash, NUL>>) @@ ("" :> <<NUL>>)

(* The names of the program, commands and options; lines which are wrong.    *)
Lines ==
  {<<"suspend">>, <<"shutdown">>, <<"shutdown", "-P", "-r", "start">>, <<"shutdown", "-c">>,
   <<"cyberctl">>, <<"cyberctl", "-c">>, <<"cyberctl", "-x", "halt">>,
   <<"cyberctl", "-c", "root", "-c", "start", "poweroff">>, <<"cyberctl", "halt", "start">>,
   <<"cyberctl", "-c", "start", "start", "start">>, <<"cyberctl", "stop", "long">>,
   <<"cyberctl", "-c", "start", "stop", "stop">>, <<"cyberctl", "end", "slash">>,
   <<"cyberctl", "start", "">>, <<"cyberctl", "reload">>,
   <<"cyberctl", "create-endpoint", "start">>,
   <<"cyberctl", "create-endpoint", "root", "poweroff">>,
   <<"cyberctl", "create-endpoint", "start", "stop", "reload", "poweroff", "suspend">>,
   <<"cyberctl", "create-endpoint", "start", "stop", "reload", "poweroff", "create-endpoint">>}
=============================================================================
