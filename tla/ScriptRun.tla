------------------------------- MODULE ScriptRun -------------------------------
(***************************************************************************)
(* What Import of internal/routeros/export.go promises to its caller, with *)
(* no chunks, no restore file and no limit: the commands of the script run *)
(* in their order, each once and in its menu of the script.  The call may  *)
(* break off anywhere, and the device may even go on for a while when it   *)
(* has failed; but it reports success only when all of them have run, and  *)
(* refuses only a script of which none has run, or will.                   *)
(***************************************************************************)
EXTENDS Naturals, SequencesExt

CONSTANT CommandsOf(_)  \* what a script does

VARIABLES script,
          ran,       \* what has been done of it
          outcome    \* "none", or how the call ended

runVars == <<script, ran, outcome>>

ScriptRunInit == ran = <<>> /\ outcome = "none"

RunSome ==
  /\ outcome \in {"none", "failed"}
  /\ Len(ran) < Len(ran')
  /\ IsPrefix(ran, ran') /\ IsPrefix(ran', CommandsOf(script))
  /\ UNCHANGED <<script, outcome>>

EndRun(result) ==
  /\ outcome = "none" /\ outcome' = result
  /\ result = "ok" => ran = CommandsOf(script)
  /\ result = "refused" => ran = <<>>
  /\ UNCHANGED <<script, ran>>

ScriptRunNext == RunSome \/ \E result \in {"ok", "refused", "failed"} : EndRun(result)

ScriptRunSpec == ScriptRunInit /\ [][ScriptRunNext]_runVars
================================================================================
