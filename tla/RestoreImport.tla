----------------------------- MODULE RestoreImport -----------------------------
(***************************************************************************)
(* Import of apiClient (internal/routeros/export.go): an exported          *)
(* configuration is split into chunks that fit the contents of a file on   *)
(* the device, and each chunk is written to the restore file and run with  *)
(* /import.  A run starts at the root menu, so a chunk must repeat the     *)
(* path line its first command depends on.                                 *)
(*                                                                         *)
(* A line of the script is a path line ("/ip address"), a command, a       *)
(* comment or blank.  Of its characters the model keeps their number, with *)
(* the newline, and the unescaped ones that decide where a statement ends: *)
(* quotes, braces and a trailing backslash.  Scripts have the form of      *)
(* exports: a path line stands alone, and only commands have quotes,       *)
(* braces or backslashes.                                                  *)
(***************************************************************************)
EXTENDS Naturals, Sequences, FiniteSets, SequencesExt

CONSTANTS Scripts,   \* scripts to import
          MaxBytes,  \* maxRestoreFileContentsBytes
          Absent     \* no such file

Marks == {"double", "single", "open", "close", "backslash"}

Lines == [kind: {"path", "command", "comment", "blank"}, menu: STRING, size: Nat \ {0},
          marks: Seq(Marks)]

ASSUME ImportAssumption ==
  /\ \A s \in Scripts :
       /\ s \in Seq(Lines)
       /\ \A i \in DOMAIN s : s[i].kind # "command" => s[i].marks = <<>>
  /\ MaxBytes \in Nat \ {0}
  /\ Absent # <<>>

VARIABLES script,    \* the script
          files,     \* the restore files on the device: contents, or Absent
          fileName,  \* the one in use
          at,        \* the next command of importViaFile
          chunks,    \* chunks to run
          importErr, \* a chunk failed
          executed,  \* commands the device has run, with the menu they ran in
          running,   \* those of a timed-out /import that it may still run
          result     \* "none", or how the call ended

importVars == <<script, files, fileName, at, chunks, importErr, executed, running, result>>

--------------------------------------------------------------------------------
(* Statements. *)

NoQuote == "none"

ScanChar(state, c) ==
  CASE state.quote # NoQuote -> IF c = state.quote THEN [state EXCEPT !.quote = NoQuote] ELSE state
    [] state.quote = NoQuote /\ c \in {"double", "single"} -> [state EXCEPT !.quote = c]
    [] state.quote = NoQuote /\ c = "open" -> [state EXCEPT !.depth = @ + 1]
    [] state.quote = NoQuote /\ c = "close" -> [state EXCEPT !.depth = IF @ > 0 THEN @ - 1 ELSE 0]
    [] state.quote = NoQuote /\ c = "backslash" -> state

scanRestoreLine(line, state) == FoldLeft(ScanChar, state, line.marks)

Continued(line, state) ==
  state.quote = NoQuote /\ line.marks # <<>> /\ Last(line.marks) = "backslash"

(* The bytes of lines, or of statements. *)
Bytes(texts) == FoldLeft(LAMBDA n, text : n + text.size, 0, texts)

(* The statement of some lines.  (For one that ends with a backslash and   *)
(* an empty last line, this is a byte more than the code counts.)          *)
Statement(lines) ==
  [kind |-> lines[1].kind, menu |-> lines[1].menu, first |-> lines[1].size,
   size |-> Bytes(lines), text |-> lines]

Finish(state) ==
  IF state.current = <<>> \/ state.current[1].kind = "blank"
    THEN [state EXCEPT !.current = <<>>]
    ELSE [state EXCEPT !.current = <<>>, !.statements = Append(@, Statement(state.current))]

AddLine(state, line) ==
  LET read == [scanRestoreLine(line, state) EXCEPT !.current = Append(@, line)]
  IN IF read.quote # NoQuote \/ read.depth > 0 \/ Continued(line, read)
       THEN read
       ELSE Finish(read)

Read(lines) ==
  FoldLeft(AddLine, [quote |-> NoQuote, depth |-> 0, current |-> <<>>, statements |-> <<>>],
           lines)

Unterminated(lines) == Read(lines).quote # NoQuote \/ Read(lines).depth > 0

restoreStatements(lines) == Finish(Read(lines)).statements

--------------------------------------------------------------------------------
(* Chunks.  A chunk is a sequence of statements; a repeated path line is a *)
(* statement of its own.                                                   *)

NoPath == <<>>

PathLine(s) == [s EXCEPT !.size = s.first]

(* What statement s adds to the chunk being filled. *)
Addition(state, s) ==
  IF ~state.hasPath /\ state.path # NoPath /\ s.kind = "command"
    THEN Append(state.path, s)
    ELSE <<s>>

\* Mutant: the next chunk is taken to be under the path of this one.
FlushKeepingPath(state) ==
  IF state.current = <<>> THEN state
  ELSE [state EXCEPT !.chunks = Append(@, state.current), !.current = <<>>]

Flush(state) ==
  IF state.current = <<>> THEN state
  ELSE [state EXCEPT !.chunks = Append(@, state.current), !.current = <<>>, !.hasPath = FALSE]

\* Mutant: only the statement is measured, not the path line before it.
TooLongAlone(addition) == Last(addition).size > MaxBytes

\* Mutant: a statement that fills a chunk exactly is refused.
NotShorter(addition) == Bytes(addition) >= MaxBytes

TooLong(addition) == Bytes(addition) > MaxBytes

Fits(state, s) == Bytes(state.current) + Bytes(Addition(state, s)) <= MaxBytes

Write(state, s) ==
  [state EXCEPT !.current = @ \o Addition(state, s),
                !.hasPath = @ \/ s.kind = "path" \/ (state.path # NoPath /\ s.kind = "command")]

(* One turn of the loop, and the second one for a statement that needs a   *)
(* new chunk.                                                              *)
AddStatement(before, s) ==
  LET state == IF s.kind = "path" THEN [before EXCEPT !.path = <<PathLine(s)>>] ELSE before
      opened == IF Fits(state, s) THEN state ELSE Flush(state)
  IN IF before.refused \/ TooLong(Addition(state, s)) \/ TooLong(Addition(opened, s))
       THEN [before EXCEPT !.refused = TRUE]
       ELSE Write(opened, s)

splitRestoreScript(lines) ==
  Flush(FoldLeft(AddStatement,
                 [chunks |-> <<>>, current |-> <<>>, path |-> NoPath, hasPath |-> FALSE,
                  refused |-> FALSE],
                 restoreStatements(lines)))

--------------------------------------------------------------------------------
(* The device. *)

RootMenu == "/"

Run(state, s) ==
  CASE s.kind = "path" -> [state EXCEPT !.menu = s.menu]
    [] s.kind = "command" -> [state EXCEPT !.done = Append(@, <<state.menu, s.text>>)]
    [] s.kind = "comment" -> state

(* The commands a run of /import executes. *)
Executed(statements) == FoldLeft(Run, [menu |-> RootMenu, done |-> <<>>], statements).done

(* What a file holds that /file/print has made: nothing of the script. *)
Listing == <<>>

\* Mutant: leftovers are looked for under one name only.
restoreFileNameOnly == <<"restore">>

restoreFileNames == <<"restore", "restore.txt">>

Names == {"restore", "restore.txt"}
Present == {name \in Names : files[name] # Absent}

--------------------------------------------------------------------------------
ImportInit ==
  /\ script \in Scripts
  /\ files \in [Names -> {Absent, Listing}]      \* a call that broke off left some
  /\ fileName = "none"
  /\ at = "leftovers"
  /\ chunks = <<>>
  /\ importErr = FALSE
  /\ executed = <<>>
  /\ running = <<>>
  /\ result = "none"

End(r) == at' = "done" /\ result' = r

Goto(step) == at' = step /\ UNCHANGED result

Blank(lines) == \A i \in DOMAIN lines : lines[i].kind = "blank"

(* Import: an empty script is an error. *)
RefuseBlank ==
  /\ at = "leftovers" /\ Blank(script)
  /\ End("refused")
  /\ UNCHANGED <<script, files, fileName, chunks, importErr, executed, running>>

RemoveLeftovers ==
  /\ at = "leftovers" /\ ~Blank(script)
  /\ files' = [name \in Names |-> IF name \in Range(restoreFileNames) THEN Absent ELSE files[name]]
  /\ Goto("split")
  /\ UNCHANGED <<script, fileName, chunks, importErr, executed, running>>

(* A script with an open statement, or with one that is too long, is       *)
(* refused before anything is written.                                     *)
Split ==
  LET split == splitRestoreScript(script)
  IN /\ at = "split"
     /\ IF Unterminated(script) \/ split.refused \/ split.chunks = <<>>
          THEN End("refused") /\ UNCHANGED chunks
          ELSE Goto("create") /\ chunks' = split.chunks
     /\ UNCHANGED <<script, files, fileName, importErr, executed, running>>

(* The device chooses between the names; its answer may identify the file. *)
Create ==
  \E name \in Names, next \in {"write", "lookup"} :
    /\ at = "create"
    /\ files' = [files EXCEPT ![name] = Listing]
    /\ fileName' = IF next = "write" THEN name ELSE fileName
    /\ Goto(next)
    /\ UNCHANGED <<script, chunks, importErr, executed, running>>

lookupRestoreFile ==
  /\ at = "lookup" /\ Present # {}
  /\ fileName' = IF "restore" \in Present THEN "restore" ELSE "restore.txt"
  /\ Goto("write")
  /\ UNCHANGED <<script, files, chunks, importErr, executed, running>>

WriteChunk ==
  /\ at = "write"
  /\ files' = [files EXCEPT ![fileName] = Head(chunks)]
  /\ Goto("import")
  /\ UNCHANGED <<script, fileName, chunks, importErr, executed, running>>

RunImport ==
  /\ at = "import"
  /\ executed' = executed \o Executed(files[fileName])
  /\ chunks' = Tail(chunks)
  /\ Goto(IF chunks' = <<>> THEN "remove" ELSE "write")
  /\ UNCHANGED <<script, files, fileName, importErr, running>>

(* /import stops at a command of the chunk that fails, or it takes longer  *)
(* than routerOSBackupTimeout and the device may go on with the others.    *)
RunPartly(whole) ==
  \E n \in 0 .. Len(whole) :
    /\ executed' = executed \o SubSeq(whole, 1, n)
    /\ running' \in {<<>>, SubSeq(whole, n + 1, Len(whole))}

\* Mutant: the loop goes on after a chunk that failed.
ImportFailsUnnoticed ==
  /\ at = "import"
  /\ RunPartly(Executed(files[fileName]))
  /\ importErr' = TRUE
  /\ chunks' = Tail(chunks)
  /\ Goto(IF chunks' = <<>> THEN "remove" ELSE "write")
  /\ UNCHANGED <<script, files, fileName>>

ImportFails ==
  /\ at = "import"
  /\ RunPartly(Executed(files[fileName]))
  /\ importErr' = TRUE
  /\ Goto("remove")
  /\ UNCHANGED <<script, files, fileName, chunks>>

(* What the device does of it after that, also when the call has ended. *)
RunOn ==
  /\ running # <<>>
  /\ executed' = Append(executed, Head(running))
  /\ running' = Tail(running)
  /\ UNCHANGED <<script, files, fileName, at, chunks, importErr, result>>

WriteFails ==
  /\ at = "write"
  /\ files' \in {files, [files EXCEPT ![fileName] = Head(chunks)]}
  /\ importErr' = TRUE
  /\ Goto("remove")
  /\ UNCHANGED <<script, fileName, chunks, executed, running>>

removeFileByName ==
  /\ at = "remove"
  /\ files' = [files EXCEPT ![fileName] = Absent]
  /\ End(IF importErr THEN "failed" ELSE "ok")
  /\ UNCHANGED <<script, fileName, chunks, importErr, executed, running>>

(* The connection or the process is lost, or another command fails: the    *)
(* call ends where it is.  The command may have done its work, or some.    *)
Lost ==
  /\ at # "done"
  /\ files' \in {files} \cup
       CASE at = "leftovers" -> {[files EXCEPT !["restore"] = Absent]}
         [] at = "create" -> {[files EXCEPT ![name] = Listing] : name \in Names}
         [] at = "remove" -> {[files EXCEPT ![fileName] = Absent]}
         [] OTHER -> {}
  /\ End("failed")
  /\ UNCHANGED <<script, fileName, chunks, importErr, executed, running>>

ImportNext ==
  \/ RefuseBlank \/ RemoveLeftovers \/ Split \/ Create \/ lookupRestoreFile
  \/ WriteChunk \/ RunImport \/ removeFileByName
  \/ WriteFails \/ ImportFails \/ RunOn \/ Lost

ImportSpec == ImportInit /\ [][ImportNext]_importVars
--------------------------------------------------------------------------------
(* However the script is split and whichever command fails, the device has *)
(* run a prefix of the script, each command in the menu it has in the      *)
(* whole script, and all of it when the call succeeds.                     *)
ImportFaithful ==
  LET whole == Executed(restoreStatements(script))
  IN IsPrefix(executed, whole) /\ (result = "ok" => executed = whole)

(* The file never gets more than the device accepts as its contents, the   *)
(* repeated path lines included.                                           *)
WithinLimit ==
  \A name \in Names : files[name] # Absent => Bytes(files[name]) <= MaxBytes

(* The path line command i of the script depends on, if any. *)
Governing(statements, i) ==
  LET paths == {j \in 1 .. i : statements[j].kind = "path"}
  IN IF paths = {} \/ statements[i].kind # "command" THEN 0
     ELSE statements[CHOOSE j \in paths : \A k \in paths : k <= j].size

(* A script is refused only for a reason: it has no statement, a statement *)
(* without end, or one that, with the path line it depends on, exceeds the *)
(* limit.  Nothing of it has been run then.                                *)
RefusedForCause ==
  LET statements == restoreStatements(script)
  IN result = "refused" =>
       /\ executed = <<>>
       /\ \/ Unterminated(script) \/ statements = <<>>
          \/ \E i \in DOMAIN statements :
               statements[i].size + Governing(statements, i) > MaxBytes

(* A successful call leaves no restore file, of its own or of a call that  *)
(* broke off: the next one would not find its file by its name.            *)
NothingLeft == result = "ok" => Present = {}

(* Why: the call knows the one file it has made, by the device's answer or *)
(* by looking for what is there, which is only that file once leftovers    *)
(* of both names are gone.                                                 *)
FilesTracked ==
  /\ files = [name \in Names |-> files[name]]
  /\ at \in {"split", "create"} => Present = {}
  /\ at = "lookup" => \E name \in Names : Present = {name}
  /\ at \in {"write", "import", "remove"} => fileName \in Names /\ Present \subseteq {fileName}
  /\ result = "ok" => at = "done" /\ Present = {}

(* The call does the same as a run of the script that may stop anywhere. *)
CommandsOf(lines) == Executed(restoreStatements(lines))

Promise == INSTANCE ScriptRun WITH ran <- executed, outcome <- result

ImplementsScriptRun == Promise!ScriptRunSpec

(* Why the others hold: the chunks fit, and what has been run and what the *)
(* chunks still to come would run is, together, the script.                *)
Whole == CommandsOf(script)

Runs(parts) == FoldLeft(LAMBDA done, chunk : done \o Executed(chunk), <<>>, parts)

ChunksFollow ==
  /\ script \in Scripts
  /\ at # "done" => result = "none"
  /\ at \in {"leftovers", "split", "create", "lookup"} => executed = <<>>
  /\ at \in {"create", "lookup", "write", "import"} =>
       /\ chunks # <<>> /\ executed \o Runs(chunks) = Whole
       /\ \A i \in DOMAIN chunks : Bytes(chunks[i]) <= MaxBytes
  /\ at = "import" => files[fileName] = Head(chunks)
  /\ at = "remove" /\ ~importErr => executed = Whole
  /\ running # <<>> =>
       /\ (at = "remove" /\ importErr) \/ result = "failed"
       /\ IsPrefix(executed \o running, Whole)

ImportInv == FilesTracked /\ ChunksFollow /\ ImportFaithful /\ WithinLimit /\ RefusedForCause
================================================================================
