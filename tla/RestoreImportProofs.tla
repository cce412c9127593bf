-------------------------- MODULE RestoreImportProofs --------------------------
(***************************************************************************)
(* Proofs about Import, for any scripts and any limit: what the folds over *)
(* characters, lines, statements and chunks compute; that the chunks of a  *)
(* script do together what the script does, and fit; that the call keeps   *)
(* an invariant from which its properties follow, and implements the run   *)
(* of a script in one piece.                                               *)
(***************************************************************************)
EXTENDS RestoreImport, FoldProofs, TLAPS

--------------------------------------------------------------------------------
(* Statements.  A script's lines are of the form that exports have; its    *)
(* statements are not blank, and a path line is one by itself.             *)
ScriptLines == {line \in Lines : line.kind # "command" => line.marks = <<>>}

StatementRecords ==
  [kind: {"path", "command", "comment"}, menu: STRING, first: Nat, size: Nat,
   text: Seq(ScriptLines)]

Statements == {s \in StatementRecords : s.kind = "path" => s.size = s.first}

ReadRecords ==
  [quote: {NoQuote, "double", "single"}, depth: Nat, current: Seq(ScriptLines),
   statements: Seq(Statements)]

(* Between two statements nothing is open; only a command can stay open.   *)
ReadStates ==
  {state \in ReadRecords :
     /\ state.current = <<>> => state.quote = NoQuote /\ state.depth = 0
     /\ state.current # <<>> => state.current[1].kind = "command"}

(* Bytes add up. *)
LEMMA BytesAppend ==
  ASSUME NEW Texts, \A x \in Texts : x.size \in Nat
  PROVE  /\ Bytes(<<>>) = 0
         /\ \A seq \in Seq(Texts), x \in Texts :
              Bytes(seq) \in Nat /\ Bytes(Append(seq, x)) = Bytes(seq) + x.size
<1> DEFINE S == Nat
           T == Texts
           base == 0
           step == [y \in S \X T |-> y[1] + y[2].size]
           fold == [seq \in Seq(T) |-> Bytes(seq)]
           Eqn(seq, g) == g = [N \in SUBSET DOMAIN seq |->
                                 IF N = {} THEN 0
                                 ELSE g[N \ {Max(N)}] + seq[Max(N)].size]
<1>0. base \in S /\ \A a \in S, x \in T : a + x.size \in S
  OBVIOUS
<1>1. /\ base \in S /\ step \in Steps(S, T)
      /\ \A a \in S, x \in T : step[<<a, x>>] = a + x.size
  <2> HIDE DEF S, T, base
  <2> QED BY <1>0 DEF Steps
<1>2. ASSUME NEW seq \in Seq(T)
      PROVE  \E g : /\ Bytes(seq) = g[DOMAIN seq] /\ g[{}] = base
                    /\ \A N \in SUBSET DOMAIN seq : N # {} =>
                         /\ seq[Max(N)] \in T
                         /\ g[N] = g[N \ {Max(N)}] + seq[Max(N)].size
  <2>1. PICK h : Unfolds(base, step, S, T, seq, h)
    <3> HIDE DEF step, T, base, S
    <3> QED BY <1>1, FoldingExists
  <2>2. Eqn(seq, h)
    <3> HIDE DEF step, T, S
    <3> QED BY <1>1, <2>1 DEF Unfolds, Folding
  <2>3. PICK g : Eqn(seq, g) /\ Bytes(seq) = g[DOMAIN seq]
    BY <2>2 DEF Bytes, FoldLeft, MapThenFoldSet
  <2> QED BY <2>1, <2>3 DEF Unfolds
<1>3. IsFold(base, step, S, T, fold)
  <2> HIDE DEF step, S, T, base
  <2> SUFFICES ASSUME NEW seq \in Seq(T)
               PROVE  \E g : /\ fold[seq] = g[DOMAIN seq]
                             /\ \A N \in SUBSET DOMAIN seq :
                                  IF N = {} THEN g[N] = base
                                  ELSE g[N \ {Max(N)}] \in S =>
                                         g[N] = step[<<g[N \ {Max(N)}], seq[Max(N)]>>]
    BY DEF IsFold
  <2>1. PICK g : /\ Bytes(seq) = g[DOMAIN seq] /\ g[{}] = base
                 /\ \A N \in SUBSET DOMAIN seq : N # {} =>
                      /\ seq[Max(N)] \in T
                      /\ g[N] = g[N \ {Max(N)}] + seq[Max(N)].size
    BY <1>2
  <2>2. \A N \in SUBSET DOMAIN seq :
          IF N = {} THEN g[N] = base
          ELSE g[N \ {Max(N)}] \in S => g[N] = step[<<g[N \ {Max(N)}], seq[Max(N)]>>]
    BY <1>1, <2>1
  <2> QED BY <2>1, <2>2
<1>4. /\ fold[<<>>] = base
      /\ \A seq \in Seq(T), x \in T :
           fold[seq] \in S /\ fold[Append(seq, x)] = step[<<fold[seq], x>>]
  <2> HIDE DEF step, T, base, S, fold
  <2> QED BY <1>1, <1>3, FoldAppend
<1>5. <<>> \in Seq(T) /\ \A seq \in Seq(T), x \in T : Append(seq, x) \in Seq(T)
  BY AppendProperties
<1> QED BY <1>1, <1>4, <1>5

(* Marks: they change the quote and the depth only. *)
LEMMA ScanCharType ==
  ASSUME NEW state \in ReadRecords, NEW c \in Marks
  PROVE  /\ ScanChar(state, c) \in ReadRecords
         /\ ScanChar(state, c).current = state.current
         /\ ScanChar(state, c).statements = state.statements
<1>1. CASE state.quote # NoQuote
  BY <1>1 DEF ScanChar, ReadRecords
<1>2. CASE state.quote = NoQuote /\ c \in {"double", "single"}
  BY <1>2 DEF ScanChar, ReadRecords, NoQuote
<1>3. CASE state.quote = NoQuote /\ c = "open"
  BY <1>3 DEF ScanChar, ReadRecords
<1>4. CASE state.quote = NoQuote /\ c = "close"
  BY <1>4 DEF ScanChar, ReadRecords
<1>5. CASE state.quote = NoQuote /\ c = "backslash"
  BY <1>5 DEF ScanChar, ReadRecords
<1> QED BY <1>1, <1>2, <1>3, <1>4, <1>5 DEF Marks

(* Marks are read one after the other. *)
LEMMA ScanAppend ==
  ASSUME NEW state \in ReadRecords
  PROVE  /\ FoldLeft(ScanChar, state, <<>>) = state
         /\ \A seq \in Seq(Marks), x \in Marks :
              FoldLeft(ScanChar, state, seq) \in ReadRecords /\ FoldLeft(ScanChar, state, Append(seq, x)) = ScanChar(FoldLeft(ScanChar, state, seq), x)
<1> DEFINE S == ReadRecords
           T == Marks
           base == state
           step == [y \in S \X T |-> ScanChar(y[1], y[2])]
           fold == [seq \in Seq(T) |-> FoldLeft(ScanChar, state, seq)]
           Eqn(seq, g) == g = [N \in SUBSET DOMAIN seq |->
                                 IF N = {} THEN state
                                 ELSE ScanChar(g[N \ {Max(N)}], seq[Max(N)])]
<1>0. base \in S /\ \A a \in S, x \in T : ScanChar(a, x) \in S
  BY ScanCharType
<1>1. /\ base \in S /\ step \in Steps(S, T)
      /\ \A a \in S, x \in T : step[<<a, x>>] = ScanChar(a, x)
  <2> HIDE DEF S, T, base
  <2> QED BY <1>0 DEF Steps
<1>2. ASSUME NEW seq \in Seq(T)
      PROVE  \E g : /\ FoldLeft(ScanChar, state, seq) = g[DOMAIN seq] /\ g[{}] = base
                    /\ \A N \in SUBSET DOMAIN seq : N # {} =>
                         /\ seq[Max(N)] \in T
                         /\ g[N] = ScanChar(g[N \ {Max(N)}], seq[Max(N)])
  <2>1. PICK h : Unfolds(base, step, S, T, seq, h)
    <3> HIDE DEF step, T, base, S
    <3> QED BY <1>1, FoldingExists
  <2>2. Eqn(seq, h)
    <3> HIDE DEF step, T, S
    <3> QED BY <1>1, <2>1 DEF Unfolds, Folding
  <2>3. PICK g : Eqn(seq, g) /\ FoldLeft(ScanChar, state, seq) = g[DOMAIN seq]
    BY <2>2 DEF FoldLeft, MapThenFoldSet
  <2> QED BY <2>1, <2>3 DEF Unfolds
<1>3. IsFold(base, step, S, T, fold)
  <2> HIDE DEF step, S, T, base
  <2> SUFFICES ASSUME NEW seq \in Seq(T)
               PROVE  \E g : /\ fold[seq] = g[DOMAIN seq]
                             /\ \A N \in SUBSET DOMAIN seq :
                                  IF N = {} THEN g[N] = base
                                  ELSE g[N \ {Max(N)}] \in S =>
                                         g[N] = step[<<g[N \ {Max(N)}], seq[Max(N)]>>]
    BY DEF IsFold
  <2>1. PICK g : /\ FoldLeft(ScanChar, state, seq) = g[DOMAIN seq] /\ g[{}] = base
                 /\ \A N \in SUBSET DOMAIN seq : N # {} =>
                      /\ seq[Max(N)] \in T
                      /\ g[N] = ScanChar(g[N \ {Max(N)}], seq[Max(N)])
    BY <1>2
  <2>2. \A N \in SUBSET DOMAIN seq :
          IF N = {} THEN g[N] = base
          ELSE g[N \ {Max(N)}] \in S => g[N] = step[<<g[N \ {Max(N)}], seq[Max(N)]>>]
    BY <1>1, <2>1
  <2> QED BY <2>1, <2>2
<1>4. /\ fold[<<>>] = base
      /\ \A seq \in Seq(T), x \in T :
           fold[seq] \in S /\ fold[Append(seq, x)] = step[<<fold[seq], x>>]
  <2> HIDE DEF step, T, base, S, fold
  <2> QED BY <1>1, <1>3, FoldAppend
<1>5. <<>> \in Seq(T) /\ \A seq \in Seq(T), x \in T : Append(seq, x) \in Seq(T)
  BY AppendProperties
<1> QED BY <1>1, <1>4, <1>5

LEMMA ScanLine ==
  ASSUME NEW state \in ReadRecords, NEW line \in ScriptLines
  PROVE  /\ scanRestoreLine(line, state) \in ReadRecords
         /\ scanRestoreLine(line, state).current = state.current
         /\ scanRestoreLine(line, state).statements = state.statements
         /\ line.kind # "command" => scanRestoreLine(line, state) = state
<1> DEFINE Scan(marks) == FoldLeft(ScanChar, state, marks)
           P == {marks \in Seq(Marks) : /\ Scan(marks) \in ReadRecords
                                        /\ Scan(marks).current = state.current
                                        /\ Scan(marks).statements = state.statements}
<1>0. /\ Scan(<<>>) = state
      /\ \A marks \in Seq(Marks), c \in Marks :
           Scan(marks) \in ReadRecords /\ Scan(Append(marks, c)) = ScanChar(Scan(marks), c)
  BY ScanAppend
<1> HIDE DEF Scan
<1>1. <<>> \in P
  BY <1>0
<1>2. \A marks \in Seq(Marks), c \in Marks : marks \in P => Append(marks, c) \in P
  BY <1>0, ScanCharType, AppendProperties
<1>3. Seq(Marks) \subseteq P
  <2> HIDE DEF P
  <2> QED BY <1>1, <1>2, SequenceInduction
<1>4. line.marks \in Seq(Marks) /\ (line.kind # "command" => line.marks = <<>>)
  BY DEF ScriptLines, Lines
<1> QED BY <1>0, <1>3, <1>4 DEF scanRestoreLine, Scan

(* Lines become a statement.  *)
LEMMA LineTypes ==
  /\ \A line \in ScriptLines :
       /\ line.size \in Nat /\ line.menu \in STRING /\ line.marks \in Seq(Marks)
       /\ line.kind \in {"path", "command", "comment", "blank"}
       /\ line.kind # "command" => line.marks = <<>>
  /\ \A s \in Statements : s.size \in Nat
BY DEF ScriptLines, Lines, Statements, StatementRecords

LEMMA StatementType ==
  ASSUME NEW lines \in Seq(ScriptLines), lines # <<>>, lines[1].kind # "blank",
         lines[1].kind = "command" \/ Len(lines) = 1
  PROVE  Statement(lines) \in Statements
<1>1. lines[1] \in ScriptLines /\ Len(lines) \in Nat \ {0}
  <2>1. Len(lines) \in Nat \ {0}
    BY EmptySeq, LenProperties
  <2> QED BY <2>1, ElementOfSeq
<1>2. Bytes(lines) \in Nat
  BY <1>1, LineTypes, BytesAppend
<1>3. Len(lines) = 1 => Bytes(lines) = lines[1].size
  <2>1. HAVE Len(lines) = 1
  <2> DEFINE line == lines[1]
  <2>2. <<>> \in Seq(ScriptLines) /\ Append(<<>>, line) \in Seq(ScriptLines)
        /\ Len(Append(<<>>, line)) = 1 /\ Append(<<>>, line)[1] = line
    BY <1>1
  <2>3. lines = Append(<<>>, line)
    BY <2>1, <2>2, SeqEqual
  <2>4. /\ Bytes(<<>>) = 0
        /\ \A seq \in Seq(ScriptLines), x \in ScriptLines :
             Bytes(seq) \in Nat /\ Bytes(Append(seq, x)) = Bytes(seq) + x.size
    BY LineTypes, BytesAppend
  <2>5. Bytes(Append(<<>>, line)) = Bytes(<<>>) + line.size
    BY <1>1, <2>2, <2>4
  <2>6. line.size \in Nat
    BY <1>1, LineTypes
  <2>7. Bytes(lines) = line.size
    <3> HIDE DEF line
    <3> QED BY <2>3, <2>4, <2>5, <2>6
  <2> QED BY <2>7
<1>4. Statement(lines) \in StatementRecords
  <2>1. /\ lines[1].kind \in {"path", "command", "comment"} /\ lines[1].menu \in STRING
        /\ lines[1].size \in Nat
    BY <1>1, LineTypes
  <2> QED BY <1>2, <2>1 DEF Statement, StatementRecords
<1>5. Statement(lines).kind = "path" => Statement(lines).size = Statement(lines).first
  BY <1>3 DEF Statement
<1> QED BY <1>4, <1>5 DEF Statements

LEMMA FinishType ==
  ASSUME NEW state \in ReadRecords,
         state.current # <<>> => state.current[1].kind = "command" \/ Len(state.current) = 1
  PROVE  /\ Finish(state) \in ReadRecords /\ Finish(state).current = <<>>
         /\ Finish(state).quote = state.quote /\ Finish(state).depth = state.depth
<1>0. <<>> \in Seq(ScriptLines) /\ state \in ReadRecords
  OBVIOUS
<1>1. CASE state.current = <<>> \/ state.current[1].kind = "blank"
  <2>1. Finish(state) = [state EXCEPT !.current = <<>>]
    BY <1>1 DEF Finish
  <2> DEFINE none == <<>>
             finished == [state EXCEPT !.current = none]
  <2>2. none \in Seq(ScriptLines)
    BY <1>0
  <2> HIDE DEF none
  <2>3. finished \in ReadRecords /\ finished.current = none
        /\ finished.quote = state.quote /\ finished.depth = state.depth
    BY <1>0, <2>2 DEF ReadRecords
  <2> QED BY <2>1, <2>3 DEF none
<1>2. CASE ~(state.current = <<>> \/ state.current[1].kind = "blank")
  <2>1. Statement(state.current) \in Statements
    BY <1>2, StatementType DEF ReadRecords
  <2> DEFINE statements == Append(state.statements, Statement(state.current))
             none == <<>>
             finished == [state EXCEPT !.current = none, !.statements = statements]
  <2>2. statements \in Seq(Statements) /\ none \in Seq(ScriptLines)
    BY <1>0, <2>1, AppendProperties DEF ReadRecords
  <2>3. Finish(state) = finished
    BY <1>2 DEF Finish
  <2> HIDE DEF statements, none
  <2>4. finished \in ReadRecords /\ finished.current = none
        /\ finished.quote = state.quote /\ finished.depth = state.depth
    BY <1>0, <2>2 DEF ReadRecords
  <2> QED BY <2>3, <2>4 DEF none
<1> QED BY <1>1, <1>2

(* After any line, only a command is open. *)
LEMMA AddLineType ==
  ASSUME NEW state \in ReadStates, NEW line \in ScriptLines
  PROVE  AddLine(state, line) \in ReadStates
<1> DEFINE scan == scanRestoreLine(line, state)
           read == [scan EXCEPT !.current = Append(@, line)]
<1>1. state \in ReadRecords
  BY DEF ReadStates
<1>2. /\ scan \in ReadRecords /\ scan.current = state.current
      /\ line.kind # "command" => scan = state
  BY <1>1, ScanLine
<1> HIDE DEF scan
<1>3. Append(state.current, line) \in Seq(ScriptLines) /\ Append(state.current, line) # <<>>
      /\ Len(Append(state.current, line)) = Len(state.current) + 1
      /\ Len(state.current) \in Nat
      /\ \A i \in 1 .. Len(state.current) : Append(state.current, line)[i] = state.current[i]
      /\ Append(state.current, line)[Len(state.current) + 1] = line
  BY <1>1, AppendProperties, LenProperties DEF ReadRecords
<1>4. read \in ReadRecords /\ read.current = Append(state.current, line)
      /\ read.quote = scan.quote /\ read.depth = scan.depth
  BY <1>2, <1>3 DEF ReadRecords
<1>5. read.current # <<>> /\ (read.current[1].kind = "command" \/ Len(read.current) = 1)
  <2>1. CASE state.current = <<>>
    BY <1>3, <1>4, <2>1
  <2>2. CASE state.current # <<>>
    <3>1. state.current[1].kind = "command" /\ 1 \in 1 .. Len(state.current)
      BY <2>2, <1>1, EmptySeq, LenProperties DEF ReadStates, ReadRecords
    <3> QED BY <3>1, <1>3, <1>4
  <2> QED BY <2>1, <2>2
<1>6. CASE read.quote # NoQuote \/ read.depth > 0 \/ Continued(line, read)
  <2>1. AddLine(state, line) = read
    BY <1>6 DEF AddLine, scan
  <2>2. read.current[1].kind = "command"
    <3> SUFFICES ASSUME read.current[1].kind # "command" PROVE FALSE
      OBVIOUS
    <3>1. state.current = <<>>
      <4>1. state.current # <<>> => 1 \in 1 .. Len(state.current)
        BY <1>1, EmptySeq, LenProperties DEF ReadRecords
      <4> QED BY <4>1, <1>3, <1>4 DEF ReadStates
    <3>2. line.kind # "command"
      BY <3>1, <1>3, <1>4
    <3>3. scan = state /\ line.marks = <<>> /\ state.quote = NoQuote /\ state.depth = 0
      BY <3>1, <3>2, <1>2, LineTypes DEF ReadStates
    <3> QED BY <3>3, <1>4, <1>6 DEF Continued
  <2> QED BY <1>4, <1>5, <2>1, <2>2 DEF ReadStates
<1>7. CASE ~(read.quote # NoQuote \/ read.depth > 0 \/ Continued(line, read))
  <2>1. AddLine(state, line) = Finish(read)
    BY <1>7 DEF AddLine, scan
  <2>2. read.quote = NoQuote /\ read.depth = 0
    BY <1>4, <1>7 DEF ReadRecords
  <2>3. /\ Finish(read) \in ReadRecords /\ Finish(read).current = <<>>
        /\ Finish(read).quote = read.quote /\ Finish(read).depth = read.depth
    <3> HIDE DEF read
    <3> QED BY <1>4, <1>5, FinishType
  <2> QED BY <2>1, <2>2, <2>3 DEF ReadStates
<1> QED BY <1>6, <1>7

Unread == [quote |-> NoQuote, depth |-> 0, current |-> <<>>, statements |-> <<>>]

(* Lines are read one after the other. *)
LEMMA ReadAppend ==
  /\ Read(<<>>) = Unread
  /\ \A seq \in Seq(ScriptLines), x \in ScriptLines :
       Read(seq) \in ReadStates /\ Read(Append(seq, x)) = AddLine(Read(seq), x)
<1> DEFINE S == ReadStates
           T == ScriptLines
           base == Unread
           step == [y \in S \X T |-> AddLine(y[1], y[2])]
           fold == [seq \in Seq(T) |-> Read(seq)]
           Eqn(seq, g) == g = [N \in SUBSET DOMAIN seq |->
                                 IF N = {} THEN Unread
                                 ELSE AddLine(g[N \ {Max(N)}], seq[Max(N)])]
<1>0. base \in S /\ \A a \in S, x \in T : AddLine(a, x) \in S
  <2>1. Unread \in ReadStates
    BY DEF Unread, ReadStates, ReadRecords
  <2> QED BY <2>1, AddLineType
<1>1. /\ base \in S /\ step \in Steps(S, T)
      /\ \A a \in S, x \in T : step[<<a, x>>] = AddLine(a, x)
  <2> HIDE DEF S, T, base
  <2> QED BY <1>0 DEF Steps
<1>2. ASSUME NEW seq \in Seq(T)
      PROVE  \E g : /\ Read(seq) = g[DOMAIN seq] /\ g[{}] = base
                    /\ \A N \in SUBSET DOMAIN seq : N # {} =>
                         /\ seq[Max(N)] \in T
                         /\ g[N] = AddLine(g[N \ {Max(N)}], seq[Max(N)])
  <2>1. PICK h : Unfolds(base, step, S, T, seq, h)
    <3> HIDE DEF step, T, base, S
    <3> QED BY <1>1, FoldingExists
  <2>2. Eqn(seq, h)
    <3> HIDE DEF step, T, S
    <3> QED BY <1>1, <2>1 DEF Unfolds, Folding
  <2>3. PICK g : Eqn(seq, g) /\ Read(seq) = g[DOMAIN seq]
    BY <2>2 DEF Read, Unread, FoldLeft, MapThenFoldSet
  <2> QED BY <2>1, <2>3 DEF Unfolds
<1>3. IsFold(base, step, S, T, fold)
  <2> HIDE DEF step, S, T, base
  <2> SUFFICES ASSUME NEW seq \in Seq(T)
               PROVE  \E g : /\ fold[seq] = g[DOMAIN seq]
                             /\ \A N \in SUBSET DOMAIN seq :
                                  IF N = {} THEN g[N] = base
                                  ELSE g[N \ {Max(N)}] \in S =>
                                         g[N] = step[<<g[N \ {Max(N)}], seq[Max(N)]>>]
    BY DEF IsFold
  <2>1. PICK g : /\ Read(seq) = g[DOMAIN seq] /\ g[{}] = base
                 /\ \A N \in SUBSET DOMAIN seq : N # {} =>
                      /\ seq[Max(N)] \in T
                      /\ g[N] = AddLine(g[N \ {Max(N)}], seq[Max(N)])
    BY <1>2
  <2>2. \A N \in SUBSET DOMAIN seq :
          IF N = {} THEN g[N] = base
          ELSE g[N \ {Max(N)}] \in S => g[N] = step[<<g[N \ {Max(N)}], seq[Max(N)]>>]
    BY <1>1, <2>1
  <2> QED BY <2>1, <2>2
<1>4. /\ fold[<<>>] = base
      /\ \A seq \in Seq(T), x \in T :
           fold[seq] \in S /\ fold[Append(seq, x)] = step[<<fold[seq], x>>]
  <2> HIDE DEF step, T, base, S, fold
  <2> QED BY <1>1, <1>3, FoldAppend
<1>5. <<>> \in Seq(T) /\ \A seq \in Seq(T), x \in T : Append(seq, x) \in Seq(T)
  BY AppendProperties
<1> QED BY <1>1, <1>4, <1>5

(* Every script has proper statements; a blank one has none. *)
LEMMA RestoreStatements ==
  ASSUME NEW lines \in Seq(ScriptLines)
  PROVE  /\ restoreStatements(lines) \in Seq(Statements)
         /\ Blank(lines) => restoreStatements(lines) = <<>>
<1> DEFINE P == {ls \in Seq(ScriptLines) :
                   Read(ls) \in ReadStates /\ (Blank(ls) => Read(ls) = Unread)}
<1>1. <<>> \in P
  <2>1. Unread \in ReadStates
    BY DEF Unread, ReadStates, ReadRecords
  <2> QED BY <2>1, ReadAppend
<1>2. ASSUME NEW ls \in Seq(ScriptLines), NEW line \in ScriptLines, ls \in P
      PROVE  Append(ls, line) \in P
  <2>1. Append(ls, line) \in Seq(ScriptLines) /\ Read(Append(ls, line)) = AddLine(Read(ls), line)
    BY ReadAppend, AppendProperties
  <2>2. AddLine(Read(ls), line) \in ReadStates
    BY <1>2, AddLineType
  <2>3. ASSUME Blank(Append(ls, line)) PROVE AddLine(Read(ls), line) = Unread
    <3>1. Blank(ls) /\ line.kind = "blank"
      <4>1. /\ DOMAIN ls = 1 .. Len(ls) /\ Len(ls) \in Nat
            /\ DOMAIN Append(ls, line) = 1 .. (Len(ls) + 1)
            /\ \A i \in 1 .. Len(ls) : Append(ls, line)[i] = ls[i]
            /\ Append(ls, line)[Len(ls) + 1] = line
        BY AppendProperties, LenProperties
      <4>2. \A i \in 1 .. Len(ls) : i \in 1 .. (Len(ls) + 1)
        BY <4>1
      <4>3. Len(ls) + 1 \in 1 .. (Len(ls) + 1)
        BY <4>1
      <4> QED BY <2>3, <4>1, <4>2, <4>3 DEF Blank
    <3>2. Read(ls) = Unread /\ line.marks = <<>>
      BY <1>2, <3>1, LineTypes
    <3>3. Unread \in ReadRecords
      BY DEF Unread, ReadRecords
    <3>4. scanRestoreLine(line, Unread) = Unread
      BY <3>1, <3>3, ScanLine
    <3> DEFINE read == [Unread EXCEPT !.current = Append(@, line)]
    <3>5. /\ read.quote = NoQuote /\ read.depth = 0 /\ read.statements = <<>>
          /\ read.current = Append(<<>>, line) /\ read.current[1] = line
      BY DEF Unread
    <3>6. AddLine(Unread, line) = Finish(read)
      BY <3>2, <3>4, <3>5 DEF AddLine, Continued
    <3>7. Finish(read) = [read EXCEPT !.current = <<>>]
      <4> HIDE DEF read
      <4> QED BY <3>1, <3>5 DEF Finish
    <3>8. [read EXCEPT !.current = <<>>] = Unread
      <4> DEFINE none == <<>>
                 some == Append(none, line)
                 reading == [quote |-> NoQuote, depth |-> 0, current |-> some, statements |-> none]
      <4>1. Unread = [quote |-> NoQuote, depth |-> 0, current |-> none, statements |-> none]
        BY DEF Unread
      <4> HIDE DEF none, some
      <4>2. [Unread EXCEPT !.current = some] = reading
        BY <4>1
      <4>3. [reading EXCEPT !.current = none] = Unread
        BY <4>1
      <4>4. read = [Unread EXCEPT !.current = some]
        BY <4>1 DEF some
      <4> HIDE DEF read, reading
      <4> QED BY <4>2, <4>3, <4>4 DEF none
    <3> QED BY <3>2, <3>6, <3>7, <3>8
  <2> QED BY <2>1, <2>2, <2>3
<1>3. Seq(ScriptLines) \subseteq P
  <2> HIDE DEF P
  <2> QED BY <1>1, <1>2, SequenceInduction
<1>4. Read(lines) \in ReadStates /\ (Blank(lines) => Read(lines) = Unread)
  BY <1>3
<1>5. Finish(Read(lines)) \in ReadRecords
  BY <1>4, FinishType DEF ReadStates
<1>6. Finish(Unread).statements = <<>>
  BY DEF Finish, Unread
<1> QED BY <1>4, <1>5, <1>6 DEF restoreStatements, ReadRecords

--------------------------------------------------------------------------------
(* The device: what is done by statements, and in which menu they end. *)
Menus == STRING \cup {RootMenu}

RunStates == [menu: Menus, done: Seq(Menus \X Seq(ScriptLines))]

AtRoot == [menu |-> RootMenu, done |-> <<>>]

RunAll(statements) == FoldLeft(Run, AtRoot, statements)

LEMMA RunType ==
  ASSUME NEW state \in RunStates, NEW s \in Statements
  PROVE  /\ Run(state, s) \in RunStates
         /\ Run(state, s).menu = IF s.kind = "path" THEN s.menu ELSE state.menu
         /\ Run(state, s).done = IF s.kind = "command" THEN Append(state.done, <<state.menu, s.text>>)
                                 ELSE state.done
<1>1. /\ state.menu \in Menus /\ state.done \in Seq(Menus \X Seq(ScriptLines))
      /\ s.menu \in Menus /\ s.kind \in {"path", "command", "comment"}
      /\ <<state.menu, s.text>> \in Menus \X Seq(ScriptLines)
  BY DEF RunStates, Statements, StatementRecords, Menus
<1> DEFINE more == Append(state.done, <<state.menu, s.text>>)
<1>2. more \in Seq(Menus \X Seq(ScriptLines))
  BY <1>1, AppendProperties
<1> HIDE DEF more
<1>3. CASE s.kind = "path"
  BY <1>1, <1>3 DEF Run, RunStates
<1>4. CASE s.kind = "command"
  <2>1. Run(state, s) = [state EXCEPT !.done = more]
    BY <1>4 DEF Run, more
  <2> QED BY <1>1, <1>2, <1>4, <2>1 DEF RunStates, more
<1>5. CASE s.kind = "comment"
  BY <1>1, <1>5 DEF Run
<1> QED BY <1>1, <1>3, <1>4, <1>5

(* Statements are run one after the other. *)
LEMMA RunAppend ==
  /\ RunAll(<<>>) = AtRoot
  /\ \A seq \in Seq(Statements), x \in Statements :
       RunAll(seq) \in RunStates /\ RunAll(Append(seq, x)) = Run(RunAll(seq), x)
<1> DEFINE S == RunStates
           T == Statements
           base == AtRoot
           step == [y \in S \X T |-> Run(y[1], y[2])]
           fold == [seq \in Seq(T) |-> RunAll(seq)]
           Eqn(seq, g) == g = [N \in SUBSET DOMAIN seq |->
                                 IF N = {} THEN AtRoot
                                 ELSE Run(g[N \ {Max(N)}], seq[Max(N)])]
<1>0. base \in S /\ \A a \in S, x \in T : Run(a, x) \in S
  <2>1. AtRoot \in RunStates
    BY DEF AtRoot, RunStates, Menus
  <2> QED BY <2>1, RunType
<1>1. /\ base \in S /\ step \in Steps(S, T)
      /\ \A a \in S, x \in T : step[<<a, x>>] = Run(a, x)
  <2> HIDE DEF S, T, base
  <2> QED BY <1>0 DEF Steps
<1>2. ASSUME NEW seq \in Seq(T)
      PROVE  \E g : /\ RunAll(seq) = g[DOMAIN seq] /\ g[{}] = base
                    /\ \A N \in SUBSET DOMAIN seq : N # {} =>
                         /\ seq[Max(N)] \in T
                         /\ g[N] = Run(g[N \ {Max(N)}], seq[Max(N)])
  <2>1. PICK h : Unfolds(base, step, S, T, seq, h)
    <3> HIDE DEF step, T, base, S
    <3> QED BY <1>1, FoldingExists
  <2>2. Eqn(seq, h)
    <3> HIDE DEF step, T, S
    <3> QED BY <1>1, <2>1 DEF Unfolds, Folding
  <2>3. PICK g : Eqn(seq, g) /\ RunAll(seq) = g[DOMAIN seq]
    BY <2>2 DEF RunAll, FoldLeft, MapThenFoldSet
  <2> QED BY <2>1, <2>3 DEF Unfolds
<1>3. IsFold(base, step, S, T, fold)
  <2> HIDE DEF step, S, T, base
  <2> SUFFICES ASSUME NEW seq \in Seq(T)
               PROVE  \E g : /\ fold[seq] = g[DOMAIN seq]
                             /\ \A N \in SUBSET DOMAIN seq :
                                  IF N = {} THEN g[N] = base
                                  ELSE g[N \ {Max(N)}] \in S =>
                                         g[N] = step[<<g[N \ {Max(N)}], seq[Max(N)]>>]
    BY DEF IsFold
  <2>1. PICK g : /\ RunAll(seq) = g[DOMAIN seq] /\ g[{}] = base
                 /\ \A N \in SUBSET DOMAIN seq : N # {} =>
                      /\ seq[Max(N)] \in T
                      /\ g[N] = Run(g[N \ {Max(N)}], seq[Max(N)])
    BY <1>2
  <2>2. \A N \in SUBSET DOMAIN seq :
          IF N = {} THEN g[N] = base
          ELSE g[N \ {Max(N)}] \in S => g[N] = step[<<g[N \ {Max(N)}], seq[Max(N)]>>]
    BY <1>1, <2>1
  <2> QED BY <2>1, <2>2
<1>4. /\ fold[<<>>] = base
      /\ \A seq \in Seq(T), x \in T :
           fold[seq] \in S /\ fold[Append(seq, x)] = step[<<fold[seq], x>>]
  <2> HIDE DEF step, T, base, S, fold
  <2> QED BY <1>1, <1>3, FoldAppend
<1>5. <<>> \in Seq(T) /\ \A seq \in Seq(T), x \in T : Append(seq, x) \in Seq(T)
  BY AppendProperties
<1> QED BY <1>1, <1>4, <1>5

LEMMA ExecutedRunAll ==
  /\ \A statements : Executed(statements) = RunAll(statements).done
  /\ \A statements \in Seq(Statements) :
       Executed(statements) \in Seq(Menus \X Seq(ScriptLines))
<1> DEFINE P == {statements \in Seq(Statements) : RunAll(statements) \in RunStates}
<1>1. \A statements : Executed(statements) = RunAll(statements).done
  BY DEF Executed, RunAll, AtRoot
<1>2. <<>> \in P
  <2>1. AtRoot \in RunStates
    BY DEF AtRoot, RunStates, Menus
  <2> QED BY <2>1, RunAppend
<1>3. \A statements \in Seq(Statements), s \in Statements :
        statements \in P => Append(statements, s) \in P
  BY RunAppend, RunType, AppendProperties
<1>4. Seq(Statements) \subseteq P
  <2> HIDE DEF P
  <2> QED BY <1>2, <1>3, SequenceInduction
<1> QED BY <1>1, <1>4 DEF RunStates

(* Chunks are run one after the other. *)
LEMMA RunsAppend ==
  /\ Runs(<<>>) = <<>>
  /\ \A seq \in Seq(Seq(Statements)), x \in Seq(Statements) :
       Runs(seq) \in Seq(Menus \X Seq(ScriptLines)) /\ Runs(Append(seq, x)) = Runs(seq) \o Executed(x)
<1> DEFINE S == Seq(Menus \X Seq(ScriptLines))
           T == Seq(Statements)
           base == <<>>
           step == [y \in S \X T |-> y[1] \o Executed(y[2])]
           fold == [seq \in Seq(T) |-> Runs(seq)]
           Eqn(seq, g) == g = [N \in SUBSET DOMAIN seq |->
                                 IF N = {} THEN <<>>
                                 ELSE g[N \ {Max(N)}] \o Executed(seq[Max(N)])]
<1>0. base \in S /\ \A a \in S, x \in T : a \o Executed(x) \in S
  BY ExecutedRunAll, ConcatProperties
<1>1. /\ base \in S /\ step \in Steps(S, T)
      /\ \A a \in S, x \in T : step[<<a, x>>] = a \o Executed(x)
  <2> HIDE DEF S, T, base
  <2> QED BY <1>0 DEF Steps
<1>2. ASSUME NEW seq \in Seq(T)
      PROVE  \E g : /\ Runs(seq) = g[DOMAIN seq] /\ g[{}] = base
                    /\ \A N \in SUBSET DOMAIN seq : N # {} =>
                         /\ seq[Max(N)] \in T
                         /\ g[N] = g[N \ {Max(N)}] \o Executed(seq[Max(N)])
  <2>1. PICK h : Unfolds(base, step, S, T, seq, h)
    <3> HIDE DEF step, T, base, S
    <3> QED BY <1>1, FoldingExists
  <2>2. Eqn(seq, h)
    <3> HIDE DEF step, T, S
    <3> QED BY <1>1, <2>1 DEF Unfolds, Folding
  <2>3. PICK g : Eqn(seq, g) /\ Runs(seq) = g[DOMAIN seq]
    BY <2>2 DEF Runs, FoldLeft, MapThenFoldSet
  <2> QED BY <2>1, <2>3 DEF Unfolds
<1>3. IsFold(base, step, S, T, fold)
  <2> HIDE DEF step, S, T, base
  <2> SUFFICES ASSUME NEW seq \in Seq(T)
               PROVE  \E g : /\ fold[seq] = g[DOMAIN seq]
                             /\ \A N \in SUBSET DOMAIN seq :
                                  IF N = {} THEN g[N] = base
                                  ELSE g[N \ {Max(N)}] \in S =>
                                         g[N] = step[<<g[N \ {Max(N)}], seq[Max(N)]>>]
    BY DEF IsFold
  <2>1. PICK g : /\ Runs(seq) = g[DOMAIN seq] /\ g[{}] = base
                 /\ \A N \in SUBSET DOMAIN seq : N # {} =>
                      /\ seq[Max(N)] \in T
                      /\ g[N] = g[N \ {Max(N)}] \o Executed(seq[Max(N)])
    BY <1>2
  <2>2. \A N \in SUBSET DOMAIN seq :
          IF N = {} THEN g[N] = base
          ELSE g[N \ {Max(N)}] \in S => g[N] = step[<<g[N \ {Max(N)}], seq[Max(N)]>>]
    BY <1>1, <2>1
  <2> QED BY <2>1, <2>2
<1>4. /\ fold[<<>>] = base
      /\ \A seq \in Seq(T), x \in T :
           fold[seq] \in S /\ fold[Append(seq, x)] = step[<<fold[seq], x>>]
  <2> HIDE DEF step, T, base, S, fold
  <2> QED BY <1>1, <1>3, FoldAppend
<1>5. <<>> \in Seq(T) /\ \A seq \in Seq(T), x \in T : Append(seq, x) \in Seq(T)
  BY AppendProperties
<1> QED BY <1>1, <1>4, <1>5

--------------------------------------------------------------------------------
(* Chunks.  The path of the split is that of the last path line. *)
LEMMA AppendConcat ==
  ASSUME NEW T, NEW seq \in Seq(T), NEW x \in T, NEW y \in T
  PROVE  /\ seq \o <<x>> = Append(seq, x)
         /\ seq \o Append(<<x>>, y) = Append(Append(seq, x), y)
         /\ \A t \in Seq(T) : t \o Append(seq, x) = Append(t \o seq, x)
<1>1. \A t \in Seq(T), z \in T : t \o <<z>> = Append(t, z) /\ <<z>> \in Seq(T)
  BY AppendIsConcat
<1>2. \A t \in Seq(T), u \in Seq(T), z \in T : t \o Append(u, z) = Append(t \o u, z)
  <2> TAKE t \in Seq(T), u \in Seq(T), z \in T
  <2>1. t \o (u \o <<z>>) = (t \o u) \o <<z>>
    BY <1>1, ConcatAssociative
  <2>2. t \o u \in Seq(T)
    BY ConcatProperties
  <2> QED BY <1>1, <2>1, <2>2
<1>3. <<x>> \in Seq(T) /\ seq \o <<x>> = Append(seq, x)
  BY <1>1
<1>4. seq \o Append(<<x>>, y) = Append(seq \o <<x>>, y)
  BY <1>2, <1>3
<1> QED BY <1>2, <1>3, <1>4

PathStatements == {s \in Statements : s.kind = "path"}

SplitStates ==
  [chunks: Seq(Seq(Statements)), current: Seq(Statements),
   path: {NoPath} \cup {<<p>> : p \in PathStatements}, hasPath: BOOLEAN, refused: BOOLEAN]

LEMMA PathLineIs ==
  ASSUME NEW s \in PathStatements
  PROVE  PathLine(s) = s
BY DEF PathLine, PathStatements, Statements, StatementRecords

LEMMA StatementBytes ==
  /\ Bytes(<<>>) = 0
  /\ \A seq \in Seq(Statements) : Bytes(seq) \in Nat
  /\ \A seq \in Seq(Statements), x \in Statements :
       /\ x.size \in Nat /\ Append(seq, x) \in Seq(Statements) /\ Append(seq, x) # <<>>
       /\ Bytes(Append(seq, x)) = Bytes(seq) + x.size
<1>1. /\ Bytes(<<>>) = 0
      /\ \A seq \in Seq(Statements), x \in Statements :
           Bytes(seq) \in Nat /\ Bytes(Append(seq, x)) = Bytes(seq) + x.size
  BY LineTypes, BytesAppend
<1> DEFINE P == {seq \in Seq(Statements) : Bytes(seq) \in Nat}
<1>2. <<>> \in P /\ \A seq \in Seq(Statements), x \in Statements : Append(seq, x) \in P
  BY <1>1, LineTypes, AppendProperties
<1>3. Seq(Statements) \subseteq P
  <2> HIDE DEF P
  <2> QED BY <1>2, SequenceInduction
<1> QED BY <1>1, <1>3, LineTypes, AppendProperties

(* What a statement adds, and how much. *)
LEMMA Additions ==
  ASSUME NEW state \in SplitStates, NEW s \in Statements
  PROVE  /\ Addition(state, s) \in Seq(Statements)
         /\ Bytes(Addition(state, s)) \in Nat
         /\ \A c \in Seq(Statements) :
              /\ c \o Addition(state, s) \in Seq(Statements) /\ c \o Addition(state, s) # <<>>
              /\ Bytes(c \o Addition(state, s)) = Bytes(c) + Bytes(Addition(state, s))
         /\ \/ /\ Addition(state, s) = <<s>> /\ Bytes(Addition(state, s)) = s.size
               /\ state.hasPath \/ state.path = NoPath \/ s.kind # "command"
               /\ \A c \in Seq(Statements) : c \o Addition(state, s) = Append(c, s)
            \/ /\ state.hasPath = FALSE /\ s.kind = "command"
               /\ \E p \in PathStatements :
                    /\ state.path = <<p>> /\ Addition(state, s) = Append(<<p>>, s)
                    /\ Bytes(Addition(state, s)) = p.size + s.size
                    /\ \A c \in Seq(Statements) :
                         c \o Addition(state, s) = Append(Append(c, p), s)
<1>0. \A x \in Statements : <<x>> = Append(<<>>, x) /\ <<>> \in Seq(Statements)
  OBVIOUS
<1>1. ASSUME NEW x \in Statements
      PROVE  <<x>> \in Seq(Statements) /\ <<x>> # <<>> /\ Bytes(<<x>>) = x.size
  <2>1. /\ Append(<<>>, x) \in Seq(Statements) /\ Append(<<>>, x) # <<>> /\ x.size \in Nat
        /\ Bytes(Append(<<>>, x)) = Bytes(<<>>) + x.size /\ Bytes(<<>>) = 0
    BY <1>0, StatementBytes
  <2>2. Bytes(Append(<<>>, x)) = x.size
    BY <2>1
  <2> QED BY <1>0, <2>1, <2>2
<1>2. CASE ~(~state.hasPath /\ state.path # NoPath /\ s.kind = "command")
  <2>1. Addition(state, s) = <<s>> /\ Bytes(<<s>>) = s.size
    BY <1>1, <1>2 DEF Addition
  <2>2. \A c \in Seq(Statements) : c \o <<s>> = Append(c, s)
    BY AppendConcat
  <2>3. \A c \in Seq(Statements) : Bytes(Append(c, s)) = Bytes(c) + s.size
    BY StatementBytes
  <2>4. s.size \in Nat /\ \A c \in Seq(Statements) : Append(c, s) \in Seq(Statements) /\ Append(c, s) # <<>>
    BY StatementBytes, LineTypes
  <2>5. state.hasPath \/ state.path = NoPath \/ s.kind # "command"
    BY <1>2
  <2> DEFINE more == Addition(state, s)
  <2>6. /\ more = <<s>> /\ more \in Seq(Statements) /\ Bytes(more) = s.size
        /\ \A c \in Seq(Statements) : c \o more = Append(c, s)
    BY <1>1, <2>1, <2>2
  <2> HIDE DEF more
  <2> QED BY <2>3, <2>4, <2>5, <2>6 DEF more
<1>3. CASE ~state.hasPath /\ state.path # NoPath /\ s.kind = "command"
  <2>1. PICK p \in PathStatements : state.path = <<p>>
    BY <1>3 DEF SplitStates
  <2>2. p \in Statements
    BY DEF PathStatements
  <2>3. Addition(state, s) = Append(<<p>>, s)
    BY <1>3, <2>1 DEF Addition
  <2>4. \A c \in Seq(Statements) : c \o Append(<<p>>, s) = Append(Append(c, p), s)
    BY <2>2, AppendConcat
  <2>5. \A c \in Seq(Statements) :
          /\ Append(c, p) \in Seq(Statements) /\ Append(Append(c, p), s) \in Seq(Statements)
          /\ Append(Append(c, p), s) # <<>>
          /\ Bytes(Append(Append(c, p), s)) = (Bytes(c) + p.size) + s.size
    BY <2>2, StatementBytes
  <2>6. /\ <<p>> \in Seq(Statements) /\ Append(<<p>>, s) \in Seq(Statements)
        /\ Bytes(Append(<<p>>, s)) = p.size + s.size
    BY <1>1, <2>2, StatementBytes
  <2>7. state.hasPath = FALSE
    BY <1>3 DEF SplitStates
  <2>8. \A c \in Seq(Statements) : Bytes(c) \in Nat /\ p.size \in Nat /\ s.size \in Nat
    BY <2>2, StatementBytes
  <2>9. \A c \in Seq(Statements) :
          Bytes(c \o Append(<<p>>, s)) = Bytes(c) + Bytes(Append(<<p>>, s))
    <3> TAKE c \in Seq(Statements)
    <3>1. /\ Bytes(c \o Append(<<p>>, s)) = (Bytes(c) + p.size) + s.size
          /\ Bytes(Append(<<p>>, s)) = p.size + s.size
      BY <2>4, <2>5, <2>6
    <3> DEFINE a == Bytes(c)
               b == p.size
               d == s.size
    <3>2. a \in Nat /\ b \in Nat /\ d \in Nat
      BY <2>8
    <3> HIDE DEF a, b, d
    <3>3. (a + b) + d = a + (b + d)
      BY <3>2
    <3> QED BY <3>1, <3>3 DEF a, b, d
  <2>10. Bytes(Append(<<p>>, s)) \in Nat
    BY <2>6, StatementBytes
  <2> QED BY <1>3, <2>1, <2>3, <2>4, <2>5, <2>6, <2>7, <2>9, <2>10
<1> QED BY <1>2, <1>3

(* The path line of a new path counts before it is written. *)
Pathed(before, s) ==
  IF s.kind = "path" THEN [before EXCEPT !.path = <<PathLine(s)>>] ELSE before

LEMMA PathedType ==
  ASSUME NEW before \in SplitStates, NEW s \in Statements
  PROVE  /\ Pathed(before, s) \in SplitStates
         /\ Pathed(before, s).path = IF s.kind = "path" THEN <<s>> ELSE before.path
         /\ Pathed(before, s).chunks = before.chunks
         /\ Pathed(before, s).current = before.current
         /\ Pathed(before, s).hasPath = before.hasPath
         /\ Pathed(before, s).refused = before.refused
<1>1. CASE s.kind = "path"
  <2>1. s \in PathStatements /\ PathLine(s) = s
    BY <1>1, PathLineIs DEF PathStatements
  <2>2. Pathed(before, s) = [before EXCEPT !.path = <<s>>]
    BY <1>1, <2>1 DEF Pathed
  <2> QED BY <1>1, <2>1, <2>2 DEF SplitStates
<1>2. CASE s.kind # "path"
  BY <1>2 DEF Pathed
<1> QED BY <1>1, <1>2

LEMMA FlushType ==
  ASSUME NEW state \in SplitStates
  PROVE  /\ Flush(state) \in SplitStates
         /\ Flush(state).path = state.path /\ Flush(state).refused = state.refused
         /\ Flush(state).current = <<>>
         /\ state.current = <<>> => Flush(state) = state
         /\ state.current # <<>> =>
              /\ Flush(state).chunks = Append(state.chunks, state.current)
              /\ Flush(state).hasPath = FALSE
<1>1. CASE state.current = <<>>
  BY <1>1 DEF Flush
<1>2. CASE state.current # <<>>
  <2> DEFINE more == Append(state.chunks, state.current)
             none == <<>>
             flushed == [state EXCEPT !.chunks = more, !.current = none, !.hasPath = FALSE]
  <2>1. more \in Seq(Seq(Statements))
    BY AppendProperties DEF SplitStates
  <2>2. none \in Seq(Statements)
    OBVIOUS
  <2>3. Flush(state) = flushed
    BY <1>2 DEF Flush
  <2> HIDE DEF more, none
  <2>4. /\ flushed \in SplitStates /\ flushed.path = state.path
        /\ flushed.refused = state.refused /\ flushed.current = none
        /\ flushed.chunks = more /\ flushed.hasPath = FALSE
    BY <2>1, <2>2 DEF SplitStates
  <2> QED BY <1>2, <2>3, <2>4 DEF more, none
<1> QED BY <1>1, <1>2

LEMMA WriteType ==
  ASSUME NEW state \in SplitStates, NEW s \in Statements
  PROVE  /\ Write(state, s) \in SplitStates
         /\ Write(state, s).chunks = state.chunks /\ Write(state, s).path = state.path
         /\ Write(state, s).refused = state.refused
         /\ Write(state, s).current = state.current \o Addition(state, s)
         /\ Write(state, s).hasPath <=>
              state.hasPath \/ s.kind = "path" \/ (state.path # NoPath /\ s.kind = "command")
<1> DEFINE more == state.current \o Addition(state, s)
           has == state.hasPath \/ s.kind = "path" \/ (state.path # NoPath /\ s.kind = "command")
           written == [state EXCEPT !.current = more, !.hasPath = has]
<1>1. more \in Seq(Statements)
  BY Additions DEF SplitStates
<1>2. has \in BOOLEAN
  OBVIOUS
<1>3. Write(state, s) = written
  BY DEF Write
<1> HIDE DEF more, has
<1>4. /\ written \in SplitStates /\ written.chunks = state.chunks
      /\ written.path = state.path /\ written.refused = state.refused
      /\ written.current = more /\ written.hasPath = has
  BY <1>1, <1>2 DEF SplitStates
<1> QED BY <1>3, <1>4 DEF more, has

(* A statement is refused, added to the chunk, or starts the next one. *)
LEMMA AddStatementCases ==
  ASSUME NEW before \in SplitStates, NEW s \in Statements
  PROVE  LET state == Pathed(before, s)
             new == Flush(state)
             after == AddStatement(before, s)
         IN \/ /\ after = [before EXCEPT !.refused = TRUE]
               /\ \/ before.refused
                  \/ Bytes(Addition(state, s)) > MaxBytes
                  \/ Bytes(Addition(new, s)) > MaxBytes
            \/ /\ ~before.refused /\ after = Write(state, s)
               /\ Bytes(state.current) + Bytes(Addition(state, s)) <= MaxBytes
            \/ /\ ~before.refused /\ after = Write(new, s)
               /\ Bytes(Addition(new, s)) <= MaxBytes
<1> DEFINE state == Pathed(before, s)
           new == Flush(state)
<1>1. state \in SplitStates /\ new \in SplitStates
  BY PathedType, FlushType
<1>2. /\ Bytes(Addition(state, s)) \in Nat /\ Bytes(Addition(new, s)) \in Nat
      /\ Bytes(state.current) \in Nat
  BY <1>1, Additions, StatementBytes DEF SplitStates
<1>3. MaxBytes \in Nat
  BY ImportAssumption
<1>4. AddStatement(before, s) =
        IF \/ before.refused \/ Bytes(Addition(state, s)) > MaxBytes
           \/ Bytes(Addition(IF Fits(state, s) THEN state ELSE new, s)) > MaxBytes
          THEN [before EXCEPT !.refused = TRUE]
          ELSE Write(IF Fits(state, s) THEN state ELSE new, s)
  BY DEF AddStatement, Pathed, TooLong
<1>5. Fits(state, s) <=> Bytes(state.current) + Bytes(Addition(state, s)) <= MaxBytes
  BY DEF Fits
<1> HIDE DEF state, new
<1> DEFINE after == AddStatement(before, s)
<1>6. \/ /\ after = [before EXCEPT !.refused = TRUE]
         /\ \/ before.refused
            \/ Bytes(Addition(state, s)) > MaxBytes
            \/ Bytes(Addition(new, s)) > MaxBytes
      \/ /\ ~before.refused /\ after = Write(state, s)
         /\ Bytes(state.current) + Bytes(Addition(state, s)) <= MaxBytes
      \/ /\ ~before.refused /\ after = Write(new, s)
         /\ Bytes(Addition(new, s)) <= MaxBytes
  <2>1. CASE before.refused
    BY <2>1, <1>4
  <2>2. CASE ~before.refused /\ Fits(state, s)
    BY <2>2, <1>4, <1>5
  <2>3. CASE ~before.refused /\ ~Fits(state, s)
    <3> DEFINE a == Bytes(Addition(state, s))
               b == Bytes(Addition(new, s))
    <3>1. after = IF a > MaxBytes \/ b > MaxBytes
                    THEN [before EXCEPT !.refused = TRUE] ELSE Write(new, s)
      BY <2>3, <1>4
    <3>2. a \in Nat /\ b \in Nat
      BY <1>2
    <3> HIDE DEF a, b, after
    <3>3. b <= MaxBytes \/ b > MaxBytes
      BY <3>2, <1>3
    <3> QED BY <2>3, <3>1, <3>3 DEF a, b
  <2> QED BY <2>1, <2>2, <2>3
<1> QED BY <1>6 DEF state, new

LEMMA AddStatementType ==
  ASSUME NEW before \in SplitStates, NEW s \in Statements
  PROVE  AddStatement(before, s) \in SplitStates
<1>1. [before EXCEPT !.refused = TRUE] \in SplitStates
  BY DEF SplitStates
<1>2. /\ Write(Pathed(before, s), s) \in SplitStates
      /\ Write(Flush(Pathed(before, s)), s) \in SplitStates
  <2>1. Pathed(before, s) \in SplitStates /\ Flush(Pathed(before, s)) \in SplitStates
    BY PathedType, FlushType
  <2> QED BY <2>1, WriteType
<1> QED BY <1>1, <1>2, AddStatementCases

Unsplit ==
  [chunks |-> <<>>, current |-> <<>>, path |-> NoPath, hasPath |-> FALSE, refused |-> FALSE]

Filling(statements) == FoldLeft(AddStatement, Unsplit, statements)

(* Statements are added one after the other. *)
LEMMA FillingAppend ==
  /\ Filling(<<>>) = Unsplit
  /\ \A seq \in Seq(Statements), x \in Statements :
       Filling(seq) \in SplitStates /\ Filling(Append(seq, x)) = AddStatement(Filling(seq), x)
<1> DEFINE S == SplitStates
           T == Statements
           base == Unsplit
           step == [y \in S \X T |-> AddStatement(y[1], y[2])]
           fold == [seq \in Seq(T) |-> Filling(seq)]
           Eqn(seq, g) == g = [N \in SUBSET DOMAIN seq |->
                                 IF N = {} THEN Unsplit
                                 ELSE AddStatement(g[N \ {Max(N)}], seq[Max(N)])]
<1>0. base \in S /\ \A a \in S, x \in T : AddStatement(a, x) \in S
  <2>1. Unsplit \in SplitStates
    BY DEF Unsplit, SplitStates, NoPath
  <2> QED BY <2>1, AddStatementType
<1>1. /\ base \in S /\ step \in Steps(S, T)
      /\ \A a \in S, x \in T : step[<<a, x>>] = AddStatement(a, x)
  <2> HIDE DEF S, T, base
  <2> QED BY <1>0 DEF Steps
<1>2. ASSUME NEW seq \in Seq(T)
      PROVE  \E g : /\ Filling(seq) = g[DOMAIN seq] /\ g[{}] = base
                    /\ \A N \in SUBSET DOMAIN seq : N # {} =>
                         /\ seq[Max(N)] \in T
                         /\ g[N] = AddStatement(g[N \ {Max(N)}], seq[Max(N)])
  <2>1. PICK h : Unfolds(base, step, S, T, seq, h)
    <3> HIDE DEF step, T, base, S
    <3> QED BY <1>1, FoldingExists
  <2>2. Eqn(seq, h)
    <3> HIDE DEF step, T, S
    <3> QED BY <1>1, <2>1 DEF Unfolds, Folding
  <2>3. PICK g : Eqn(seq, g) /\ Filling(seq) = g[DOMAIN seq]
    BY <2>2 DEF Filling, FoldLeft, MapThenFoldSet
  <2> QED BY <2>1, <2>3 DEF Unfolds
<1>3. IsFold(base, step, S, T, fold)
  <2> HIDE DEF step, S, T, base
  <2> SUFFICES ASSUME NEW seq \in Seq(T)
               PROVE  \E g : /\ fold[seq] = g[DOMAIN seq]
                             /\ \A N \in SUBSET DOMAIN seq :
                                  IF N = {} THEN g[N] = base
                                  ELSE g[N \ {Max(N)}] \in S =>
                                         g[N] = step[<<g[N \ {Max(N)}], seq[Max(N)]>>]
    BY DEF IsFold
  <2>1. PICK g : /\ Filling(seq) = g[DOMAIN seq] /\ g[{}] = base
                 /\ \A N \in SUBSET DOMAIN seq : N # {} =>
                      /\ seq[Max(N)] \in T
                      /\ g[N] = AddStatement(g[N \ {Max(N)}], seq[Max(N)])
    BY <1>2
  <2>2. \A N \in SUBSET DOMAIN seq :
          IF N = {} THEN g[N] = base
          ELSE g[N \ {Max(N)}] \in S => g[N] = step[<<g[N \ {Max(N)}], seq[Max(N)]>>]
    BY <1>1, <2>1
  <2> QED BY <2>1, <2>2
<1>4. /\ fold[<<>>] = base
      /\ \A seq \in Seq(T), x \in T :
           fold[seq] \in S /\ fold[Append(seq, x)] = step[<<fold[seq], x>>]
  <2> HIDE DEF step, T, base, S, fold
  <2> QED BY <1>1, <1>3, FoldAppend
<1>5. <<>> \in Seq(T) /\ \A seq \in Seq(T), x \in T : Append(seq, x) \in Seq(T)
  BY AppendProperties
<1> QED BY <1>1, <1>4, <1>5

(* The chunks and the open one together do what the statements added so    *)
(* far do, and a run of the open one ends in their menu once it has a path *)
(* line.                                                                   *)
Sound(state, menu, done) ==
  /\ state \in SplitStates
  /\ state.refused = FALSE
  /\ Bytes(state.current) <= MaxBytes
  /\ \A i \in DOMAIN state.chunks : Bytes(state.chunks[i]) <= MaxBytes
  /\ Runs(state.chunks) \o RunAll(state.current).done = done
  /\ IF state.path = NoPath
       THEN menu = RootMenu /\ state.hasPath = FALSE /\ RunAll(state.current).menu = RootMenu
       ELSE menu = state.path[1].menu
  /\ state.hasPath = TRUE => RunAll(state.current).menu = menu

Effects == Seq(Menus \X Seq(ScriptLines))

LEMMA RunFacts ==
  /\ RunAll(<<>>).menu = RootMenu /\ RunAll(<<>>).done = <<>>
  /\ Runs(<<>>) = <<>>
  /\ \A statements \in Seq(Statements) :
       RunAll(statements).done \in Effects /\ RunAll(statements).menu \in Menus
  /\ \A statements \in Seq(Statements), s \in Statements :
       /\ RunAll(Append(statements, s)).menu =
            IF s.kind = "path" THEN s.menu ELSE RunAll(statements).menu
       /\ RunAll(Append(statements, s)).done =
            IF s.kind = "command"
              THEN Append(RunAll(statements).done, <<RunAll(statements).menu, s.text>>)
              ELSE RunAll(statements).done
  /\ \A parts \in Seq(Seq(Statements)), part \in Seq(Statements) :
       Runs(parts) \in Effects /\ Runs(Append(parts, part)) = Runs(parts) \o RunAll(part).done
<1>1. RunAll(<<>>) = AtRoot /\ AtRoot.menu = RootMenu /\ AtRoot.done = <<>>
  BY RunAppend DEF AtRoot
<1>2. \A statements \in Seq(Statements), s \in Statements :
        /\ RunAll(statements) \in RunStates
        /\ RunAll(Append(statements, s)) = Run(RunAll(statements), s)
  BY RunAppend
<1>3. \A statements \in Seq(Statements) : RunAll(statements) \in RunStates
  <2> DEFINE P == {seq \in Seq(Statements) : RunAll(seq) \in RunStates}
  <2>1. AtRoot \in RunStates
    BY DEF AtRoot, RunStates, Menus
  <2>2. <<>> \in P
    BY <1>1, <2>1
  <2>3. \A seq \in Seq(Statements), x \in Statements : Append(seq, x) \in P
    BY <1>2, RunType, AppendProperties
  <2>4. Seq(Statements) \subseteq P
    <3> HIDE DEF P
    <3> QED BY <2>2, <2>3, SequenceInduction
  <2> QED BY <2>4
<1>4. Runs(<<>>) = <<>>
      /\ \A parts \in Seq(Seq(Statements)), part \in Seq(Statements) :
           Runs(parts) \in Effects /\ Runs(Append(parts, part)) = Runs(parts) \o RunAll(part).done
  BY RunsAppend, ExecutedRunAll DEF Effects
<1>5. \A state \in RunStates : state.done \in Effects /\ state.menu \in Menus
  BY DEF RunStates, Effects
<1> QED BY <1>1, <1>2, <1>3, <1>4, <1>5, RunType

LEMMA FlushSound ==
  ASSUME NEW state, NEW menu, NEW done, Sound(state, menu, done)
  PROVE  Sound(Flush(state), menu, done)
<1>1. state \in SplitStates /\ state.chunks \in Seq(Seq(Statements))
      /\ state.current \in Seq(Statements)
  BY DEF Sound, SplitStates
<1>2. CASE state.current = <<>>
  BY <1>1, <1>2, FlushType
<1>3. CASE state.current # <<>>
  <2> DEFINE new == Flush(state)
  <2>1. /\ new \in SplitStates /\ new.path = state.path /\ new.refused = FALSE
        /\ new.current = <<>> /\ new.chunks = Append(state.chunks, state.current)
        /\ new.hasPath = FALSE
    BY <1>1, <1>3, FlushType DEF Sound
  <2> HIDE DEF new
  <2>2. Bytes(new.current) <= MaxBytes
    BY <2>1, StatementBytes, ImportAssumption
  <2>3. \A i \in DOMAIN new.chunks : Bytes(new.chunks[i]) <= MaxBytes
    <3>1. /\ DOMAIN state.chunks = 1 .. Len(state.chunks)
          /\ DOMAIN new.chunks = 1 .. (Len(state.chunks) + 1) /\ Len(state.chunks) \in Nat
          /\ \A i \in 1 .. Len(state.chunks) : new.chunks[i] = state.chunks[i]
          /\ new.chunks[Len(state.chunks) + 1] = state.current
      BY <1>1, <2>1, AppendProperties, LenProperties
    <3>2. \A i \in 1 .. (Len(state.chunks) + 1) :
            i \in 1 .. Len(state.chunks) \/ i = Len(state.chunks) + 1
      BY <3>1
    <3> QED BY <3>1, <3>2 DEF Sound
  <2>4. Runs(new.chunks) \o RunAll(new.current).done = done
    <3>1. Runs(new.chunks) = done
      BY <1>1, <2>1, RunFacts DEF Sound
    <3>2. Runs(new.chunks) \in Effects
      <4>1. new.chunks \in Seq(Seq(Statements)) /\ state.current \in Seq(Statements)
        BY <1>1, <2>1 DEF SplitStates
      <4> QED BY <4>1, RunFacts
    <3> QED BY <2>1, <3>1, <3>2, RunFacts, ConcatEmptySeq DEF Effects
  <2>5. new.path = NoPath => menu = RootMenu /\ RunAll(new.current).menu = RootMenu
    BY <2>1, RunFacts DEF Sound
  <2>6. new.path # NoPath => menu = new.path[1].menu
    BY <2>1 DEF Sound
  <2>7. Sound(new, menu, done)
    BY <2>1, <2>2, <2>3, <2>4, <2>5, <2>6 DEF Sound
  <2> QED BY <2>7 DEF new
<1> QED BY <1>2, <1>3

(* A command goes where the whole script has it, behind its path line if   *)
(* the chunk has none yet.                                                 *)
LEMMA WriteSound ==
  ASSUME NEW state, NEW menu, NEW done, Sound(state, menu, done),
         NEW s \in Statements, s.kind # "path",
         Bytes(state.current) + Bytes(Addition(state, s)) <= MaxBytes
  PROVE  Sound(Write(state, s), menu,
               IF s.kind = "command" THEN Append(done, <<menu, s.text>>) ELSE done)
<1> DEFINE after == Write(state, s)
           current == state.current
           effects == RunAll(current).done
           more == IF s.kind = "command" THEN Append(done, <<menu, s.text>>) ELSE done
           runs == Runs(state.chunks)
<1>1. /\ state \in SplitStates /\ state.chunks \in Seq(Seq(Statements))
      /\ current \in Seq(Statements) /\ state.hasPath \in BOOLEAN
      /\ runs \o effects = done
  BY DEF Sound, SplitStates
<1>2. /\ after \in SplitStates /\ after.chunks = state.chunks /\ after.path = state.path
      /\ after.refused = FALSE /\ after.current = current \o Addition(state, s)
      /\ after.hasPath \in BOOLEAN
      /\ after.hasPath = TRUE <=>
           state.hasPath = TRUE \/ (state.path # NoPath /\ s.kind = "command")
  <2>1. /\ Write(state, s) \in SplitStates
        /\ Write(state, s).chunks = state.chunks /\ Write(state, s).path = state.path
        /\ Write(state, s).refused = state.refused
        /\ Write(state, s).current = state.current \o Addition(state, s)
        /\ Write(state, s).hasPath <=>
             state.hasPath \/ s.kind = "path" \/ (state.path # NoPath /\ s.kind = "command")
    BY <1>1, WriteType
  <2>2. Write(state, s).hasPath \in BOOLEAN
    BY <2>1 DEF SplitStates
  <2> QED BY <1>1, <2>1, <2>2 DEF Sound
<1>3. Bytes(after.current) <= MaxBytes
  BY <1>1, <1>2, Additions
<1>4. /\ effects \in Effects /\ RunAll(current).menu \in Menus
      /\ runs \in Effects
      /\ \A st \in Seq(Statements), x \in Statements : Append(st, x) \in Seq(Statements)
  BY <1>1, RunFacts, AppendProperties
<1>m. \A m \in Menus : <<m, s.text>> \in Menus \X Seq(ScriptLines)
  BY DEF Statements, StatementRecords
<1> HIDE DEF after, current, effects, runs
<1>5. /\ RunAll(after.current).menu = IF after.hasPath = TRUE THEN menu ELSE RunAll(current).menu
      /\ runs \o RunAll(after.current).done = more
  <2>1. CASE after.current = Append(current, s)
             /\ (state.hasPath \/ state.path = NoPath \/ s.kind # "command")
    <3>1. /\ RunAll(after.current).menu = RunAll(current).menu
          /\ RunAll(after.current).done =
               IF s.kind = "command" THEN Append(effects, <<RunAll(current).menu, s.text>>)
               ELSE effects
      BY <2>1, <1>1, RunFacts DEF effects
    <3>2. s.kind = "command" => RunAll(current).menu = menu
      BY <2>1, <1>1 DEF Sound, current
    <3>3. after.hasPath = TRUE => RunAll(current).menu = menu
      BY <2>1, <1>1, <1>2 DEF Sound, current
    <3>4. s.kind = "command" => runs \o Append(effects, <<menu, s.text>>) = Append(done, <<menu, s.text>>)
      <4>1. HAVE s.kind = "command"
      <4>2. <<menu, s.text>> \in Menus \X Seq(ScriptLines)
        BY <4>1, <3>2, <1>4, <1>m
      <4>3. runs \o Append(effects, <<menu, s.text>>) = Append(runs \o effects, <<menu, s.text>>)
        BY <4>2, <1>4, AppendConcat DEF Effects
      <4> QED BY <4>3, <1>1
    <3> QED BY <3>1, <3>2, <3>3, <3>4, <1>1
  <2>2. ASSUME NEW p \in PathStatements, state.path = <<p>>, s.kind = "command",
               after.current = Append(Append(current, p), s)
        PROVE  /\ RunAll(after.current).menu = menu
               /\ runs \o RunAll(after.current).done = Append(done, <<menu, s.text>>)
    <3>1. p \in Statements /\ p.kind = "path" /\ menu = p.menu
      <4>1. <<p>> # NoPath /\ <<p>>[1] = p
        BY DEF NoPath
      <4> QED BY <2>2, <4>1 DEF PathStatements, Sound
    <3>2. RunAll(Append(current, p)).menu = menu /\ RunAll(Append(current, p)).done = effects
      BY <1>1, <3>1, RunFacts DEF effects
    <3>3. Append(current, p) \in Seq(Statements)
      BY <1>1, <1>4, <3>1
    <3>4. /\ RunAll(after.current).menu = menu
          /\ RunAll(after.current).done = Append(effects, <<menu, s.text>>)
      BY <2>2, <3>2, <3>3, RunFacts
    <3>5. <<menu, s.text>> \in Menus \X Seq(ScriptLines)
      BY <3>2, <3>3, RunFacts, <1>m
    <3>6. runs \o Append(effects, <<menu, s.text>>) = Append(runs \o effects, <<menu, s.text>>)
      BY <3>5, <1>4, AppendConcat DEF Effects
    <3> QED BY <3>4, <3>6, <1>1
  <2>3. \/ /\ after.current = Append(current, s)
           /\ (state.hasPath \/ state.path = NoPath \/ s.kind # "command")
        \/ /\ s.kind = "command"
           /\ \E p \in PathStatements :
                state.path = <<p>> /\ after.current = Append(Append(current, p), s)
    <3>1. \/ /\ (state.hasPath \/ state.path = NoPath \/ s.kind # "command")
             /\ \A c \in Seq(Statements) : c \o Addition(state, s) = Append(c, s)
          \/ /\ s.kind = "command"
             /\ \E p \in PathStatements :
                  /\ state.path = <<p>>
                  /\ \A c \in Seq(Statements) :
                       c \o Addition(state, s) = Append(Append(c, p), s)
      BY <1>1, Additions
    <3> QED BY <3>1, <1>1, <1>2
  <2>4. (\E p \in PathStatements : state.path = <<p>>) /\ s.kind = "command" => after.hasPath = TRUE
    <3>1. \A p : <<p>> # NoPath
      BY DEF NoPath
    <3> QED BY <3>1, <1>2
  <2> QED BY <2>1, <2>2, <2>3, <2>4
<1>6. after.path = NoPath =>
        menu = RootMenu /\ after.hasPath = FALSE /\ RunAll(after.current).menu = RootMenu
  BY <1>2, <1>5 DEF Sound, current
<1>7. /\ after.path # NoPath => menu = after.path[1].menu
      /\ \A i \in DOMAIN after.chunks : Bytes(after.chunks[i]) <= MaxBytes
  BY <1>2 DEF Sound
<1>8. Sound(after, menu, more)
  <2> HIDE DEF more
  <2> QED BY <1>2, <1>3, <1>5, <1>6, <1>7 DEF Sound, runs
<1> QED BY <1>8 DEF after

LEMMA WritePathSound ==
  ASSUME NEW state, NEW menu, NEW done, Sound(state, menu, done),
         NEW s \in PathStatements,
         Bytes(state.current) + Bytes(Addition(Pathed(state, s), s)) <= MaxBytes
  PROVE  Sound(Write(Pathed(state, s), s), s.menu, done)
<1> DEFINE based == Pathed(state, s)
           after == Write(based, s)
<1>1. s \in Statements /\ s.kind = "path"
  BY DEF PathStatements
<1>2. /\ state \in SplitStates /\ state.chunks \in Seq(Seq(Statements))
      /\ state.current \in Seq(Statements)
  BY DEF Sound, SplitStates
<1>3. /\ based \in SplitStates /\ based.path = <<s>> /\ based.chunks = state.chunks
      /\ based.current = state.current /\ based.refused = FALSE
  BY <1>1, <1>2, PathedType DEF Sound
<1> HIDE DEF based
<1>4. /\ after \in SplitStates /\ after.chunks = state.chunks /\ after.path = <<s>>
      /\ after.refused = FALSE /\ after.current = state.current \o Addition(based, s)
  BY <1>1, <1>3, WriteType
<1>5. /\ after.current = Append(state.current, s)
      /\ Bytes(after.current) = Bytes(state.current) + Bytes(Addition(based, s))
  <2>1. /\ \A c \in Seq(Statements) :
             Bytes(c \o Addition(based, s)) = Bytes(c) + Bytes(Addition(based, s))
        /\ s.kind # "command" => \A c \in Seq(Statements) : c \o Addition(based, s) = Append(c, s)
    BY <1>1, <1>3, Additions
  <2> QED BY <1>1, <1>2, <1>4, <2>1
<1>6. /\ RunAll(after.current).menu = s.menu
      /\ RunAll(after.current).done = RunAll(state.current).done
  BY <1>1, <1>2, <1>5, RunFacts
<1>7. <<s>> # NoPath /\ <<s>>[1] = s
  BY DEF NoPath
<1>8. /\ Bytes(after.current) <= MaxBytes
      /\ \A i \in DOMAIN after.chunks : Bytes(after.chunks[i]) <= MaxBytes
      /\ Runs(after.chunks) \o RunAll(after.current).done = done
  BY <1>4, <1>5, <1>6 DEF Sound, based
<1>9. Sound(after, s.menu, done)
  <2> HIDE DEF after
  <2> QED BY <1>4, <1>6, <1>7, <1>8 DEF Sound
<1> QED BY <1>9 DEF based

LEMMA FlushPathed ==
  ASSUME NEW state \in SplitStates, NEW s \in Statements
  PROVE  Flush(Pathed(state, s)) = Pathed(Flush(state), s)
<1> DEFINE more == Append(state.chunks, state.current)
           path == <<PathLine(s)>>
<1>1. CASE s.kind = "path" /\ state.current # <<>>
  <2>1. Flush(Pathed(state, s)) =
          [[state EXCEPT !.path = path] EXCEPT !.chunks = more, !.current = <<>>, !.hasPath = FALSE]
    BY <1>1 DEF Flush, Pathed, SplitStates
  <2>2. Pathed(Flush(state), s) =
          [[state EXCEPT !.chunks = more, !.current = <<>>, !.hasPath = FALSE] EXCEPT !.path = path]
    BY <1>1 DEF Flush, Pathed
  <2> DEFINE none == <<>>
  <2> HIDE DEF more, path, none
  <2>3. [[state EXCEPT !.path = path] EXCEPT !.chunks = more, !.current = none, !.hasPath = FALSE]
        = [[state EXCEPT !.chunks = more, !.current = none, !.hasPath = FALSE] EXCEPT !.path = path]
    BY DEF SplitStates
  <2> QED BY <2>1, <2>2, <2>3 DEF none
<1>2. CASE s.kind = "path" /\ state.current = <<>>
  <2>1. Pathed(state, s).current = <<>>
    BY <1>2 DEF Pathed, SplitStates
  <2> QED BY <1>2, <2>1 DEF Flush
<1>3. CASE s.kind # "path"
  BY <1>3 DEF Pathed
<1> QED BY <1>1, <1>2, <1>3

(* The same for the whole turn of the loop; a refusal is for an addition   *)
(* that is too long. *)
LEMMA AddStatementSound ==
  ASSUME NEW before, NEW menu, NEW done, Sound(before, menu, done), NEW s \in Statements
  PROVE  LET after == AddStatement(before, s)
         IN \/ /\ after = [before EXCEPT !.refused = TRUE]
               /\ \/ s.size > MaxBytes
                  \/ /\ s.kind = "command"
                     /\ \E p \in PathStatements : before.path = <<p>> /\ p.size + s.size > MaxBytes
            \/ /\ Sound(after, IF s.kind = "path" THEN s.menu ELSE menu,
                        IF s.kind = "command" THEN Append(done, <<menu, s.text>>) ELSE done)
               /\ after.current # <<>>
               /\ after.path = IF s.kind = "path" THEN <<s>> ELSE before.path
<1> DEFINE state == Pathed(before, s)
           new == Flush(state)
           after == AddStatement(before, s)
<1>1. before \in SplitStates /\ before.refused = FALSE
  BY DEF Sound
<1>2. /\ state \in SplitStates /\ new \in SplitStates
      /\ state.path = IF s.kind = "path" THEN <<s>> ELSE before.path
      /\ new.path = state.path /\ new.current = <<>>
      /\ state.current = before.current
  BY <1>1, PathedType, FlushType
<1>3. new = Pathed(Flush(before), s)
  BY <1>1, FlushPathed
<1>4. /\ Sound(Flush(before), menu, done) /\ Flush(before).current = <<>>
  BY <1>1, FlushSound, FlushType
<1>5. ASSUME NEW base, base \in {before, Flush(before)},
             LET b == Pathed(base, s) IN
               /\ after = Write(b, s)
               /\ Bytes(b.current) + Bytes(Addition(b, s)) <= MaxBytes
      PROVE  /\ Sound(after, IF s.kind = "path" THEN s.menu ELSE menu,
                      IF s.kind = "command" THEN Append(done, <<menu, s.text>>) ELSE done)
             /\ after.current # <<>>
             /\ after.path = IF s.kind = "path" THEN <<s>> ELSE before.path
  <2>1. base \in SplitStates /\ Sound(base, menu, done) /\ base.path = before.path
    BY <1>1, <1>4, <1>5, FlushType DEF Sound
  <2> DEFINE b == Pathed(base, s)
  <2>2. /\ b \in SplitStates /\ b.current = base.current
        /\ b.path = IF s.kind = "path" THEN <<s>> ELSE before.path
    BY <2>1, PathedType
  <2>3. after = Write(b, s) /\ Bytes(base.current) + Bytes(Addition(b, s)) <= MaxBytes
    BY <1>5, <2>2
  <2> HIDE DEF after, state, new
  <2>4. Sound(after, IF s.kind = "path" THEN s.menu ELSE menu,
              IF s.kind = "command" THEN Append(done, <<menu, s.text>>) ELSE done)
    <3>1. CASE s.kind = "path"
      BY <2>1, <2>3, <3>1, WritePathSound DEF PathStatements
    <3>2. CASE s.kind # "path"
      <4>1. b = base
        BY <3>2 DEF Pathed
      <4> QED BY <2>1, <2>3, <3>2, <4>1, WriteSound
    <3> QED BY <3>1, <3>2
  <2>5. /\ after.path = b.path /\ after.current # <<>>
    <3>1. b.current \in Seq(Statements)
      BY <2>2 DEF SplitStates
    <3> HIDE DEF b
    <3>2. after.path = b.path /\ after.current = b.current \o Addition(b, s)
      BY <2>2, <2>3, WriteType
    <3> QED BY <2>2, <3>1, <3>2, Additions
  <2> QED BY <2>2, <2>4, <2>5
<1>6. ASSUME NEW st \in SplitStates, st.path = state.path, Bytes(Addition(st, s)) > MaxBytes
      PROVE  \/ s.size > MaxBytes
             \/ /\ s.kind = "command"
                /\ \E p \in PathStatements : before.path = <<p>> /\ p.size + s.size > MaxBytes
  <2>1. \/ Bytes(Addition(st, s)) = s.size
        \/ /\ s.kind = "command"
           /\ \E p \in PathStatements :
                st.path = <<p>> /\ Bytes(Addition(st, s)) = p.size + s.size
    BY Additions
  <2>2. s.kind = "command" => st.path = before.path
    BY <1>2, <1>6
  <2> QED BY <1>6, <2>1, <2>2
<1>7. \/ /\ after = [before EXCEPT !.refused = TRUE]
         /\ \/ Bytes(Addition(state, s)) > MaxBytes
            \/ Bytes(Addition(new, s)) > MaxBytes
      \/ /\ after = Write(state, s)
         /\ Bytes(state.current) + Bytes(Addition(state, s)) <= MaxBytes
      \/ /\ after = Write(new, s)
         /\ Bytes(Addition(new, s)) <= MaxBytes
  BY <1>1, AddStatementCases
<1>8. Bytes(new.current) + Bytes(Addition(new, s)) = Bytes(Addition(new, s))
  <2> DEFINE n == Bytes(Addition(new, s))
  <2>1. n \in Nat /\ Bytes(new.current) = 0
    BY <1>2, StatementBytes, Additions
  <2> HIDE DEF n
  <2>2. Bytes(new.current) + n = n
    BY <2>1
  <2> QED BY <2>2 DEF n
<1> HIDE DEF after
<1> QED BY <1>2, <1>3, <1>5, <1>6, <1>7, <1>8 DEF after

(* The last path line, and the one a statement depends on. *)
LastPath(statements, path) ==
  IF path = NoPath THEN \A j \in 1 .. Len(statements) : statements[j].kind # "path"
  ELSE \E j \in 1 .. Len(statements) :
         /\ path = <<statements[j]>> /\ statements[j].kind = "path"
         /\ \A k \in 1 .. Len(statements) : statements[k].kind = "path" => k <= j

HasCause(statements) ==
  \E i \in DOMAIN statements : statements[i].size + Governing(statements, i) > MaxBytes

LEMMA StatementPlaces ==
  ASSUME NEW statements \in Seq(Statements), NEW s \in Statements
  PROVE  /\ Len(statements) \in Nat
         /\ DOMAIN statements = 1 .. Len(statements)
         /\ Append(statements, s) \in Seq(Statements)
         /\ Len(Append(statements, s)) = Len(statements) + 1
         /\ DOMAIN Append(statements, s) = 1 .. (Len(statements) + 1)
         /\ \A i \in 1 .. Len(statements) : Append(statements, s)[i] = statements[i]
         /\ Append(statements, s)[Len(statements) + 1] = s
         /\ \A i \in 1 .. (Len(statements) + 1) : i \in 1 .. Len(statements) \/ i = Len(statements) + 1
         /\ \A i \in 1 .. Len(statements) : i \in 1 .. (Len(statements) + 1)
         /\ Len(statements) + 1 \in 1 .. (Len(statements) + 1)
<1>1. /\ Len(statements) \in Nat
      /\ DOMAIN statements = 1 .. Len(statements)
      /\ Append(statements, s) \in Seq(Statements)
      /\ Len(Append(statements, s)) = Len(statements) + 1
      /\ DOMAIN Append(statements, s) = 1 .. (Len(statements) + 1)
      /\ \A i \in 1 .. Len(statements) : Append(statements, s)[i] = statements[i]
      /\ Append(statements, s)[Len(statements) + 1] = s
  BY AppendProperties, LenProperties
<1>2. \A n \in Nat : /\ \A i \in 1 .. (n + 1) : i \in 1 .. n \/ i = n + 1
                     /\ \A i \in 1 .. n : i \in 1 .. (n + 1)
                     /\ n + 1 \in 1 .. (n + 1)
  OBVIOUS
<1> QED BY <1>1, <1>2

LEMMA GoverningAppend ==
  ASSUME NEW statements \in Seq(Statements), NEW s \in Statements
  PROVE  \A i \in 1 .. Len(statements) :
           Governing(Append(statements, s), i) = Governing(statements, i)
<1> SUFFICES ASSUME NEW i \in 1 .. Len(statements)
             PROVE  Governing(Append(statements, s), i) = Governing(statements, i)
  OBVIOUS
<1> DEFINE more == Append(statements, s)
           paths == {j \in 1 .. i : statements[j].kind = "path"}
           last == CHOOSE j \in paths : \A k \in paths : k <= j
<1>1. \A j \in 1 .. i : more[j] = statements[j]
  BY StatementPlaces
<1>2. /\ {j \in 1 .. i : more[j].kind = "path"} = paths
      /\ more[i] = statements[i]
  BY <1>1, StatementPlaces
<1>3. CASE paths = {} \/ statements[i].kind # "command"
  BY <1>2, <1>3 DEF Governing
<1>4. CASE ~(paths = {} \/ statements[i].kind # "command")
  <2> HIDE DEF more
  <2>1. paths # {} /\ paths \subseteq 1 .. i /\ i \in Nat
    BY <1>4, StatementPlaces
  <2>2. \E j \in paths : \A k \in paths : k <= j
    <3> DEFINE gaps == {i - j : j \in paths}
    <3>2. gaps \subseteq Nat /\ gaps # {}
      BY <2>1
    <3>3. \E m \in gaps : \A n \in gaps : m <= n
      <4> HIDE DEF gaps
      <4> QED BY <3>2, LeastNatural
    <3>4. PICK j \in paths : \A n \in gaps : i - j <= n
      BY <3>3
    <3>5. ASSUME NEW k \in paths PROVE k <= j
      <4>1. i - j <= i - k
        BY <3>4
      <4>2. j \in 1 .. i /\ k \in 1 .. i /\ i \in Nat
        BY <2>1
      <4> HIDE DEF paths
      <4> QED BY <4>1, <4>2
    <3> QED BY <3>5
  <2>3. last \in paths
    BY <2>2
  <2>4. last \in 1 .. i
    BY <2>3
  <2> HIDE DEF last, paths
  <2>5. more[last] = statements[last]
    BY <1>1, <2>4
  <2>6. Governing(more, i) = more[last].size
    BY <1>2, <1>4 DEF Governing, last, paths
  <2>7. Governing(statements, i) = statements[last].size
    BY <1>4 DEF Governing, last, paths
  <2> QED BY <2>5, <2>6, <2>7 DEF more
<1> QED BY <1>3, <1>4

(* The last statement depends on the last path line, if it is a command. *)
LEMMA GoverningLast ==
  ASSUME NEW statements \in Seq(Statements), NEW s \in Statements,
         NEW path, LastPath(statements, path)
  PROVE  LET g == Governing(Append(statements, s), Len(statements) + 1)
         IN /\ g \in Nat
            /\ \A p : path = <<p>> /\ s.kind = "command" => g = p.size
<1> DEFINE more == Append(statements, s)
           n == Len(statements)
           paths == {j \in 1 .. (n + 1) : more[j].kind = "path"}
           last == CHOOSE j \in paths : \A k \in paths : k <= j
           g == Governing(more, n + 1)
<1>1. /\ n \in Nat /\ more[n + 1] = s
      /\ \A i \in 1 .. n : more[i] = statements[i] /\ i \in 1 .. (n + 1) /\ statements[i] \in Statements
      /\ \A i \in 1 .. (n + 1) : i \in 1 .. n \/ i = n + 1
  BY StatementPlaces, ElementOfSeq
<1>2. g = IF paths = {} \/ s.kind # "command" THEN 0 ELSE more[last].size
  BY <1>1 DEF Governing
<1> HIDE DEF more, n, g
<1>3. CASE s.kind # "command"
  BY <1>2, <1>3 DEF g, more, n
<1>4. CASE s.kind = "command" /\ path = NoPath
  <2>1. paths = {}
    BY <1>1, <1>4 DEF LastPath, n
  <2>2. \A p : NoPath # <<p>>
    BY DEF NoPath
  <2> QED BY <1>2, <1>4, <2>1, <2>2 DEF g, more, n
<1>5. CASE s.kind = "command" /\ path # NoPath
  <2>1. PICK j \in 1 .. n : /\ path = <<statements[j]>> /\ statements[j].kind = "path"
                            /\ \A k \in 1 .. n : statements[k].kind = "path" => k <= j
    BY <1>5 DEF LastPath, n
  <2>2. j \in paths /\ \A k \in paths : k <= j
    BY <1>1, <1>5, <2>1
  <2>3. last \in paths /\ \A k \in paths : k <= last
    BY <2>2
  <2>4. last = j
    <3>1. paths \subseteq Nat
      BY <1>1
    <3> HIDE DEF last, paths
    <3>2. last \in Nat /\ j \in Nat /\ last <= j /\ j <= last
      BY <3>1, <2>2, <2>3
    <3> QED BY <3>2
  <2> HIDE DEF last
  <2>5. g = statements[j].size
    BY <1>1, <1>2, <1>5, <2>1, <2>2, <2>4
  <2>6. statements[j].size \in Nat
    BY <1>1, <2>1, LineTypes
  <2>7. \A p : path = <<p>> => p = statements[j]
    <3>1. path[1] = statements[j] /\ \A p : <<p>>[1] = p
      BY <2>1
    <3> QED BY <3>1
  <2> QED BY <2>5, <2>6, <2>7 DEF g, more, n
<1> QED BY <1>3, <1>4, <1>5

(* Whatever has been read so far: the split so far does the same, or was   *)
(* given up for a cause. *)
SplitSoFar(statements) ==
  LET state == Filling(statements)
      whole == RunAll(statements)
  IN /\ state \in SplitStates
     /\ state.refused => HasCause(statements)
     /\ ~state.refused =>
          /\ Sound(state, whole.menu, whole.done)
          /\ LastPath(statements, state.path)
          /\ statements # <<>> => state.current # <<>>

LEMMA CauseStays ==
  ASSUME NEW statements \in Seq(Statements), NEW s \in Statements, HasCause(statements)
  PROVE  HasCause(Append(statements, s))
<1>1. PICK i \in 1 .. Len(statements) : statements[i].size + Governing(statements, i) > MaxBytes
  BY StatementPlaces DEF HasCause
<1>2. /\ Append(statements, s)[i] = statements[i] /\ i \in DOMAIN Append(statements, s)
      /\ Governing(Append(statements, s), i) = Governing(statements, i)
  BY StatementPlaces, GoverningAppend
<1> QED BY <1>1, <1>2 DEF HasCause

LEMMA SplitStart == SplitSoFar(<<>>)
<1> DEFINE none == <<>>
           noEffect == RunAll(none).done
<1>1. /\ Filling(none) = Unsplit /\ none \in Seq(Statements) /\ Len(none) = 0
      /\ none \in Seq(Seq(Statements)) /\ none \in Effects /\ DOMAIN none = {}
      /\ none \o none = none /\ Bytes(none) = 0 /\ 0 <= MaxBytes
  BY FillingAppend, StatementBytes, ImportAssumption DEF Effects
<1>2. RunAll(none).menu = RootMenu /\ RunAll(none).done = none /\ Runs(none) = none
  BY RunFacts
<1>3. Unsplit = [chunks |-> none, current |-> none, path |-> NoPath, hasPath |-> FALSE,
                 refused |-> FALSE]
  BY DEF Unsplit
<1>4. 1 .. Len(none) = {}
  BY <1>1
<1> HIDE DEF none
<1>5. Unsplit \in SplitStates
  BY <1>1, <1>3 DEF SplitStates
<1>6. Sound(Unsplit, RootMenu, none)
  BY <1>1, <1>2, <1>3, <1>5 DEF Sound
<1>7. LastPath(none, NoPath)
  BY <1>4 DEF LastPath
<1>8. Unsplit.path = NoPath /\ Unsplit.refused = FALSE
  BY <1>3
<1>9. SplitSoFar(none)
  BY <1>1, <1>2, <1>5, <1>6, <1>7, <1>8 DEF SplitSoFar, none
<1> QED BY <1>9 DEF none

LEMMA LastPathAppend ==
  ASSUME NEW statements \in Seq(Statements), NEW s \in Statements,
         NEW path, LastPath(statements, path)
  PROVE  LastPath(Append(statements, s), IF s.kind = "path" THEN <<s>> ELSE path)
<1> DEFINE more == Append(statements, s)
           n == Len(statements)
<1>1. /\ n \in Nat /\ more[n + 1] = s /\ Len(more) = n + 1
      /\ \A i \in 1 .. n : more[i] = statements[i] /\ i \in 1 .. (n + 1)
      /\ \A i \in 1 .. (n + 1) : i \in 1 .. n \/ i = n + 1
      /\ n + 1 \in 1 .. (n + 1)
  BY StatementPlaces
<1> HIDE DEF more, n
<1>2. CASE s.kind = "path"
  <2>1. \A k \in 1 .. (n + 1) : k <= n + 1
    BY <1>1
  <2>2. <<s>> # NoPath
    BY DEF NoPath
  <2> QED BY <1>1, <1>2, <2>1, <2>2 DEF LastPath, more
<1>3. CASE s.kind # "path" /\ path = NoPath
  BY <1>1, <1>3 DEF LastPath, more, n
<1>4. CASE s.kind # "path" /\ path # NoPath
  <2>1. PICK j \in 1 .. n : /\ path = <<statements[j]>> /\ statements[j].kind = "path"
                            /\ \A k \in 1 .. n : statements[k].kind = "path" => k <= j
    BY <1>4 DEF LastPath, n
  <2>2. /\ j \in 1 .. (n + 1) /\ path = <<more[j]>> /\ more[j].kind = "path"
        /\ \A k \in 1 .. (n + 1) : more[k].kind = "path" => k <= j
    BY <1>1, <1>4, <2>1
  <2> QED BY <1>1, <1>4, <2>2 DEF LastPath, more
<1> QED BY <1>2, <1>3, <1>4

LEMMA SplitFurther ==
  ASSUME NEW statements \in Seq(Statements), NEW s \in Statements, SplitSoFar(statements)
  PROVE  SplitSoFar(Append(statements, s))
<1> DEFINE before == Filling(statements)
           whole == RunAll(statements)
           more == Append(statements, s)
           after == Filling(more)
<1>1. /\ before \in SplitStates /\ after = AddStatement(before, s) /\ after \in SplitStates
  <2>1. before \in SplitStates /\ after = AddStatement(before, s)
    BY FillingAppend
  <2> QED BY <2>1, AddStatementType
<1>2. /\ before.refused => HasCause(statements)
      /\ ~before.refused =>
           Sound(before, whole.menu, whole.done) /\ LastPath(statements, before.path)
  BY DEF SplitSoFar
<1>3. /\ RunAll(more).menu = IF s.kind = "path" THEN s.menu ELSE whole.menu
      /\ RunAll(more).done = IF s.kind = "command" THEN Append(whole.done, <<whole.menu, s.text>>)
                             ELSE whole.done
  BY RunFacts
<1>4. CASE before.refused
  <2>1. HasCause(more)
    BY <1>2, <1>4, CauseStays
  <2>2. after = [before EXCEPT !.refused = TRUE]
    BY <1>1, <1>4, AddStatementCases
  <2>3. after.refused
    BY <1>1, <2>2 DEF SplitStates
  <2> HIDE DEF before, after, more
  <2> QED BY <1>1, <2>1, <2>3 DEF SplitSoFar, after, more
<1>5. CASE ~before.refused
  <2>1. Sound(before, whole.menu, whole.done) /\ LastPath(statements, before.path)
    BY <1>2, <1>5
  <2> HIDE DEF before, whole, after
  <2>2. \/ /\ after = [before EXCEPT !.refused = TRUE]
           /\ \/ s.size > MaxBytes
              \/ /\ s.kind = "command"
                 /\ \E p \in PathStatements : before.path = <<p>> /\ p.size + s.size > MaxBytes
        \/ /\ Sound(after, IF s.kind = "path" THEN s.menu ELSE whole.menu,
                    IF s.kind = "command" THEN Append(whole.done, <<whole.menu, s.text>>)
                    ELSE whole.done)
           /\ after.current # <<>>
           /\ after.path = IF s.kind = "path" THEN <<s>> ELSE before.path
    BY <1>1, <2>1, AddStatementSound
  <2>3. CASE /\ after = [before EXCEPT !.refused = TRUE]
             /\ \/ s.size > MaxBytes
                \/ /\ s.kind = "command"
                   /\ \E p \in PathStatements : before.path = <<p>> /\ p.size + s.size > MaxBytes
    <3> DEFINE g == Governing(more, Len(statements) + 1)
    <3>1. g \in Nat /\ \A p : before.path = <<p>> /\ s.kind = "command" => g = p.size
      BY <2>1, GoverningLast
    <3>2. s.size \in Nat /\ MaxBytes \in Nat
      BY LineTypes, ImportAssumption
    <3>3. \A p \in PathStatements : p.size \in Nat
      BY LineTypes DEF PathStatements
    <3>4. more[Len(statements) + 1] = s /\ Len(statements) + 1 \in DOMAIN more
      BY StatementPlaces
    <3>5. s.size + g > MaxBytes
      <4> HIDE DEF g
      <4>1. CASE s.size > MaxBytes
        BY <4>1, <3>1, <3>2
      <4>2. CASE /\ s.kind = "command"
                 /\ \E p \in PathStatements : before.path = <<p>> /\ p.size + s.size > MaxBytes
        BY <4>2, <3>1, <3>2, <3>3
      <4> QED BY <2>3, <4>1, <4>2
    <3>6. HasCause(more)
      BY <3>4, <3>5 DEF HasCause
    <3>7. after.refused
      BY <1>1, <2>3 DEF SplitStates
    <3> HIDE DEF more
    <3> QED BY <1>1, <3>6, <3>7 DEF SplitSoFar, after, more
  <2>4. CASE /\ Sound(after, IF s.kind = "path" THEN s.menu ELSE whole.menu,
                      IF s.kind = "command" THEN Append(whole.done, <<whole.menu, s.text>>)
                      ELSE whole.done)
             /\ after.current # <<>>
             /\ after.path = IF s.kind = "path" THEN <<s>> ELSE before.path
    <3>1. LastPath(more, after.path)
      BY <2>1, <2>4, LastPathAppend
    <3>2. Sound(after, RunAll(more).menu, RunAll(more).done)
      BY <1>3, <2>4 DEF whole
    <3>3. ~after.refused
      BY <3>2 DEF Sound
    <3> HIDE DEF more
    <3> QED BY <1>1, <2>4, <3>1, <3>2, <3>3 DEF SplitSoFar, after, more
  <2> QED BY <2>2, <2>3, <2>4
<1> QED BY <1>4, <1>5

(* splitRestoreScript, for a script of any length and any limit: unless it *)
(* refuses the script for a reason, the chunks, each run from the root     *)
(* menu, do one after the other what the script does in one piece, none is *)
(* longer than the limit, and there are none only if there is no statement.*)
THEOREM SplitScript ==
  ASSUME NEW lines \in Seq(ScriptLines)
  PROVE  LET split == splitRestoreScript(lines)
             whole == Executed(restoreStatements(lines))
         IN /\ whole \in Effects
            /\ split.chunks \in Seq(Seq(Statements))
            /\ split.refused => HasCause(restoreStatements(lines))
            /\ ~split.refused =>
                 /\ Runs(split.chunks) = whole
                 /\ \A i \in DOMAIN split.chunks : Bytes(split.chunks[i]) <= MaxBytes
                 /\ split.chunks = <<>> => restoreStatements(lines) = <<>>
<1> DEFINE statements == restoreStatements(lines)
           filled == Filling(statements)
           split == Flush(filled)
           P == {seq \in Seq(Statements) : SplitSoFar(seq)}
<1>1. statements \in Seq(Statements)
  BY RestoreStatements
<1>2. Seq(Statements) \subseteq P
  <2>1. <<>> \in P
    BY SplitStart
  <2>2. \A seq \in Seq(Statements), s \in Statements : seq \in P => Append(seq, s) \in P
    BY SplitFurther, AppendProperties
  <2> HIDE DEF P
  <2> QED BY <2>1, <2>2, SequenceInduction
<1>3. SplitSoFar(statements)
  BY <1>1, <1>2
<1>4. splitRestoreScript(lines) = split
  BY DEF splitRestoreScript, Filling, Unsplit
<1>5. Executed(statements) = RunAll(statements).done /\ Executed(statements) \in Effects
  BY <1>1, ExecutedRunAll, RunFacts
<1> HIDE DEF statements
<1>6. /\ filled \in SplitStates
      /\ filled.refused => HasCause(statements)
      /\ ~filled.refused =>
           /\ Sound(filled, RunAll(statements).menu, RunAll(statements).done)
           /\ statements # <<>> => filled.current # <<>>
  BY <1>3 DEF SplitSoFar
<1> HIDE DEF filled
<1>7. split \in SplitStates /\ split.current = <<>> /\ split.refused = filled.refused
  BY <1>6, FlushType
<1>8. split.chunks \in Seq(Seq(Statements))
  BY <1>7 DEF SplitStates
<1>9. ASSUME ~split.refused
      PROVE  /\ Runs(split.chunks) = Executed(statements)
             /\ \A i \in DOMAIN split.chunks : Bytes(split.chunks[i]) <= MaxBytes
             /\ split.chunks = <<>> => statements = <<>>
  <2>1. Sound(split, RunAll(statements).menu, RunAll(statements).done)
    BY <1>6, <1>7, <1>9, FlushSound
  <2>2. Runs(split.chunks) \o RunAll(split.current).done = Executed(statements)
    BY <1>5, <2>1 DEF Sound
  <2>3. Runs(split.chunks) \in Effects
    <3>1. <<>> \in Seq(Statements)
      OBVIOUS
    <3> QED BY <1>8, <3>1, RunFacts
  <2>4. Runs(split.chunks) = Executed(statements)
    BY <1>7, <2>2, <2>3, RunFacts, ConcatEmptySeq DEF Effects
  <2>5. statements # <<>> => split.chunks # <<>>
    <3>1. HAVE statements # <<>>
    <3>2. filled.current # <<>> /\ filled.current \in Seq(Statements)
          /\ filled.chunks \in Seq(Seq(Statements))
      BY <1>6, <1>7, <1>9, <3>1 DEF SplitStates
    <3>3. split.chunks = Append(filled.chunks, filled.current)
      BY <1>6, <3>2, FlushType
    <3>4. Append(filled.chunks, filled.current) # <<>>
      BY <3>2, AppendProperties
    <3> QED BY <3>3, <3>4
  <2> QED BY <2>1, <2>4, <2>5 DEF Sound
<1> HIDE DEF split
<1> QED BY <1>4, <1>5, <1>6, <1>7, <1>8, <1>9 DEF statements

--------------------------------------------------------------------------------
(* The call. *)
LEMMA EffectsConcat ==
  ASSUME NEW a \in Effects, NEW b \in Effects, NEW c \in Effects
  PROVE  (a \o b) \o c = a \o (b \o c)
<1> DEFINE E == Menus \X Seq(ScriptLines)
<1>1. a \in Seq(E) /\ b \in Seq(E) /\ c \in Seq(E)
  BY DEF Effects
<1> HIDE DEF E
<1> QED BY <1>1, ConcatAssociative

LEMMA RunsHead ==
  ASSUME NEW parts \in Seq(Seq(Statements)), parts # <<>>
  PROVE  /\ Head(parts) = parts[1] /\ 1 \in DOMAIN parts
         /\ Head(parts) \in Seq(Statements) /\ Tail(parts) \in Seq(Seq(Statements))
         /\ Executed(Head(parts)) \in Effects /\ Runs(Tail(parts)) \in Effects
         /\ Runs(parts) = Executed(Head(parts)) \o Runs(Tail(parts))
         /\ \A i \in DOMAIN Tail(parts) : i + 1 \in DOMAIN parts /\ Tail(parts)[i] = parts[i + 1]
<1> DEFINE T == Seq(Statements)
           P == {ps \in Seq(T) :
                   ps # <<>> => Runs(ps) = Executed(Head(ps)) \o Runs(Tail(ps))}
<1>1. /\ Runs(<<>>) = <<>>
      /\ \A part \in T : Executed(part) \in Effects
      /\ \A ps \in Seq(T), part \in T :
           Runs(ps) \in Effects /\ Runs(Append(ps, part)) = Runs(ps) \o Executed(part)
  BY RunFacts, ExecutedRunAll
<1>2. <<>> \in T /\ <<>> \in P
  OBVIOUS
<1>3. ASSUME NEW ps \in Seq(T), NEW part \in T, ps \in P
      PROVE  Append(ps, part) \in P
  <2>1. /\ Append(ps, part) \in Seq(T)
        /\ Head(Append(ps, part)) = IF ps = <<>> THEN part ELSE Head(ps)
        /\ Tail(Append(ps, part)) = IF ps = <<>> THEN <<>> ELSE Append(Tail(ps), part)
    <3> HIDE DEF T
    <3> QED BY AppendProperties, HeadTailAppend
  <2>2. CASE ps = <<>>
    <3>1. <<>> \o Executed(part) = Executed(part) \o <<>>
      BY <1>1, ConcatEmptySeq DEF Effects
    <3> HIDE DEF T
    <3> QED BY <1>1, <2>1, <2>2, <3>1
  <2>3. CASE ps # <<>>
    <3>1. Head(ps) \in T /\ Tail(ps) \in Seq(T)
      <4> HIDE DEF T
      <4> QED BY <2>3, HeadTailProperties
    <3>2. /\ Executed(Head(ps)) \in Effects /\ Executed(part) \in Effects
          /\ Runs(Tail(ps)) \in Effects
          /\ Runs(Append(Tail(ps), part)) = Runs(Tail(ps)) \o Executed(part)
          /\ Runs(Append(ps, part)) = Runs(ps) \o Executed(part)
      BY <1>1, <3>1
    <3>3. Runs(ps) = Executed(Head(ps)) \o Runs(Tail(ps))
      BY <1>3, <2>3
    <3>4. (Executed(Head(ps)) \o Runs(Tail(ps))) \o Executed(part)
          = Executed(Head(ps)) \o (Runs(Tail(ps)) \o Executed(part))
      BY <3>2, EffectsConcat
    <3>5. Runs(Append(ps, part)) = Executed(Head(ps)) \o Runs(Append(Tail(ps), part))
      BY <3>2, <3>3, <3>4
    <3>6. Head(Append(ps, part)) = Head(ps) /\ Tail(Append(ps, part)) = Append(Tail(ps), part)
      BY <2>1, <2>3
    <3> QED BY <2>1, <3>5, <3>6
  <2> QED BY <2>2, <2>3
<1>4. Seq(T) \subseteq P
  <2> HIDE DEF P, T
  <2> QED BY <1>2, <1>3, SequenceInduction
<1>5. /\ Head(parts) \in T /\ Tail(parts) \in Seq(T) /\ Len(Tail(parts)) = Len(parts) - 1
      /\ \A i \in 1 .. Len(Tail(parts)) : Tail(parts)[i] = parts[i + 1]
  <2>1. parts \in Seq(T)
    OBVIOUS
  <2> HIDE DEF T
  <2> QED BY <2>1, HeadTailProperties
<1>6. /\ DOMAIN parts = 1 .. Len(parts) /\ DOMAIN Tail(parts) = 1 .. Len(Tail(parts))
      /\ Len(parts) \in Nat \ {0} /\ Head(parts) = parts[1]
  BY <1>5, EmptySeq, LenProperties
<1>7. \A i \in 1 .. (Len(parts) - 1) : i + 1 \in 1 .. Len(parts)
  BY <1>6
<1>8. 1 \in DOMAIN parts
  BY <1>6
<1>9. Runs(parts) = Executed(Head(parts)) \o Runs(Tail(parts))
  BY <1>4
<1>10. Executed(Head(parts)) \in Effects /\ Runs(Tail(parts)) \in Effects
  BY <1>1, <1>2, <1>5
<1> QED BY <1>5, <1>6, <1>7, <1>8, <1>9, <1>10

(* What is run first is a prefix, also when it stops half-way. *)
(* Effects can be cut anywhere. *)
LEMMA EffectsCut ==
  ASSUME NEW b \in Effects, NEW n \in 0 .. Len(b)
  PROVE  /\ SubSeq(b, 1, n) \in Effects /\ SubSeq(b, n + 1, Len(b)) \in Effects
         /\ SubSeq(b, 1, n) \o SubSeq(b, n + 1, Len(b)) = b
<1> DEFINE T == Menus \X Seq(ScriptLines)
           s == SubSeq(b, 1, n)
           t == SubSeq(b, n + 1, Len(b))
           m == Len(b)
<1>0. b \in Seq(T)
  BY DEF Effects
<1>1. m \in Nat /\ n \in Nat /\ n <= m
  BY <1>0, LenProperties
<1>2. /\ \A i \in 1 .. n : b[i] \in T
      /\ \A i \in n + 1 .. m : b[i] \in T
  <2>1. \A i \in 1 .. m : b[i] \in T
    <3> HIDE DEF T
    <3> QED BY <1>0, ElementOfSeq
  <2> HIDE DEF m
  <2> QED BY <1>1, <2>1
<1>3. s \in Seq(T) /\ t \in Seq(T)
  <2>1. 1 \in Int /\ n \in Int /\ n + 1 \in Int /\ m \in Int
    BY <1>1
  <2> HIDE DEF T
  <2> QED BY <1>2, <2>1, SubSeqProperties
<1>4. s \o t = b
  <2>1. 1 \in 1 .. m + 1 /\ n \in 1 - 1 .. m /\ m \in n .. m
    BY <1>1
  <2>2. s \o t = SubSeq(b, 1, m)
    <3> HIDE DEF T
    <3> QED BY <1>0, <2>1, ConcatAdjacentSubSeq
  <2> HIDE DEF T
  <2> QED BY <1>0, <2>2, SubSeqFull
<1> QED BY <1>3, <1>4 DEF Effects

LEMMA PrefixFacts ==
  ASSUME NEW a \in Effects, NEW b \in Effects
  PROVE  /\ a \o b \in Effects
         /\ IsPrefix(a, a) /\ IsPrefix(<<>>, a) /\ IsPrefix(a, a \o b)
         /\ \A n \in 0 .. Len(b) : a \o SubSeq(b, 1, n) \in Effects /\ IsPrefix(a \o SubSeq(b, 1, n), a \o b)
<1> DEFINE T == Menus \X Seq(ScriptLines)
<1>1. \A s \in Seq(T), t \in Seq(T) : IsPrefix(s, s \o t) /\ s \o t \in Seq(T)
  <2> HIDE DEF T
  <2> TAKE s \in Seq(T), t \in Seq(T)
  <2>1. /\ s \o t \in Seq(T) /\ Len(s) \in Nat /\ Len(t) \in Nat
        /\ Len(s \o t) = Len(s) + Len(t)
    BY ConcatProperties, LenProperties
  <2>2. Len(s) <= Len(s) + Len(t)
    BY <2>1
  <2>3. SubSeq(s, 1, Len(s)) = SubSeq(s \o t, 1, Len(s))
    <3>1. CASE Len(s) = 0
      BY <3>1, SubSeqEmpty
    <3>2. CASE Len(s) # 0
      <4>1. 1 \in 1 .. Len(s) /\ Len(s) \in 1 .. Len(s)
        BY <2>1, <3>2
      <4>2. SubSeq(s \o t, 1, Len(s)) = SubSeq(s, 1, Len(s))
        BY <4>1, SubSeqOfConcat1
      <4> QED BY <4>2
    <3> QED BY <3>1, <3>2
  <2> QED BY <2>1, <2>2, <2>3 DEF IsPrefix
<1>2. a \in Seq(T) /\ b \in Seq(T) /\ <<>> \in Seq(T)
  BY DEF Effects
<1>3. a \o <<>> = a /\ <<>> \o a = a
  <2> HIDE DEF T
  <2> QED BY <1>2, ConcatEmptySeq
<1>4. IsPrefix(a, a \o <<>>) /\ IsPrefix(<<>>, <<>> \o a)
  BY <1>1, <1>2
<1>5. ASSUME NEW n \in 0 .. Len(b)
      PROVE  a \o SubSeq(b, 1, n) \in Seq(T) /\ IsPrefix(a \o SubSeq(b, 1, n), a \o b)
  <2> DEFINE s == SubSeq(b, 1, n)
             t == SubSeq(b, n + 1, Len(b))
  <2>1. s \in Effects /\ t \in Effects /\ s \o t = b
    BY EffectsCut
  <2> HIDE DEF s, t
  <2>2. s \in Seq(T) /\ t \in Seq(T)
    BY <2>1 DEF Effects
  <2> HIDE DEF T
  <2>3. (a \o s) \o t = a \o b
    BY <2>1, EffectsConcat
  <2>4. a \o s \in Seq(T)
    BY <1>1, <1>2, <2>2
  <2>5. IsPrefix(a \o s, a \o b)
    BY <1>1, <2>2, <2>3, <2>4
  <2> QED BY <2>4, <2>5 DEF s
<1>6. Effects = Seq(T)
  BY DEF Effects
<1> HIDE DEF T
<1>7. IsPrefix(a, a) /\ IsPrefix(<<>>, a) /\ IsPrefix(a, a \o b) /\ a \o b \in Seq(T)
  BY <1>1, <1>2, <1>3, <1>4
<1> QED BY <1>5, <1>6, <1>7

(* A prefix is what something can be added to. *)
LEMMA PrefixRest ==
  ASSUME NEW a \in Effects, NEW whole \in Effects, IsPrefix(a, whole)
  PROVE  \E rest \in Effects : whole = a \o rest
<1> DEFINE T == Menus \X Seq(ScriptLines)
           n == Len(a)
<1>1. a \in Seq(T) /\ whole \in Seq(T)
  BY DEF Effects
<1>2. n \in 0 .. Len(whole) /\ SubSeq(a, 1, n) = SubSeq(whole, 1, n)
  <2>1. n \in Nat /\ Len(whole) \in Nat
    BY <1>1, LenProperties
  <2> QED BY <2>1 DEF IsPrefix
<1>3. SubSeq(a, 1, n) = a
  <2> HIDE DEF T
  <2> QED BY <1>1, SubSeqFull
<1> HIDE DEF n
<1>4. /\ SubSeq(whole, n + 1, Len(whole)) \in Effects
      /\ SubSeq(whole, 1, n) \o SubSeq(whole, n + 1, Len(whole)) = whole
  BY <1>2, EffectsCut
<1> QED BY <1>2, <1>3, <1>4

LEMMA PrefixLonger ==
  ASSUME NEW a \in Effects, NEW b \in Effects, IsPrefix(a, b), a # b
  PROVE  Len(a) < Len(b)
<1>1. PICK rest \in Effects : b = a \o rest
  BY PrefixRest
<1> DEFINE T == Menus \X Seq(ScriptLines)
<1>2. a \in Seq(T) /\ rest \in Seq(T)
  BY DEF Effects
<1> HIDE DEF T
<1>3. rest # <<>>
  BY <1>1, <1>2, ConcatEmptySeq
<1>4. Len(b) = Len(a) + Len(rest) /\ Len(a) \in Nat /\ Len(rest) \in Nat /\ Len(rest) # 0
  BY <1>1, <1>2, <1>3, ConcatProperties, LenProperties, EmptySeq
<1> QED BY <1>4

(* A run that stops somewhere in b, or is over. *)
LEMMA PartFacts ==
  ASSUME NEW a \in Effects, NEW b \in Effects, NEW c \in Effects,
         NEW whole, whole = a \o (b \o c), NEW n \in 0 .. Len(b)
  PROVE  LET before == a \o SubSeq(b, 1, n)
             after == SubSeq(b, n + 1, Len(b))
         IN /\ before \in Effects /\ after \in Effects /\ whole \in Effects
            /\ IsPrefix(a, before) /\ IsPrefix(before, whole)
            /\ before \o after = a \o b /\ IsPrefix(before \o after, whole)
<1> DEFINE s == SubSeq(b, 1, n)
           t == SubSeq(b, n + 1, Len(b))
<1>1. s \in Effects /\ t \in Effects /\ s \o t = b
  BY EffectsCut
<1> HIDE DEF s, t
<1>2. /\ a \o s \in Effects /\ a \o b \in Effects /\ b \o c \in Effects
      /\ t \o c \in Effects
  BY <1>1, PrefixFacts
<1>3. (a \o s) \o t = a \o b
  BY <1>1, EffectsConcat
<1>4. whole = (a \o b) \o c
  BY EffectsConcat
<1>5. whole = (a \o s) \o (t \o c)
  <2> DEFINE x == a \o s
  <2>1. x \in Effects
    BY <1>2
  <2> HIDE DEF x
  <2>2. (x \o t) \o c = x \o (t \o c)
    BY <1>1, <2>1, EffectsConcat
  <2> QED BY <1>3, <1>4, <2>2 DEF x
<1>6. /\ IsPrefix(a, a \o s) /\ IsPrefix(a \o s, whole) /\ IsPrefix(a \o b, whole)
      /\ whole \in Effects
  <2>1. IsPrefix(a, a \o s)
    BY <1>1, PrefixFacts
  <2>2. IsPrefix(a \o s, (a \o s) \o (t \o c))
    BY <1>2, PrefixFacts
  <2>3. IsPrefix(a \o b, (a \o b) \o c) /\ (a \o b) \o c \in Effects
    BY <1>2, PrefixFacts
  <2> QED BY <1>4, <1>5, <2>1, <2>2, <2>3
<1> QED BY <1>1, <1>2, <1>3, <1>6 DEF s, t

LEMMA ImportInitInv == ImportInit => FilesTracked
<1> SUFFICES ASSUME ImportInit PROVE FilesTracked
  OBVIOUS
<1>1. files = [name \in Names |-> files[name]]
  BY DEF ImportInit
<1> QED BY <1>1 DEF ImportInit, FilesTracked

(* A file is written, or removed: the others stay. *)
LEMMA FileChanges ==
  ASSUME FilesTracked, NEW n \in Names, NEW v, files' = [files EXCEPT ![n] = v]
  PROVE  /\ files' = [name \in Names |-> files'[name]]
         /\ Present' \subseteq Present \cup {n}
         /\ v = Absent => Present' = Present \ {n}
<1>1. files = [name \in Names |-> files[name]]
  BY DEF FilesTracked
<1>2. /\ files' = [name \in Names |-> files'[name]] /\ files'[n] = v
      /\ \A name \in Names \ {n} : files'[name] = files[name]
  BY <1>1
<1> QED BY <1>2 DEF Present

LEMMA ImportNextInv ==
  ASSUME FilesTracked, [ImportNext]_importVars
  PROVE  FilesTracked'
<1>f. files = [name \in Names |-> files[name]]
  BY DEF FilesTracked
<1>u. UNCHANGED files => Present' = Present /\ files' = [name \in Names |-> files'[name]]
  <2> HAVE UNCHANGED files
  <2>1. Present' = Present
    BY DEF Present
  <2> QED BY <2>1, <1>f
<1>1. CASE RefuseBlank
  BY <1>1, <1>u DEF RefuseBlank, End, FilesTracked
<1>2. CASE RemoveLeftovers
  <2>1. /\ files' = [name \in Names |-> IF name \in Range(restoreFileNames) THEN Absent ELSE files[name]]
        /\ at = "leftovers" /\ at' = "split" /\ result' = result
    BY <1>2 DEF RemoveLeftovers, Goto
  <2>2. Range(restoreFileNames) = Names
    <3>1. /\ DOMAIN restoreFileNames = 1 .. 2
          /\ restoreFileNames[1] = "restore" /\ restoreFileNames[2] = "restore.txt"
      BY DEF restoreFileNames
    <3>2. 1 \in 1 .. 2 /\ 2 \in 1 .. 2 /\ \A i \in 1 .. 2 : i = 1 \/ i = 2
      OBVIOUS
    <3> QED BY <3>1, <3>2 DEF Range, Names
  <2>3. Present' = {} /\ files' = [name \in Names |-> files'[name]]
    BY <2>1, <2>2 DEF Present
  <2> QED BY <2>1, <2>3 DEF FilesTracked
<1>3. CASE Split
  <2>1. /\ at = "split" /\ files' = files
        /\ (at' = "done" /\ result' = "refused") \/ (at' = "create" /\ result' = result)
    BY <1>3 DEF Split, End, Goto
  <2> QED BY <2>1, <1>u DEF FilesTracked
<1>4. CASE Create
  <2>1. PICK name \in Names, next \in {"write", "lookup"} :
          /\ at = "create" /\ files' = [files EXCEPT ![name] = Listing]
          /\ fileName' = IF next = "write" THEN name ELSE fileName
          /\ at' = next /\ result' = result
    BY <1>4 DEF Create, Goto
  <2>2. Present = {} /\ result # "ok"
    BY <2>1 DEF FilesTracked
  <2>3. files' = [n \in Names |-> files'[n]] /\ Present' \subseteq {name}
    BY <2>1, <2>2, FileChanges
  <2>4. Present' = {name}
    <3>1. files'[name] = Listing
      BY <2>1, <1>f
    <3> QED BY <2>3, <3>1, ImportAssumption DEF Present, Listing
  <2> QED BY <2>1, <2>2, <2>3, <2>4 DEF FilesTracked
<1>5. CASE lookupRestoreFile
  <2>1. /\ at = "lookup" /\ Present # {} /\ files' = files
        /\ fileName' = IF "restore" \in Present THEN "restore" ELSE "restore.txt"
        /\ at' = "write" /\ result' = result
    BY <1>5 DEF lookupRestoreFile, Goto
  <2>2. result # "ok"
    BY <2>1 DEF FilesTracked
  <2>3. fileName' \in Names /\ Present \subseteq {fileName'}
    BY <2>1 DEF FilesTracked, Names
  <2> QED BY <2>1, <2>2, <2>3, <1>u DEF FilesTracked
<1>6. CASE WriteChunk
  <2>1. /\ at = "write" /\ files' = [files EXCEPT ![fileName] = Head(chunks)]
        /\ at' = "import" /\ result' = result /\ fileName' = fileName
    BY <1>6 DEF WriteChunk, Goto
  <2>2. fileName \in Names /\ Present \subseteq {fileName} /\ result # "ok"
    BY <2>1 DEF FilesTracked
  <2>3. files' = [name \in Names |-> files'[name]] /\ Present' \subseteq {fileName}
    BY <2>1, <2>2, FileChanges
  <2> QED BY <2>1, <2>2, <2>3 DEF FilesTracked
<1>7. CASE RunImport \/ ImportFails
  <2>1. /\ at = "import" /\ at' \in {"write", "remove"}
        /\ result' = result /\ fileName' = fileName /\ files' = files
    BY <1>7 DEF RunImport, ImportFails, Goto
  <2> QED BY <2>1, <1>u DEF FilesTracked
<1>8. CASE WriteFails
  <2>1. /\ at = "write" /\ files' \in {files, [files EXCEPT ![fileName] = Head(chunks)]}
        /\ at' = "remove" /\ result' = result /\ fileName' = fileName
    BY <1>8 DEF WriteFails, Goto
  <2>2. fileName \in Names /\ Present \subseteq {fileName} /\ result # "ok"
    BY <2>1 DEF FilesTracked
  <2>3. files' = [name \in Names |-> files'[name]] /\ Present' \subseteq {fileName}
    BY <2>1, <2>2, FileChanges, <1>u
  <2> QED BY <2>1, <2>2, <2>3 DEF FilesTracked
<1>9. CASE RunOn
  <2>1. UNCHANGED <<files, fileName, at, result>>
    BY <1>9 DEF RunOn
  <2> QED BY <2>1, <1>u DEF FilesTracked
<1>10. CASE removeFileByName
  <2>1. at = "remove" /\ files' = [files EXCEPT ![fileName] = Absent] /\ at' = "done"
    BY <1>10 DEF removeFileByName, End
  <2>2. fileName \in Names /\ Present \subseteq {fileName}
    BY <2>1 DEF FilesTracked
  <2>3. files' = [name \in Names |-> files'[name]] /\ Present' = {}
    BY <2>1, <2>2, FileChanges
  <2> QED BY <2>1, <2>3 DEF FilesTracked
<1>11. CASE Lost
  <2>1. /\ at # "done" /\ at' = "done" /\ result' = "failed"
        /\ files' = files \/ \E n \in Names, v \in {Absent, Listing} : files' = [files EXCEPT ![n] = v]
    <3>1. at = "remove" => fileName \in Names
      BY DEF FilesTracked
    <3> QED BY <3>1, <1>11 DEF Lost, End, Names
  <2>2. files' = [name \in Names |-> files'[name]]
    BY <2>1, <1>u, FileChanges
  <2> QED BY <2>1, <2>2 DEF FilesTracked
<1>12. CASE UNCHANGED importVars
  <2>1. UNCHANGED <<files, fileName, at, result>>
    BY <1>12 DEF importVars
  <2> QED BY <2>1, <1>u DEF FilesTracked
<1> QED BY <1>1, <1>2, <1>3, <1>4, <1>5, <1>6, <1>7, <1>8, <1>9, <1>10, <1>11, <1>12
       DEF ImportNext

--------------------------------------------------------------------------------
(* What is in the chunks still to come, and what has been run. *)
ChunksTyped ==
  /\ chunks \in Seq(Seq(Statements))
  /\ executed \in Effects /\ running \in Effects

ImportIndInv == ImportInv /\ ChunksTyped

LEMMA ScriptTyped ==
  ASSUME NEW s \in Scripts
  PROVE  /\ s \in Seq(ScriptLines)
         /\ restoreStatements(s) \in Seq(Statements)
         /\ Blank(s) => restoreStatements(s) = <<>>
         /\ Executed(restoreStatements(s)) \in Effects
<1>1. s \in Seq(Lines) /\ Len(s) \in Nat /\ DOMAIN s = 1 .. Len(s)
  BY ImportAssumption, LenProperties
<1>2. \A i \in 1 .. Len(s) : s[i] \in Lines /\ (s[i].kind # "command" => s[i].marks = <<>>)
  BY <1>1, ImportAssumption, ElementOfSeq
<1>3. \A i \in 1 .. Len(s) : s[i] \in ScriptLines
  BY <1>2 DEF ScriptLines
<1>4. s \in Seq(ScriptLines)
  <2>1. SubSeq(s, 1, Len(s)) \in Seq(ScriptLines)
    BY <1>1, <1>3, SubSeqProperties
  <2> QED BY <1>1, <2>1, SubSeqFull
<1> QED BY <1>4, RestoreStatements, SplitScript

(* Only these steps change what is on the device. *)
LEMMA DeviceSteps ==
  ASSUME ImportIndInv, ImportNext
  PROVE  /\ script' = script
         /\ \/ files' = files
            \/ \E n \in Names, v \in {Absent, Listing} : files' = [files EXCEPT ![n] = v]
            \/ \A n \in Names : files'[n] \in {files[n], Absent}
            \/ /\ at = "write" /\ files' = [files EXCEPT ![fileName] = Head(chunks)]
               /\ fileName \in Names
         /\ \/ executed' = executed /\ running' = running
            \/ RunImport \/ ImportFails \/ RunOn
<1>0. at \in {"write", "import", "remove"} => fileName \in Names
  BY DEF ImportIndInv, ImportInv, FilesTracked
<1>1. CASE RefuseBlank \/ Split \/ lookupRestoreFile
  BY <1>1 DEF RefuseBlank, Split, lookupRestoreFile
<1>2. CASE RemoveLeftovers
  <2>1. \A n \in Names : files'[n] \in {files[n], Absent}
    BY <1>2 DEF RemoveLeftovers
  <2> QED BY <1>2, <2>1 DEF RemoveLeftovers
<1>3. CASE Create
  BY <1>3 DEF Create
<1>4. CASE WriteChunk
  BY <1>0, <1>4 DEF WriteChunk
<1>5. CASE RunImport \/ ImportFails \/ RunOn
  BY <1>5 DEF RunImport, ImportFails, RunOn
<1>6. CASE removeFileByName
  BY <1>0, <1>6 DEF removeFileByName
<1>7. CASE WriteFails
  BY <1>0, <1>7 DEF WriteFails
<1>8. CASE Lost
  <2>1. files' = files \/ \E n \in Names, v \in {Absent, Listing} : files' = [files EXCEPT ![n] = v]
    BY <1>0, <1>8 DEF Lost, Names
  <2> QED BY <1>8, <2>1 DEF Lost
<1> QED BY <1>1, <1>2, <1>3, <1>4, <1>5, <1>6, <1>7, <1>8 DEF ImportNext

(* A run of /import does part of what is left of the script, and may leave *)
(* running the rest of its chunk.                                          *)
LEMMA ImportRuns ==
  ASSUME ImportIndInv, RunImport \/ ImportFails
  PROVE  /\ at = "import" /\ result = "none" /\ result' = result /\ running = <<>>
         /\ executed' \in Effects /\ running' \in Effects
         /\ IsPrefix(executed, executed') /\ IsPrefix(executed', Whole)
         /\ RunImport => running' = <<>> /\ executed' \o Runs(chunks') = Whole
         /\ running' # <<>> => IsPrefix(executed' \o running', Whole)
<1> DEFINE a == executed
           b == Executed(Head(chunks))
           c == Runs(Tail(chunks))
<1>1. /\ at = "import" /\ files[fileName] = Head(chunks) /\ chunks # <<>>
      /\ a \o Runs(chunks) = Whole /\ result' = result /\ result = "none" /\ running = <<>>
      /\ chunks \in Seq(Seq(Statements)) /\ a \in Effects
  BY DEF RunImport, ImportFails, Goto, ImportIndInv, ImportInv, ChunksFollow, ChunksTyped
<1>2. /\ b \in Effects /\ c \in Effects
      /\ Whole = a \o (b \o c)
  BY <1>1, RunsHead
<1>3. /\ \/ RunImport /\ executed' = a \o b /\ running' = <<>> /\ chunks' = Tail(chunks)
         \/ /\ ~RunImport
            /\ \E n \in 0 .. Len(b) :
                 /\ executed' = a \o SubSeq(b, 1, n)
                 /\ running' = <<>> \/ running' = SubSeq(b, n + 1, Len(b))
  <2>1. CASE RunImport
    BY <1>1, <2>1 DEF RunImport
  <2>2. CASE ~RunImport
    BY <1>1, <2>2 DEF ImportFails, RunPartly
  <2> QED BY <2>1, <2>2
<1>4. CASE RunImport
  <2>1. executed' = a \o b /\ running' = <<>> /\ Runs(chunks') = c
    BY <1>3, <1>4
  <2> HIDE DEF a, b, c
  <2>2. a \o b \in Effects /\ IsPrefix(a, a \o b) /\ <<>> \in Effects
    <3>1. <<>> \in Effects
      BY DEF Effects
    <3> QED BY <1>1, <1>2, <3>1, PrefixFacts
  <2>3. (a \o b) \o c = a \o (b \o c)
    BY <1>1, <1>2, EffectsConcat
  <2>4. IsPrefix(a \o b, (a \o b) \o c)
    BY <1>2, <2>2, PrefixFacts
  <2> QED BY <1>1, <1>2, <2>1, <2>2, <2>3, <2>4 DEF a
<1>5. CASE ~RunImport
  <2>1. PICK n \in 0 .. Len(b) :
          /\ executed' = a \o SubSeq(b, 1, n)
          /\ running' = <<>> \/ running' = SubSeq(b, n + 1, Len(b))
    BY <1>3, <1>5
  <2> HIDE DEF a, b, c
  <2>2. <<>> \in Effects
    BY DEF Effects
  <2>3. LET before == a \o SubSeq(b, 1, n)
            after == SubSeq(b, n + 1, Len(b))
        IN /\ before \in Effects /\ after \in Effects
           /\ IsPrefix(a, before) /\ IsPrefix(before, Whole)
           /\ IsPrefix(before \o after, Whole)
    BY <1>1, <1>2, PartFacts
  <2> QED BY <1>1, <1>5, <2>1, <2>2, <2>3 DEF a
<1> QED BY <1>4, <1>5

(* Only a call that has failed, or is about to, leaves something running,  *)
(* and it is what comes next in the script.                                *)
LEMMA RunsOn ==
  ASSUME ImportIndInv, RunOn
  PROVE  /\ (at = "remove" /\ importErr) \/ result = "failed"
         /\ UNCHANGED <<at, importErr, result, chunks, files, fileName>>
         /\ executed' \in Effects /\ running' \in Effects
         /\ IsPrefix(executed, executed') /\ IsPrefix(executed', Whole)
         /\ Len(executed) < Len(executed')
         /\ IsPrefix(executed' \o running', Whole)
<1> DEFINE a == executed
           b == running
           T == Menus \X Seq(ScriptLines)
<1>1. /\ b # <<>> /\ a' = Append(a, Head(b)) /\ b' = Tail(b)
      /\ UNCHANGED <<script, at, importErr, result, chunks, files, fileName>>
      /\ a \in Effects /\ b \in Effects /\ script \in Scripts
      /\ (at = "remove" /\ importErr) \/ result = "failed"
      /\ IsPrefix(a \o b, Whole)
  BY DEF RunOn, ImportIndInv, ImportInv, ChunksFollow, ChunksTyped
<1>2. Whole \in Effects /\ a \o b \in Effects
  BY <1>1, ScriptTyped, PrefixFacts DEF Whole, CommandsOf
<1>3. PICK c \in Effects : Whole = (a \o b) \o c
  BY <1>1, <1>2, PrefixRest
<1>4. 1 \in 0 .. Len(b) /\ 1 \in 1 .. Len(b) /\ 1 \in Int
  <2>1. Len(b) \in Nat /\ Len(b) # 0
    BY <1>1, LenProperties, EmptySeq DEF Effects
  <2> QED BY <2>1
<1>5. Head(b) = b[1] /\ b[1] \in T /\ b \in Seq(T) /\ a \in Seq(T)
  BY <1>1, <1>4, ElementOfSeq DEF Effects
<1>6. a' = a \o SubSeq(b, 1, 1) /\ b' = SubSeq(b, 1 + 1, Len(b)) /\ Len(a') = Len(a) + 1
  <2> HIDE DEF T
  <2>1. Append(a, b[1]) = a \o <<b[1]>> /\ Len(Append(a, b[1])) = Len(a) + 1
    BY <1>5, AppendIsConcat, AppendProperties
  <2>2. SubSeq(b, 1, 1) = <<b[1]>>
    <3>1. SubSeq(b, 1, 1) = <<b[1]>> \o SubSeq(b, 1 + 1, 1)
      BY <1>4, <1>5, SubSeqRecursiveFirst
    <3>2. SubSeq(b, 1 + 1, 1) = <<>>
      BY <1>5, SubSeqEmpty
    <3>3. <<b[1]>> \in Seq(T)
      BY <1>5
    <3>4. <<b[1]>> \o <<>> = <<b[1]>>
      BY <3>3, ConcatEmptySeq
    <3> QED BY <3>1, <3>2, <3>4
  <2>3. Tail(b) = SubSeq(b, 2, Len(b))
    BY <1>1, <1>5, TailIsSubSeq
  <2> QED BY <1>1, <1>5, <2>1, <2>2, <2>3
<1>7. Whole = a \o (b \o c)
  BY <1>1, <1>3, EffectsConcat
<1>8. Len(a) < Len(a')
  <2>1. Len(a) \in Nat
    BY <1>5, LenProperties
  <2> QED BY <1>6, <2>1
<1> HIDE DEF T
<1>9. /\ a' \in Effects /\ b' \in Effects /\ IsPrefix(a, a') /\ IsPrefix(a', Whole)
      /\ IsPrefix(a' \o b', Whole)
  <2> DEFINE x == a
             y == b
             z == c
             before == x \o SubSeq(y, 1, 1)
             after == SubSeq(y, 1 + 1, Len(y))
  <2>1. /\ x \in Effects /\ y \in Effects /\ z \in Effects /\ Whole = x \o (y \o z)
        /\ 1 \in 0 .. Len(y)
    BY <1>1, <1>4, <1>7
  <2>2. a' = before /\ b' = after
    BY <1>6
  <2>3. /\ before \in Effects /\ after \in Effects
        /\ IsPrefix(x, before) /\ IsPrefix(before, Whole)
        /\ IsPrefix(before \o after, Whole)
    <3> HIDE DEF x, y, z
    <3> QED BY <2>1, PartFacts
  <2> QED BY <2>2, <2>3
<1> QED BY <1>1, <1>8, <1>9

LEMMA WithinLimitNext ==
  ASSUME ImportIndInv, ImportNext
  PROVE  WithinLimit'
<1>1. /\ files = [name \in Names |-> files[name]]
      /\ \A name \in Names : files[name] # Absent => Bytes(files[name]) <= MaxBytes
  BY DEF ImportIndInv, ImportInv, FilesTracked, WithinLimit
<1>2. Bytes(Listing) <= MaxBytes
  <2>1. Bytes(Listing) = 0 /\ MaxBytes \in Nat
    BY StatementBytes, ImportAssumption DEF Listing
  <2> QED BY <2>1
<1>3. at = "write" => Bytes(Head(chunks)) <= MaxBytes
  <2>1. HAVE at = "write"
  <2>2. /\ chunks # <<>> /\ chunks \in Seq(Seq(Statements))
        /\ \A i \in DOMAIN chunks : Bytes(chunks[i]) <= MaxBytes
    BY <2>1 DEF ImportIndInv, ImportInv, ChunksFollow, ChunksTyped
  <2> QED BY <2>2, RunsHead
<1>4. \A n \in Names : \A v : files' = [files EXCEPT ![n] = v] =>
        \A name \in Names : files'[name] = IF name = n THEN v ELSE files[name]
  BY <1>1
<1>5. \A name \in Names : files'[name] # Absent => Bytes(files'[name]) <= MaxBytes
  BY <1>1, <1>2, <1>3, <1>4, DeviceSteps
<1> QED BY <1>5 DEF WithinLimit

LEMMA ChunksNext ==
  ASSUME ImportIndInv, ImportNext
  PROVE  ChunksFollow' /\ ChunksTyped'
<1>1. /\ script \in Scripts /\ script' = script /\ Whole' = Whole
      /\ chunks \in Seq(Seq(Statements)) /\ executed \in Effects /\ running \in Effects
      /\ at # "done" => result = "none"
      /\ at \in {"leftovers", "split", "create", "lookup"} => executed = <<>>
      /\ at \in {"create", "lookup", "write", "import"} =>
           /\ chunks # <<>> /\ executed \o Runs(chunks) = Whole
           /\ \A i \in DOMAIN chunks : Bytes(chunks[i]) <= MaxBytes
      /\ at = "import" => files[fileName] = Head(chunks)
      /\ at = "remove" /\ ~importErr => executed = Whole
      /\ running # <<>> =>
           /\ (at = "remove" /\ importErr) \/ result = "failed"
           /\ IsPrefix(executed \o running, Whole)
  BY DeviceSteps DEF ImportIndInv, ImportInv, ChunksFollow, ChunksTyped, Whole, CommandsOf
<1>r. at \notin {"remove", "done"} => running = <<>>
  BY <1>1
<1>2. CASE RefuseBlank \/ Lost \/ removeFileByName
  <2>1. /\ at' = "done" /\ chunks' = chunks /\ executed' = executed /\ running' = running
        /\ \/ at = "leftovers"
           \/ at # "done" /\ result' = "failed"
           \/ at = "remove" /\ (importErr => result' = "failed")
    BY <1>2 DEF RefuseBlank, Lost, removeFileByName, End
  <2> QED BY <1>1, <1>r, <2>1 DEF ChunksFollow, ChunksTyped
<1>3. CASE RemoveLeftovers
  <2>1. /\ at = "leftovers" /\ at' = "split" /\ chunks' = chunks /\ executed' = executed
        /\ result' = result /\ running' = running
    BY <1>3 DEF RemoveLeftovers, Goto
  <2> QED BY <1>1, <1>r, <2>1 DEF ChunksFollow, ChunksTyped
<1>4. CASE Split
  <2> DEFINE split == splitRestoreScript(script)
  <2>1. /\ split.chunks \in Seq(Seq(Statements)) /\ Whole \in Effects
        /\ ~split.refused =>
             /\ Runs(split.chunks) = Whole
             /\ \A i \in DOMAIN split.chunks : Bytes(split.chunks[i]) <= MaxBytes
    BY <1>1, ScriptTyped, SplitScript DEF Whole, CommandsOf
  <2>2. /\ at = "split" /\ executed' = executed /\ running' = running
        /\ \/ at' = "done" /\ chunks' = chunks
           \/ /\ ~split.refused /\ split.chunks # <<>> /\ at' = "create"
              /\ chunks' = split.chunks /\ result' = result
    BY <1>4 DEF Split, End, Goto
  <2> HIDE DEF split
  <2>3. executed = <<>> /\ <<>> \o Whole = Whole
    BY <1>1, <2>1, <2>2, ConcatEmptySeq DEF Effects
  <2>4. CASE at' = "done" /\ chunks' = chunks
    BY <1>1, <1>r, <2>2, <2>4 DEF ChunksFollow, ChunksTyped
  <2>5. CASE at' = "create" /\ ~split.refused /\ split.chunks # <<>>
             /\ chunks' = split.chunks /\ result' = result
    <3>1. executed' \o Runs(chunks') = Whole
      BY <2>1, <2>2, <2>3, <2>5
    <3> QED BY <1>1, <1>r, <2>1, <2>2, <2>3, <2>5, <3>1 DEF ChunksFollow, ChunksTyped
  <2> QED BY <2>2, <2>4, <2>5
<1>5. CASE Create \/ lookupRestoreFile
  <2>1. /\ at \in {"create", "lookup"} /\ at' \in {"lookup", "write"}
        /\ chunks' = chunks /\ executed' = executed /\ result' = result /\ running' = running
    BY <1>5 DEF Create, lookupRestoreFile, Goto
  <2> QED BY <1>1, <1>r, <2>1 DEF ChunksFollow, ChunksTyped
<1>6. CASE WriteChunk
  <2>1. /\ at = "write" /\ at' = "import" /\ chunks' = chunks /\ executed' = executed
        /\ result' = result /\ fileName' = fileName /\ running' = running
        /\ files' = [files EXCEPT ![fileName] = Head(chunks)]
    BY <1>6 DEF WriteChunk, Goto
  <2>2. fileName \in Names /\ files = [name \in Names |-> files[name]]
    BY <2>1 DEF ImportIndInv, ImportInv, FilesTracked
  <2>3. files'[fileName'] = Head(chunks')
    BY <2>1, <2>2
  <2> QED BY <1>1, <1>r, <2>1, <2>3 DEF ChunksFollow, ChunksTyped
<1>7. CASE RunImport
  <2>1. /\ at = "import" /\ chunks' = Tail(chunks) /\ result' = result
        /\ at' = IF chunks' = <<>> THEN "remove" ELSE "write"
    BY <1>7 DEF RunImport, Goto
  <2>2. /\ Tail(chunks) \in Seq(Seq(Statements))
        /\ \A i \in DOMAIN Tail(chunks) : i + 1 \in DOMAIN chunks /\ Tail(chunks)[i] = chunks[i + 1]
    BY <1>1, <2>1, RunsHead
  <2>3. executed' \in Effects /\ executed' \o Runs(chunks') = Whole /\ running' = <<>>
    BY <1>7, ImportRuns
  <2>4. chunks' = <<>> => executed' = Whole
    <3>1. executed' \o <<>> = executed'
      BY <2>3, ConcatEmptySeq DEF Effects
    <3>2. Runs(<<>>) = <<>>
      BY RunFacts
    <3> QED BY <2>3, <3>1, <3>2
  <2>5. \A i \in DOMAIN chunks' : Bytes(chunks'[i]) <= MaxBytes
    BY <1>1, <2>1, <2>2
  <2>6. running' \in Effects
    BY <2>3 DEF Effects
  <2> QED BY <1>1, <2>1, <2>2, <2>3, <2>4, <2>5, <2>6 DEF ChunksFollow, ChunksTyped
<1>8. CASE ImportFails
  <2>1. /\ at = "import" /\ at' = "remove" /\ importErr' = TRUE /\ chunks' = chunks
        /\ result' = result
    BY <1>8 DEF ImportFails, Goto
  <2>2. /\ executed' \in Effects /\ running' \in Effects
        /\ running' # <<>> => IsPrefix(executed' \o running', Whole)
    BY <1>8, ImportRuns
  <2> QED BY <1>1, <2>1, <2>2 DEF ChunksFollow, ChunksTyped
<1>9. CASE WriteFails
  <2>1. /\ at = "write" /\ at' = "remove" /\ importErr' = TRUE /\ chunks' = chunks
        /\ result' = result /\ executed' = executed /\ running' = running
    BY <1>9 DEF WriteFails, Goto
  <2> QED BY <1>1, <1>r, <2>1 DEF ChunksFollow, ChunksTyped
<1>10. CASE RunOn
  <2>1. /\ (at = "remove" /\ importErr) \/ result = "failed"
        /\ UNCHANGED <<at, importErr, result, chunks, files, fileName>>
        /\ executed' \in Effects /\ running' \in Effects
        /\ IsPrefix(executed' \o running', Whole)
    BY <1>10, RunsOn
  <2> QED BY <1>1, <2>1 DEF ChunksFollow, ChunksTyped
<1> QED BY <1>2, <1>3, <1>4, <1>5, <1>6, <1>7, <1>8, <1>9, <1>10 DEF ImportNext

LEMMA FaithfulNext ==
  ASSUME ImportIndInv, ImportNext
  PROVE  ImportFaithful'
<1>1. /\ ImportFaithful <=> (IsPrefix(executed, Whole) /\ (result = "ok" => executed = Whole))
      /\ ImportFaithful' <=> (IsPrefix(executed', Whole') /\ (result' = "ok" => executed' = Whole'))
  BY DEF ImportFaithful, Whole, CommandsOf
<1>2. Whole' = Whole /\ (at # "done" => result = "none")
  BY DeviceSteps DEF ImportIndInv, ImportInv, ChunksFollow, Whole, CommandsOf
<1>3. CASE RunImport \/ ImportFails
  <2>1. IsPrefix(executed', Whole) /\ result' = "none"
    BY <1>3, ImportRuns
  <2> QED BY <1>1, <1>2, <2>1
<1>4. CASE RunOn
  <2>1. IsPrefix(executed', Whole) /\ result' # "ok"
    BY <1>2, <1>4, RunsOn
  <2> QED BY <1>1, <1>2, <2>1
<1>5. CASE ~(RunImport \/ ImportFails \/ RunOn)
  <2>1. executed' = executed /\ IsPrefix(executed, Whole)
    BY <1>1, <1>5, DeviceSteps DEF ImportIndInv, ImportInv
  <2>2. result' = "ok" => executed = Whole
    <3>1. CASE removeFileByName
      BY <3>1 DEF removeFileByName, End, ImportIndInv, ImportInv, ChunksFollow
    <3>2. CASE ~removeFileByName
      <4>1. result' = "ok" => result = "ok"
        BY <1>5, <3>2 DEF ImportNext, RefuseBlank, RemoveLeftovers, Split, Create,
          lookupRestoreFile, WriteChunk, WriteFails, Lost, End, Goto
      <4> QED BY <4>1, <1>1 DEF ImportIndInv, ImportInv
    <3> QED BY <3>1, <3>2
  <2> QED BY <1>1, <1>2, <2>1, <2>2
<1> QED BY <1>3, <1>4, <1>5

LEMMA RefusedNext ==
  ASSUME ImportIndInv, ImportNext
  PROVE  RefusedForCause'
<1> DEFINE Cause(s) == \/ Unterminated(s) \/ restoreStatements(s) = <<>>
                       \/ HasCause(restoreStatements(s))
<1>1. /\ RefusedForCause <=> (result = "refused" => executed = <<>> /\ Cause(script))
      /\ RefusedForCause' <=> (result' = "refused" => executed' = <<>> /\ Cause(script'))
  BY DEF RefusedForCause, HasCause
<1>2. /\ script \in Scripts /\ script' = script
      /\ at \in {"leftovers", "split"} => executed = <<>>
      /\ at # "done" => result = "none"
      /\ result = "refused" => executed = <<>> /\ Cause(script)
  BY <1>1, DeviceSteps DEF ImportIndInv, ImportInv, ChunksFollow
<1>3. CASE RefuseBlank
  <2>1. at = "leftovers" /\ Blank(script) /\ executed' = executed
    BY <1>3 DEF RefuseBlank
  <2>2. Cause(script)
    BY <1>2, <2>1, ScriptTyped
  <2> HIDE DEF Cause
  <2> QED BY <1>1, <1>2, <2>1, <2>2
<1>4. CASE Split
  <2>1. /\ at = "split" /\ executed' = executed
        /\ result' = "refused" =>
             \/ Unterminated(script) \/ splitRestoreScript(script).refused
             \/ splitRestoreScript(script).chunks = <<>>
    BY <1>2, <1>4 DEF Split, End, Goto
  <2>2. result' = "refused" => Cause(script)
    <3>1. /\ splitRestoreScript(script).refused => HasCause(restoreStatements(script))
          /\ ~splitRestoreScript(script).refused /\ splitRestoreScript(script).chunks = <<>> =>
               restoreStatements(script) = <<>>
      BY <1>2, ScriptTyped, SplitScript
    <3> QED BY <2>1, <3>1
  <2> HIDE DEF Cause
  <2> QED BY <1>1, <1>2, <2>1, <2>2
<1>5. CASE ~RefuseBlank /\ ~Split /\ ~RunOn
  <2>1. result' # "refused"
    <3>1. /\ at # "done"
          /\ result' \in {result, "ok", "failed"}
      BY <1>5 DEF ImportNext, RemoveLeftovers, Create, lookupRestoreFile, WriteChunk, RunImport,
        ImportFails, WriteFails, removeFileByName, Lost, End, Goto
    <3> QED BY <1>2, <3>1
  <2> HIDE DEF Cause
  <2> QED BY <1>1, <2>1
<1>6. CASE RunOn
  <2>1. result' # "refused"
    BY <1>2, <1>6, RunsOn
  <2> HIDE DEF Cause
  <2> QED BY <1>1, <2>1
<1> QED BY <1>3, <1>4, <1>5, <1>6

LEMMA ImportIndInit == ImportInit => ImportIndInv
<1> SUFFICES ASSUME ImportInit PROVE ImportIndInv
  OBVIOUS
<1>1. /\ script \in Scripts /\ at = "leftovers" /\ executed = <<>> /\ chunks = <<>>
      /\ running = <<>> /\ result = "none" /\ \A name \in Names : files[name] \in {Absent, Listing}
  BY DEF ImportInit
<1>2. FilesTracked
  BY ImportInitInv
<1>3. ChunksFollow
  BY <1>1 DEF ChunksFollow
<1>4. ChunksTyped
  BY <1>1 DEF ChunksTyped, Effects
<1>5. ImportFaithful
  <2>1. Whole \in Effects
    BY <1>1, ScriptTyped DEF Whole, CommandsOf
  <2>2. IsPrefix(<<>>, Whole)
    BY <2>1, PrefixFacts
  <2> QED BY <1>1, <2>2 DEF ImportFaithful, Whole, CommandsOf
<1>6. WithinLimit
  <2>1. Bytes(Listing) = 0 /\ MaxBytes \in Nat
    BY StatementBytes, ImportAssumption DEF Listing
  <2>2. Bytes(Listing) <= MaxBytes
    BY <2>1
  <2> QED BY <1>1, <2>2 DEF WithinLimit
<1>7. RefusedForCause
  BY <1>1 DEF RefusedForCause
<1> QED BY <1>2, <1>3, <1>4, <1>5, <1>6, <1>7 DEF ImportIndInv, ImportInv

LEMMA ImportIndNext ==
  ASSUME ImportIndInv, [ImportNext]_importVars
  PROVE  ImportIndInv'
<1>1. FilesTracked'
  BY ImportNextInv DEF ImportIndInv, ImportInv
<1>2. CASE ImportNext
  BY <1>1, <1>2, WithinLimitNext, ChunksNext, FaithfulNext, RefusedNext
     DEF ImportIndInv, ImportInv
<1>3. CASE UNCHANGED importVars
  <2>1. UNCHANGED <<script, files, fileName, at, chunks, importErr, executed, running, result>>
    BY <1>3 DEF importVars
  <2>2. ChunksFollow' /\ ChunksTyped'
    BY <2>1 DEF ImportIndInv, ImportInv, ChunksFollow, ChunksTyped, Whole, CommandsOf
  <2>3. ImportFaithful'
    BY <2>1 DEF ImportIndInv, ImportInv, ImportFaithful
  <2>4. WithinLimit'
    BY <2>1 DEF ImportIndInv, ImportInv, WithinLimit
  <2>5. RefusedForCause'
    BY <2>1 DEF ImportIndInv, ImportInv, RefusedForCause
  <2> QED BY <1>1, <2>2, <2>3, <2>4, <2>5 DEF ImportIndInv, ImportInv
<1> QED BY <1>2, <1>3

(* What an Import has run and what its remaining chunks would run is,      *)
(* together, the script, and each chunk fits: the invariant that the next  *)
(* three theorems rest on.                                                 *)
THEOREM ImportInvariant == ImportSpec => []ImportInv
<1>1. ImportIndInv => ImportInv
  BY DEF ImportIndInv
<1> QED BY <1>1, ImportIndInit, ImportIndNext, PTL DEF ImportSpec

(* An Import that breaks off has run a prefix of the script's commands,    *)
(* each in the menu that the whole script gives it, and one that reports   *)
(* success has run them all, however the script was split into chunks.     *)
THEOREM ImportIsFaithful == ImportSpec => []ImportFaithful
<1>1. ImportInv => ImportFaithful
  BY DEF ImportInv
<1> QED BY <1>1, ImportInvariant, PTL

(* No chunk that is written to the restore file is longer than the device  *)
(* accepts, with the path lines that splitRestoreScript repeats.           *)
THEOREM ChunksWithinLimit == ImportSpec => []WithinLimit
<1>1. ImportInv => WithinLimit
  BY DEF ImportInv
<1> QED BY <1>1, ImportInvariant, PTL

(* An Import refuses only a script that has no statement, one that does    *)
(* not end, or one that is too long with the path line it depends on, and  *)
(* then it has run nothing.                                                *)
THEOREM RefusalHasCause == ImportSpec => []RefusedForCause
<1>1. ImportInv => RefusedForCause
  BY DEF ImportInv
<1> QED BY <1>1, ImportInvariant, PTL

(* A step of the call runs some of the script, ends, or does nothing that  *)
(* its caller can see.                                                     *)
LEMMA ScriptRunStep ==
  ASSUME ImportIndInv, [ImportNext]_importVars
  PROVE  [Promise!ScriptRunNext]_(Promise!runVars)
<1>1. /\ at # "done" => result = "none"
      /\ at \in {"leftovers", "split"} => executed = <<>>
      /\ at = "remove" /\ ~importErr => executed = Whole
      /\ executed \in Effects
  BY DEF ImportIndInv, ImportInv, ChunksFollow, ChunksTyped
<1>2. ASSUME ImportNext PROVE UNCHANGED script
  BY <1>2, DeviceSteps
<1>3. CASE RunImport \/ ImportFails \/ RunOn
  <2>1. /\ executed' \in Effects /\ IsPrefix(executed, executed') /\ IsPrefix(executed', Whole)
        /\ result' = result /\ result \in {"none", "failed"}
    <3>1. CASE RunOn
      BY <1>1, <3>1, RunsOn
    <3>2. CASE RunImport \/ ImportFails
      BY <3>2, ImportRuns
    <3> QED BY <1>3, <3>1, <3>2
  <2>2. UNCHANGED script
    BY <1>2, <1>3 DEF ImportNext
  <2>3. CASE executed' = executed
    BY <2>1, <2>2, <2>3 DEF Promise!runVars
  <2>4. CASE executed' # executed
    <3>1. Len(executed) < Len(executed')
      BY <1>1, <2>1, <2>4, PrefixLonger
    <3>2. Promise!IsPrefix(executed, executed') /\ Promise!IsPrefix(executed', CommandsOf(script))
      BY <2>1 DEF Promise!IsPrefix, IsPrefix, Whole
    <3> QED BY <2>1, <2>2, <3>1, <3>2 DEF Promise!ScriptRunNext, Promise!RunSome
  <2> QED BY <2>3, <2>4
<1>4. CASE RefuseBlank \/ Split \/ removeFileByName \/ Lost
  <2>1. UNCHANGED <<script, executed>>
    BY <1>2, <1>4 DEF ImportNext, RefuseBlank, Split, removeFileByName, Lost
  <2>2. \/ result' = result
        \/ /\ result = "none" /\ result' \in {"ok", "refused", "failed"}
           /\ result' = "ok" => executed = Whole
           /\ result' = "refused" => executed = <<>>
    BY <1>1, <1>4 DEF RefuseBlank, Split, removeFileByName, Lost, End, Goto
  <2>3. CASE result' = result
    BY <2>1, <2>3 DEF Promise!runVars
  <2>4. CASE result' # result
    <3>1. result' \in {"ok", "refused", "failed"} /\ Promise!EndRun(result')
      BY <2>1, <2>2, <2>4 DEF Promise!EndRun, Whole
    <3> QED BY <3>1 DEF Promise!ScriptRunNext
  <2> QED BY <2>3, <2>4
<1>5. CASE RemoveLeftovers \/ Create \/ lookupRestoreFile \/ WriteChunk \/ WriteFails
  BY <1>5 DEF RemoveLeftovers, Create, lookupRestoreFile, WriteChunk, WriteFails, Goto,
    Promise!runVars
<1>6. CASE UNCHANGED importVars
  BY <1>6 DEF importVars, Promise!runVars
<1> QED BY <1>3, <1>4, <1>5, <1>6 DEF ImportNext

(* Import, with its chunks, its restore file, its limit and the /import    *)
(* that goes on after it has timed out, does what a run of the script in   *)
(* one piece may do: its commands in order, each once, all of them before  *)
(* success is reported and none in a call that refuses the script.         *)
THEOREM ImportRefinement == ImportSpec => ImplementsScriptRun
<1>1. ImportInit => Promise!ScriptRunInit
  BY DEF ImportInit, Promise!ScriptRunInit
<1> QED BY <1>1, ImportIndInit, ImportIndNext, ScriptRunStep, PTL
        DEF ImportSpec, ImplementsScriptRun, Promise!ScriptRunSpec

(* A call that reports success has removed its restore file and the        *)
(* leftovers of earlier calls, under either name and whether or not the    *)
(* device told which one it had chosen.                                    *)
THEOREM NoFileLeft == ImportSpec => []NothingLeft
<1>1. FilesTracked => NothingLeft
  BY DEF FilesTracked, NothingLeft
<1> QED BY <1>1, ImportInitInv, ImportNextInv, PTL DEF ImportSpec
================================================================================
