--------------------------- MODULE MCRouterOSClient ---------------------------
(* The calls of one RouterOS connection: those that keep a resource on the *)
(* device, or the import of a script.                                      *)
EXTENDS RouterOSClient, RestoreImport

Line(kind, menu, size, marks) ==
  [kind |-> kind, menu |-> menu, size |-> size, marks |-> marks]

PathLines == {Line("path", menu, 1, <<>>) : menu \in {"/a", "/b"}}
Comments == {Line("comment", "", 1, <<>>)}
Blanks == {Line("blank", "", 1, <<>>)}
Commands(sizes) == {Line("command", "", size, <<>>) : size \in sizes}
Open == {Line("command", "", 1, <<mark>>) : mark \in Marks}

(* Every short script, and longer ones without open lines. *)
ShortScripts ==
  UNION {[1 .. n -> PathLines \cup Comments \cup Blanks \cup Commands({1, 3}) \cup Open] :
           n \in 1 .. 3}
LongScripts == [1 .. 5 -> PathLines \cup Commands({1, 2})]
SampleScripts == ShortScripts \cup LongScripts

DeviceInit ==
  \/ ImportInit /\ ClientInit /\ table = "dns"
  \/ ClientInit /\ at = "done" /\ result = "none" /\ script = <<>>
     /\ files = [name \in Names |-> Absent] /\ fileName = "none" /\ chunks = <<>>
     /\ importErr = FALSE /\ executed = <<>> /\ running = <<>>

DeviceNext ==
  \/ script = <<>> /\ ClientNext /\ UNCHANGED importVars
  \/ ImportNext /\ UNCHANGED vars

DeviceSpec ==
  DeviceInit /\ [][DeviceNext]_<<vars, importVars>> /\ ClientFairness
================================================================================
