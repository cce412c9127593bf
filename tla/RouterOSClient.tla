----------------------------- MODULE RouterOSClient ----------------------------
(***************************************************************************)
(* The calls of apiClient (internal/routeros/client.go) that put one       *)
(* managed resource on a device and take it off again, command by command: *)
(* a call prints a table, removes rows by their id and adds new ones, and  *)
(* every command may fail, take effect although its answer is lost, or     *)
(* time out and be carried out by the device only later.  Between two      *)
(* commands administrators, other connections and late commands change the *)
(* same table.                                                             *)
(*                                                                         *)
(* The resource is the one with comment Own.  The other rows of the table  *)
(* belong to a managed neighbour whose name begins with the same           *)
(* characters, or are unmanaged but have a comment that begins with the    *)
(* characters of the managed prefix.  A comment is a sequence of tokens in *)
(* which "/" is one of its own, since what separates the owners of rows is *)
(* where the code expects a slash.                                         *)
(***************************************************************************)
EXTENDS Naturals, Sequences, FiniteSets, SequencesExt

CONSTANTS Tables,      \* tables to consider
          Values,      \* contents the spec of the resource may ask for
          Placed,      \* the values with placeBefore (firewall rules)
          MaxForeign,  \* bound: rows that are not the resource's
          Nothing,     \* no row
          Gone         \* a row that does not exist any more

ASSUME ClientAssumption ==
  /\ Tables \subseteq {"dns", "route", "nat", "filter"}
  /\ Placed \subseteq Values
  /\ Values \cap {"deleting", "gone"} = {}
  /\ MaxForeign \in Nat
  /\ Nothing \notin Nat /\ Gone \notin Nat /\ Nothing # Gone

VARIABLES table,    \* the table of the resource
          rows,     \* its rows, in the order of the device
          want,     \* the value of the spec, "deleting" or "gone"
          call,     \* the call in progress
          late      \* timed-out commands the device may still carry out

vars == <<table, rows, want, call, late>>

--------------------------------------------------------------------------------
(* Comments and rows. *)

managedCommentPrefix == <<"operator">>

ManagedComment(name) == managedCommentPrefix \o <<"/">> \o name

Own == ManagedComment(<<"web">>)
Neighbour == ManagedComment(<<"web", "-2">>)
Lookalike == <<"operator", "-old">>
Unmanaged == {Lookalike}

\* Mutant: the prefix is compared without the slash.
bareCommentPrefixMatches(value, prefix) == IsPrefix(prefix, value)

managedCommentPrefixMatches(value, prefix) ==
  value = prefix \/ IsPrefix(Append(prefix, "/"), value)

isManagedComment(value) == managedCommentPrefixMatches(value, managedCommentPrefix)

Chains == CASE table = "nat" -> {"dstnat", "srcnat"}
            [] table = "filter" -> {"forward", "input"}
            [] OTHER -> {"none"}

(* A port forward is a rule in each NAT chain, with the chain appended to  *)
(* the comment; any other resource is one row.                             *)
Part(comment, chain) == IF table = "nat" THEN comment \o <<"/", chain>> ELSE comment

OwnChains == IF table = "filter" THEN {"forward"} ELSE Chains

Row(comment, chain, value) == [comment |-> comment, chain |-> chain, value |-> value]

Wanted(value, chain) == Row(Part(Own, chain), chain, value)

IsOwn(row) == \E chain \in Chains : row.comment = Part(Own, chain)

OwnIds == {i \in DOMAIN rows : IsOwn(rows[i])}
ForeignIds == DOMAIN rows \ OwnIds
UnmanagedIds == {i \in DOMAIN rows : rows[i].comment \in Unmanaged}

(* Calls and commands name rows by their ids, which stay with the rows and *)
(* are not used again.  Here an id is the current place of its row, or     *)
(* Gone: what is held somewhere follows the rows when others come and go.  *)

(* Commands that change the table. *)
RemoveCommand(id) == [op |-> "remove", id |-> id]
AddCommand(row, before) == [op |-> "add", row |-> row, id |-> before]

(* The device refuses a command that names a row that is gone. *)
Accepted(command) == command.id # Gone

(* A row comes to, or goes from, place i. *)
Insertion(i, row) == [new |-> InsertAt(rows, i, row),
                      id |-> [j \in DOMAIN rows |-> IF j < i THEN j ELSE j + 1]]
Removal(i) == [new |-> RemoveAt(rows, i),
               id |-> [j \in DOMAIN rows |-> IF j < i THEN j
                                             ELSE IF j = i THEN Gone ELSE j - 1]]

Effect(command) ==
  CASE command.op = "remove" -> Removal(command.id)
    [] command.op = "add" /\ command.id = Nothing -> Insertion(Len(rows) + 1, command.row)
    [] command.op = "add" /\ command.id # Nothing -> Insertion(command.id, command.row)

(* The table changes while a call goes on as c and the commands in l are   *)
(* on their way.                                                           *)
Change(effect, c, l) ==
  LET follow(id) == IF id \in Nat THEN effect.id[id] ELSE id
  IN /\ rows' = effect.new
     /\ call' = [c EXCEPT !.todo = [i \in DOMAIN @ |-> follow(@[i])],
                           !.first = [chain \in Chains |-> follow(@[chain])]]
     /\ late' = {[command EXCEPT !.id = follow(command.id)] : command \in l}

--------------------------------------------------------------------------------
Idle == [op |-> "none", value |-> Nothing, at |-> "ok", todo |-> <<>>,
         first |-> [chain \in Chains |-> Nothing], calm |-> TRUE]

Tokens == {"operator", "-old", "/", "web", "-2", "dstnat", "srcnat"}

Rows == [comment: Seq(Tokens), chain: Chains, value: Values \cup {Nothing}]

Ids == DOMAIN rows \cup {Gone}

Calls ==
  [op: {"none", "ensure", "delete", "wipe"}, value: Values \cup {Nothing},
   at: {"ok", "failed", "look", "order", "list", "remove", "first", "add", "add srcnat"},
   todo: Seq(Ids), first: [Chains -> Ids \cup {Nothing}], calm: BOOLEAN]

TableCommands ==
  [op: {"remove"}, id: Ids] \cup [op: {"add"}, row: Rows, id: Ids \cup {Nothing}]

TypeOK ==
  /\ table \in Tables
  /\ rows \in Seq(Rows)
  /\ want \in Values \cup {"deleting", "gone"}
  /\ call \in Calls
  /\ late \subseteq TableCommands
  /\ \A c, d \in late : c = d

ClientInit ==
  /\ table \in Tables
  /\ rows = <<>>
  /\ want = "gone"
  /\ call = Idle
  /\ late = {}

--------------------------------------------------------------------------------
(* What a call reads: the rows with some property, by their ids. *)

(* The ids in the order of the table, as a print lists them. *)
InOrder(ids) ==
  [n \in 1 .. Cardinality(ids) |-> CHOOSE i \in ids : Cardinality({j \in ids : j <= i}) = n]

(* The rows the code takes for the resource's: those with its comment, or  *)
(* with its comment as a prefix.                                           *)
managedEntries ==
  {i \in DOMAIN rows :
     IF table = "nat" THEN managedCommentPrefixMatches(rows[i].comment, Own)
                      ELSE rows[i].comment = Own}

(* The rows deleteMatching takes for a call. *)
deletedEntries ==
  {i \in DOMAIN rows :
     CASE call.op = "wipe" -> isManagedComment(rows[i].comment)
       [] call.op # "wipe" /\ table \in {"nat", "filter"} ->
            managedCommentPrefixMatches(rows[i].comment, Own)
       [] call.op # "wipe" /\ table \in {"dns", "route"} ->
            rows[i].comment = Own}

\* Mutant: the destination rule is taken for the whole port forward.
firstRuleMatches(value) ==
  \E i \in managedEntries :
    \E chain \in OwnChains \ {"srcnat"} : rows[i] = Wanted(value, chain)

\* Mutant: further rows with the comment are not noticed.
someEntryMatches(value) ==
  \A chain \in OwnChains : \E i \in managedEntries : rows[i] = Wanted(value, chain)

(* Every wanted row is there, and no other one.  A device is taken to      *)
(* print values as they were added; of the srcnat rule the code compares   *)
(* fewer fields than of the others, which Values do not tell apart.        *)
entriesMatch(value) ==
  /\ Cardinality(managedEntries) = Cardinality(OwnChains)
  /\ \A chain \in OwnChains : \E i \in managedEntries : rows[i] = Wanted(value, chain)

\* Mutant: the rules of other resources count as unmanaged.
precedesEverything(id) ==
  /\ id # Gone
  /\ \A i \in 1 .. id - 1 : rows[i].chain # rows[id].chain

firewallRulePrecedesUnmanaged(id) ==
  /\ id # Gone
  /\ \A i \in 1 .. id - 1 :
       rows[i].chain = rows[id].chain => isManagedComment(rows[i].comment)

InChain(chain) == {i \in DOMAIN rows : rows[i].chain = chain}

\* Mutant: the first rule's place in the print, from zero, is taken for its id.
firstIndexByChain ==
  [chain \in Chains |-> IF InChain(chain) = {} THEN Nothing ELSE Min(InChain(chain)) - 1]

firstIDsByChain ==
  [chain \in Chains |-> IF InChain(chain) = {} THEN Nothing ELSE Min(InChain(chain))]

(* A port forward goes first in its chains, a firewall rule if it says so. *)
Ordered(value) == table = "filter" /\ value \in Placed
PlaceBefore(value) == table = "nat" \/ Ordered(value)

--------------------------------------------------------------------------------
(* The calls.  Each step is one command of runRouterOSOperation. *)

Begin(op, value) ==
  /\ call.op = "none"
  /\ call' = [Idle EXCEPT !.op = op, !.value = value,
                          !.at = IF op = "ensure" THEN "look" ELSE "list"]
  /\ UNCHANGED <<table, rows, want, late>>

BeginEnsure == want \in Values /\ Begin("ensure", want)
BeginDelete == want = "deleting" /\ Begin("delete", Nothing)

(* The sweep of a router: DeleteManagedConfiguration, which takes the      *)
(* other tables in turn before and after this one.                         *)
BeginWipe == Begin("wipe", Nothing)

Returned(result) == [Idle EXCEPT !.at = result]

(* A deletion that succeeds lets the resource go. *)
Release ==
  /\ want' = IF call.op = "delete" /\ call'.at = "ok" THEN "gone" ELSE want
  /\ UNCHANGED table

Continue(next) == call' = next /\ Release /\ UNCHANGED <<rows, late>>

ContinueAfter(effect, next) == Change(effect, next, late) /\ Release

(* managedEntries at the start of EnsureDNS, EnsurePortForward,            *)
(* EnsureFirewallRule and ensureRoute.                                     *)
LookUp ==
  /\ call.at = "look"
  /\ Continue(CASE entriesMatch(call.value) /\ Ordered(call.value) ->
                     [call EXCEPT !.at = "order", !.todo = InOrder(managedEntries)]
                [] entriesMatch(call.value) /\ ~Ordered(call.value) -> Returned("ok")
                [] ~entriesMatch(call.value) -> [call EXCEPT !.at = "list"])

CheckOrder ==
  /\ call.at = "order"
  /\ Continue(IF firewallRulePrecedesUnmanaged(Head(call.todo))
                THEN Returned("ok")
                ELSE [call EXCEPT !.at = "list", !.todo = <<>>])

(* What follows when the rows in todo are still to be removed. *)
Removing(todo) ==
  CASE todo # <<>> -> [call EXCEPT !.at = "remove", !.todo = todo]
    [] todo = <<>> /\ call.op # "ensure" -> Returned("ok")
    [] todo = <<>> /\ call.op = "ensure" ->
         [call EXCEPT !.at = IF PlaceBefore(call.value) THEN "first" ELSE "add",
                      !.todo = <<>>]

deleteMatching ==
  /\ call.at = "list"
  /\ Continue(Removing(InOrder(deletedEntries)))

FindFirst ==
  /\ call.at = "first"
  /\ Continue([call EXCEPT !.at = "add", !.first = firstIDsByChain])

(* A port forward adds its dstnat rule before its srcnat rule. *)
Adding == CASE call.at = "add" /\ table = "nat" -> "dstnat"
            [] call.at = "add" /\ table # "nat" -> CHOOSE chain \in OwnChains : TRUE
            [] call.at = "add srcnat" -> "srcnat"

Sending == call.at \in {"remove", "add", "add srcnat"}

(* The command the call is about to send. *)
Pending == IF call.at = "remove"
             THEN RemoveCommand(Head(call.todo))
             ELSE AddCommand(Wanted(call.value, Adding), call.first[Adding])

(* What follows when the command is carried out. *)
Answered ==
  CASE call.at = "remove" -> Removing(Tail(call.todo))
    [] call.at # "remove" /\ Adding = "dstnat" -> [call EXCEPT !.at = "add srcnat"]
    [] call.at # "remove" /\ Adding # "dstnat" -> Returned("ok")

(* The device carries the command out and the call goes on. *)
Send ==
  /\ Sending /\ Accepted(Pending)
  /\ ContinueAfter(Effect(Pending), Answered)

(* It refuses the command: a row it names is gone. *)
Refused ==
  /\ Sending /\ ~Accepted(Pending)
  /\ Continue(Returned("failed"))

ClientStep == LookUp \/ CheckOrder \/ deleteMatching \/ FindFirst \/ Send \/ Refused

(* runRouterOSOperation gives up: the command got lost ... *)
RequestLost ==
  /\ call.op # "none"
  /\ Continue(Returned("failed"))

(* ... or its answer ... *)
AnswerLost ==
  /\ Sending /\ Accepted(Pending)
  /\ ContinueAfter(Effect(Pending), Returned("failed"))

(* ... or both are only delayed. *)
TimesOut ==
  /\ Sending /\ late = {}
  /\ late' = {Pending}
  /\ call' = Returned("failed")
  /\ UNCHANGED <<table, rows, want>>

Fault == RequestLost \/ AnswerLost \/ TimesOut

--------------------------------------------------------------------------------
(* Everyone else.  Bound: one interference per call. *)

Interfere(effect, commands) ==
  /\ call.calm
  /\ Change(effect, [call EXCEPT !.calm = call.op = "none"], commands)
  /\ UNCHANGED <<table, want>>

(* A late command is carried out, ... *)
LateCommand == \E command \in late : Accepted(command) /\ Interfere(Effect(command), {})

(* ... or refused, or never read. *)
LateCommandLost ==
  /\ late # {} /\ late' = {}
  /\ UNCHANGED <<table, rows, want, call>>

(* Administrators and other resources add a row somewhere. *)
ForeignAdd ==
  /\ Cardinality(ForeignIds) < MaxForeign
  /\ \E chain \in Chains, i \in 1 .. Len(rows) + 1 :
       \E comment \in Unmanaged \cup {Part(Neighbour, chain)} :
         Interfere(Insertion(i, Row(comment, chain, Nothing)), late)

(* They, or the sweep of another router, remove one; the resource's own    *)
(* rows are not safe from them either.                                     *)
ForeignRemove == \E i \in DOMAIN rows : Interfere(Removal(i), late)

(* The content of the resource's rows drifts. *)
ForeignEdit ==
  \E i \in DOMAIN rows : \E value \in Values \ {rows[i].value} :
    /\ IsOwn(rows[i])
    /\ Interfere([new |-> [rows EXCEPT ![i].value = value], id |-> [j \in DOMAIN rows |-> j]], late)

(* The user creates, edits and deletes the resource.  A call works with    *)
(* the spec it was given, so it makes no difference to it when, during the *)
(* call, the spec changes: here, after it.                                 *)
UserStep ==
  /\ call.op = "none"
  /\ \/ want \in Values \cup {"gone"} /\ want' \in Values \ {want}
     \/ want \in Values /\ want' = "deleting"
  /\ UNCHANGED <<table, rows, call, late>>

Environment ==
  \/ LateCommand \/ LateCommandLost
  \/ ForeignAdd \/ ForeignRemove \/ ForeignEdit
  \/ UserStep \/ BeginWipe

ClientNext == BeginEnsure \/ BeginDelete \/ ClientStep \/ Fault \/ Environment

ClientSpec == ClientInit /\ [][ClientNext]_vars

(* A call goes on until it returns, and the resource's controller calls    *)
(* again: an error and the drift check both put the key back.              *)
ClientFairness == WF_vars(ClientStep) /\ WF_vars(BeginEnsure \/ BeginDelete)

FairClientSpec == ClientSpec /\ ClientFairness
--------------------------------------------------------------------------------
(* The table holds the resource as it should: each of its rows once, with  *)
(* the wanted content, and a rule with placeBefore ahead of the unmanaged  *)
(* rules of its chain.                                                     *)
Right(value) ==
  /\ Cardinality(OwnIds) = Cardinality(OwnChains)
  /\ \A chain \in OwnChains : \E i \in OwnIds : rows[i] = Wanted(value, chain)
  /\ Ordered(value) =>
       \A i \in UnmanagedIds, j \in OwnIds : rows[i].chain = rows[j].chain => j < i

(* A call that reports success has done its work, whatever earlier calls   *)
(* that failed, timed out or were overtaken left behind: after an Ensure   *)
(* the resource is there exactly once and as wanted, after a deletion none *)
(* of its rows is left, after a sweep no managed row.  (Provided nobody    *)
(* else changed the table during the call.)                                *)
SuccessIsReal ==
  [][call.op # "none" /\ call.calm /\ call'.at = "ok" =>
       CASE call.op = "ensure" -> \E value \in Values : value = call.value /\ Right(value)'
         [] call.op = "delete" -> OwnIds' = {}
         [] call.op = "wipe" -> UnmanagedIds' = DOMAIN rows']_vars

(* The rows in ids are the rows in new ids of the next state, in the same  *)
(* order.                                                                  *)
StillThere(ids, new) ==
  \E f \in [ids -> new] :
    /\ Range(f) = new
    /\ \A i \in ids : rows'[f[i]] = rows[i]
    /\ \A i, j \in ids : i < j => f[i] < f[j]

(* The operator's commands never remove, change or re-order a row that is  *)
(* not managed, and, except for a sweep, a row of another resource.        *)
OthersUntouched ==
  [][ClientStep \/ Fault \/ LateCommand =>
       /\ StillThere(UnmanagedIds, UnmanagedIds')
       /\ call.op \in {"ensure", "delete"} /\ late' = late =>
            StillThere(ForeignIds, ForeignIds')]_vars

(* The drift check is harmless: an Ensure that finds the resource as it    *)
(* should be only reads.  It does not take the resource down to put it up  *)
(* again, so rules that both want to be first do not chase each other.     *)
NoChurn ==
  [][call.at \in {"look", "order"} /\ call.calm /\ Right(call.value) /\ ClientStep =>
       call'.at # "list"]_vars

(* Why the three hold.  A call is where its operation can take it, ... *)
CallShape(c) ==
  /\ c.op = "none" <=> c.at \in {"ok", "failed"}
  /\ c.op = "none" => c.calm
  /\ c.op = "ensure" => c.value \in Values
  /\ c.at \in {"look", "order", "first", "add", "add srcnat"} => c.op = "ensure"
  /\ c.at = "order" => Ordered(c.value)
  /\ c.at = "add srcnat" => table = "nat"
  /\ c.at \in {"remove", "order"} => c.todo # <<>>

(* ... everybody's comments are known, and commands name rows they may     *)
(* remove and add rows of the resource, however late they are, ...         *)
RowComments == Unmanaged \cup {Part(c, chain) : c \in {Own, Neighbour}, chain \in Chains}

RowsKnown == \A i \in DOMAIN rows : rows[i].comment \in RowComments

Removable(op) == IF op = "wipe" THEN DOMAIN rows \ UnmanagedIds ELSE OwnIds

SafeCall(c) ==
  c.at \in {"remove", "order"} => Range(c.todo) \subseteq Removable(c.op) \cup {Gone}

SafeCommand(command) ==
  /\ command.op = "remove" => command.id \in Removable("wipe") \cup {Gone}
  /\ command.op = "add" => IsOwn(command.row)

ClientInv ==
  /\ TypeOK
  /\ CallShape(call)
  /\ RowsKnown
  /\ SafeCall(call)
  /\ \A command \in late : SafeCommand(command)

(* ... and as long as nobody interferes, the call knows what is left of    *)
(* its rows and where its chain begins.                                    *)
CalmCall(c) ==
  c.calm =>
    /\ c.at \in {"remove", "order"} => IsInjective(c.todo) /\ Range(c.todo) = Removable(c.op)
    /\ c.at = "order" => entriesMatch(c.value)
    /\ c.at \in {"first", "add"} => OwnIds = {}
    /\ c.at = "add" /\ PlaceBefore(c.value) => c.first = firstIDsByChain
    /\ c.at = "add srcnat" =>
         \E i \in OwnIds : OwnIds = {i} /\ rows[i] = Wanted(c.value, "dstnat")

CalmWork == CalmCall(call)

Undisturbed == ClientStep \/ BeginEnsure \/ BeginDelete

Settled == CASE want \in Values -> Right(want)
             [] want = "deleting" -> FALSE
             [] want = "gone" -> TRUE

(* Once faults and everyone else pause, the retries repair whatever a call *)
(* that broke off left: one NAT rule without the other, rows twice, rows   *)
(* of an older spec.  Nothing is said of a resource that is gone: an add   *)
(* that timed out may be carried out after the deletion has succeeded, and *)
(* then nobody is left to take the row off.                                *)
Repaired == <>[][Undisturbed]_vars => <>[]Settled
================================================================================
