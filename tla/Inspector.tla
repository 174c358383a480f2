------------------------------ MODULE Inspector ------------------------------
(***************************************************************************)
(* muduo::net::Inspector: threads register commands, under mutex_; the     *)
(* loop's thread answers requests: "/" lists the registered commands,      *)
(* under mutex_, and "/module/command/args..." calls one, which it looks   *)
(* up without.  A character is a member of Chars or "/", a name a nonempty *)
(* sequence of characters and a command a pair of names.                   *)
(***************************************************************************)
EXTENDS Integers, Sequences, FiniteSetsExt, Functions

CONSTANTS Main,        \* the thread of the constructor
          Others,      \* threads that register commands later
          Registers,   \* the commands each thread adds, one after another
          Sorted,      \* all commands in the order of the maps' keys
          Paths        \* the paths of requests

Threads == {Main} \cup Others
Loop == "loop"
None == "none"
Commands == Range(Sorted)

(* The threads are others than the loop's, and add known commands.         *)
RegistryAssumption ==
    /\ Main \notin Others /\ {Loop, None} \cap Threads = {}
    /\ Registers \in [Threads -> Seq(Commands)]
    /\ Sorted \in Seq(Commands) /\ Paths \subseteq Seq(STRING)

VARIABLES
    commands_, helps_,   \* sets of commands: all are registered with a callback
    mutex_,              \* its holder or None
    todo, apc,           \* of each thread: what it still adds, where add() is
    started,             \* start() has run
    pc, path,            \* of onRequest() in the loop's thread
    start, result,       \* of split(), and the listing's iterator
    resp,                \* the response: its status and its body
    listed, raced        \* history: commands the client has seen listed;
                         \* a lookup has met an insertion

registry == <<commands_, helps_, todo, apc, started>>
vars == <<registry, mutex_, pc, path, start, result, resp, listed, raced>>

NoResponse == [status |-> 0, body |-> <<>>]

Init ==
    /\ commands_ = {} /\ helps_ = {} /\ mutex_ = None /\ started = FALSE
    /\ todo = Registers /\ apc = [t \in Threads |-> "out"]
    /\ pc = "idle" /\ path = <<>> /\ start = 1 /\ result = <<>>
    /\ resp = NoResponse /\ listed = {} /\ raced = FALSE

-----------------------------------------------------------------------------
(* add(module, command, cb, help), by Main in the constructor and by the   *)
(* others once there is an Inspector.                                      *)
Lock(t) ==
    /\ apc[t] = "out" /\ todo[t] # <<>> /\ mutex_ = None
    /\ t # Main => todo[Main] = <<>>
    /\ mutex_' = t /\ apc' = [apc EXCEPT ![t] = "commands"]
    /\ UNCHANGED <<commands_, helps_, todo, started, pc, path, start, result, resp,
                   listed, raced>>

(* The end of the insertion that begins with Lock.                         *)
AddCommand(t) ==
    /\ apc[t] = "commands" /\ apc' = [apc EXCEPT ![t] = "helps"]
    /\ commands_' = commands_ \cup {Head(todo[t])}
    /\ UNCHANGED <<helps_, mutex_, todo, started, pc, path, start, result, resp, listed, raced>>

AddHelp(t) ==
    /\ apc[t] = "helps" /\ apc' = [apc EXCEPT ![t] = "out"]
    /\ helps_' = helps_ \cup {Head(todo[t])} /\ mutex_' = None
    /\ todo' = [todo EXCEPT ![t] = Tail(@)]
    /\ UNCHANGED <<commands_, started, pc, path, start, result, resp, listed, raced>>

Start_Bug ==
    /\ ~started /\ started' = TRUE
    /\ UNCHANGED <<commands_, helps_, todo, apc, mutex_, pc, path, start, result, resp,
                   listed, raced>>
(* runAfter(0, start) is the constructor's last act.                       *)
Start ==
    /\ ~started /\ todo[Main] = <<>> /\ started' = TRUE
    /\ UNCHANGED <<commands_, helps_, todo, apc, mutex_, pc, path, start, result, resp,
                   listed, raced>>

-----------------------------------------------------------------------------
onRequest(p) ==
    /\ pc = "idle" /\ started
    /\ path' = p /\ start' = 1 /\ result' = <<>> /\ resp' = NoResponse
    /\ pc' = IF p = <<"/">> THEN "lock" ELSE "split"
    /\ UNCHANGED <<registry, mutex_, listed, raced>>

ListLock == pc = "lock" /\ mutex_ = None /\ mutex_' = Loop

BeginList ==
    /\ ListLock /\ pc' = "list"
    /\ UNCHANGED <<registry, path, start, result, resp, listed, raced>>

(* The maps are traversed in the order of their keys, `start' is next.     *)
Ahead == {i \in start..Len(Sorted) : Sorted[i] \in helps_}
List ==
    /\ pc = "list" /\ Ahead # {}
    /\ result' = Append(result, Sorted[Min(Ahead)]) /\ start' = Min(Ahead) + 1
    /\ UNCHANGED <<registry, mutex_, pc, path, resp, listed, raced>>

EndList ==
    /\ pc = "list" /\ Ahead = {} /\ pc' = "done"
    /\ mutex_' = IF mutex_ = Loop THEN None ELSE mutex_
    /\ resp' = [status |-> 200, body |-> result]
    /\ listed' = listed \cup Range(result)
    /\ UNCHANGED <<registry, path, start, result, raced>>

(* The next '/' at or behind `start', or 0.                                *)
FindSlash == LET at == {i \in start..Len(path) : path[i] = "/"}
             IN  IF at = {} THEN 0 ELSE Min(at)

Push(i, j) == result' = IF j > i THEN Append(result, SubSeq(path, i, j - 1)) ELSE result

Split ==
    /\ pc = "split" /\ FindSlash # 0
    /\ Push(start, FindSlash) /\ start' = FindSlash + 1
    /\ UNCHANGED <<registry, mutex_, pc, path, resp, listed, raced>>

LastPart_Bug == Push(start, Len(path))
LastPart == Push(start, Len(path) + 1)

EndSplit ==
    /\ pc = "split" /\ FindSlash = 0 /\ LastPart /\ pc' = "find"
    /\ UNCHANGED <<registry, mutex_, path, start, resp, listed, raced>>

(* A lookup in commands_ while a thread inserts finds anything.            *)
Inserting == \E t \in Threads : apc[t] = "commands"

(* Both lookups, and the call of the command found.                        *)
Find(found) ==
    LET named == Len(result) >= 2
    IN  /\ pc = "find" /\ pc' = "done"
        /\ (named /\ ~Inserting) => (found <=> SubSeq(result, 1, 2) \in commands_)
        /\ ~named => ~found
        /\ raced' = (raced \/ (named /\ Inserting))
        /\ resp' = IF found
                   THEN [status |-> 200, body |-> SubSeq(result, 3, Len(result))]
                   ELSE [status |-> 404, body |-> <<>>]
        /\ UNCHANGED <<registry, mutex_, path, start, result, listed>>

Answer ==
    /\ pc = "done" /\ pc' = "idle"
    /\ resp' = NoResponse /\ path' = <<>> /\ start' = 1 /\ result' = <<>>
    /\ UNCHANGED <<registry, mutex_, listed, raced>>

Step == \/ Start \/ BeginList \/ EndList \/ List \/ Split \/ EndSplit \/ Answer
        \/ \E found \in BOOLEAN : Find(found)
        \/ \E t \in Threads : Lock(t) \/ AddCommand(t) \/ AddHelp(t)
Next == Step \/ \E p \in Paths : onRequest(p)

Spec == Init /\ [][Next]_vars /\ WF_vars(Step)

-----------------------------------------------------------------------------
TypeOK ==
    /\ commands_ \subseteq Commands /\ helps_ \subseteq commands_
    /\ mutex_ \in Threads \cup {Loop, None}
    /\ apc \in [Threads -> {"out", "commands", "helps"}]
    /\ \A t \in Threads : mutex_ = t <=> apc[t] # "out"
    /\ pc \in {"idle", "lock", "list", "split", "find", "done"}
    /\ start \in Nat \ {0}

(* The parts of a path: its longest pieces without a '/', in order.        *)
Edge(p, i) == i = 0 \/ i = Len(p) + 1 \/ p[i] = "/"
Pieces(p) == {r \in (1..Len(p)) \X (1..Len(p)) :
                 /\ r[1] <= r[2] /\ Edge(p, r[1] - 1) /\ Edge(p, r[2] + 1)
                 /\ \A i \in r[1]..r[2] : p[i] # "/"}
Before(p, r) == {s \in Pieces(p) : s[1] < r[1]}
Parts(p) ==
    [k \in 1..Cardinality(Pieces(p)) |->
        LET r == CHOOSE r \in Pieces(p) : Cardinality(Before(p, r)) = k - 1
        IN  SubSeq(p, r[1], r[2])]

(* A command is called exactly if the path names it, slashes doubled or    *)
(* missing at either end or not, with the rest of the path as arguments.   *)
CallsNamedCommand ==
    [][LET parts == Parts(path)
       IN  pc = "find" /\ pc' = "done" /\ ~raced' =>
             /\ resp'.status = 200 <=> (Len(parts) >= 2 /\ SubSeq(parts, 1, 2) \in commands_)
             /\ resp'.status = 200 => resp'.body = SubSeq(parts, 3, Len(parts))]_vars

(* What a client was shown by "/" can be called from then on.              *)
ListedIsServed ==
    pc = "done" /\ Len(Parts(path)) >= 2 /\ ~raced =>
        (SubSeq(Parts(path), 1, 2) \in listed => resp.status = 200)

(* The listing is that of one moment, whoever registers in the meantime.   *)
ListingExact == [][pc = "list" /\ pc' = "done" => Range(resp'.body) = helps_]_vars

(* The commands registered by the constructor are never found missing: no  *)
(* request is served before it has finished.                               *)
BuiltinsServed ==
    pc = "done" /\ Len(Parts(path)) >= 2 /\ ~raced =>
        (SubSeq(Parts(path), 1, 2) \in Range(Registers[Main]) => resp.status = 200)

(* Every request is answered and every add() ends.                         *)
RequestAnswered == (pc # "idle") ~> (pc = "idle")
==============================================================================
