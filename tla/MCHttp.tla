------------------------------- MODULE MCHttp -------------------------------
(***************************************************************************)
(* The HTTP server and the Inspector built on it, each by itself: a        *)
(* behaviour is one of the subject's, and the state of the other does not  *)
(* change.                                                                 *)
(***************************************************************************)
EXTENDS Integers, Sequences

CONSTANTS Lines, MaxLines, MaxPerMessage, Main, Others, Registers, Sorted, Paths

VARIABLES served,
          input, state_, request_, conn, parsing, wire, stream, handled, waits,
          commands_, helps_, mutex_, todo, apc, started,
          inspecting, path, start, result, resp, listed, raced

server == <<input, state_, request_, conn, parsing, wire, stream, handled, waits>>
inspector == <<commands_, helps_, mutex_, todo, apc, started,
               inspecting, path, start, result, resp, listed, raced>>
httpVars == <<served, server, inspector>>

Server == INSTANCE HttpServer WITH buf <- input, pc <- parsing
Inspect == INSTANCE Inspector WITH pc <- inspecting

ASSUME InspectorAssumption == Inspect!RegistryAssumption

(* Two requests, both forms of the Connection header, a version unknown to *)
(* the server and the line that ends the headers, with the fields that     *)
(* HttpServer gives a line.                                                *)
MCLine(word, version, field, value) ==
    [word |-> word, version |-> version, field |-> field, value |-> value]
MCLines ==
    {MCLine(w[1], w[2], "none", "none") :
        w \in {<<"GET", "HTTP/1.1">>, <<"HEAD", "HTTP/1.0">>, <<"GET", "HTTP/2.0">>}}
    \cup {MCLine("none", "none", h[1], h[2]) :
        h \in {<<"Host", "a">>, <<"Connection", "close">>,
              <<"Connection", "Keep-Alive">>, <<"none", "none">>}}

(* "m", "c", "d" and "e" are characters, and names.  The paths are all up  *)
(* to four characters and some that name a command registered late.        *)
Command(c) == <<<<"m">>, <<c>>>>
MCRegisters == [main |-> <<Command("d")>>, t1 |-> <<Command("c")>>, t2 |-> <<Command("e")>>]
MCSorted == <<Command("c"), Command("d"), Command("e")>>
MCPaths == UNION {[1..n -> {"/", "m", "d"}] : n \in 0..4}
               \cup {<<"/", "m", "/", "c">>, <<"m", "/", "e", "/", "m">>}

HttpInit == served \in {"HttpServer", "Inspector"} /\ Server!Init /\ Inspect!Init

ServerOnly == served = "HttpServer" /\ UNCHANGED <<served, inspector>>
InspectorOnly == served = "Inspector" /\ UNCHANGED <<served, server>>

HttpNext == \/ ServerOnly /\ Server!Next
            \/ InspectorOnly /\ Inspect!Next

(* The fairness of the modules.                                            *)
HttpSpec == /\ HttpInit /\ [][HttpNext]_httpVars
            /\ WF_httpVars(ServerOnly /\ Server!Step)
            /\ WF_httpVars(InspectorOnly /\ Inspect!Step)

-----------------------------------------------------------------------------
(* HttpServer.cc:59-188: the requests handled are those of the stream, and *)
(* their answers go out in order and keep or close the connection as each  *)
(* request asks; a client that waits is answered.                          *)
FollowsStream ==
    /\ Server!TypeOK /\ Server!FramesTheStream /\ Server!PersistsAsAsked
    /\ Server!AnswersInOrder /\ Server!WaitingClientAnswered

(* Inspector.cc:49-86: what the constructor has registered, and what was   *)
(* listed, is served.                                                      *)
ServesListed == Inspect!TypeOK /\ Inspect!BuiltinsServed /\ Inspect!ListedIsServed

(* Inspector.cc:77-175: only the command that the path names is called,    *)
(* the listing is that of one moment, and both servers get back to their   *)
(* loops.                                                                  *)
AnswersExactly ==
    /\ Inspect!CallsNamedCommand /\ Inspect!ListingExact
    /\ Inspect!RequestAnswered /\ Server!MessageHandled
=============================================================================
