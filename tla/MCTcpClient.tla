----------------------------- MODULE MCTcpClient -----------------------------
(* Users of TcpClient, in the loop's thread or another one, with or        *)
(* without enableRetry(); but for those whom StopStops disappoints, who    *)
(* have a configuration of their own.                                      *)
EXTENDS TcpClient

Stops == {<<"connect", "stop">>, <<"connect", "stop", "connect", "stop">>}
Others == {<<"connect", "destroy">>, <<"connect", "disconnect", "destroy">>,
           <<"connect", "stop", "connect">>, <<"connect", "stop", "connect", "destroy">>}

Making(calls, inLoop, again) ==
    [calls : calls, inLoop : inLoop, retry : again]

MCUsers == Making(Others, BOOLEAN, BOOLEAN)
           \cup Making(Stops, {TRUE}, BOOLEAN) \cup Making(Stops, {FALSE}, {FALSE})
MCRetryStop == Making({<<"connect", "stop">>}, {FALSE}, {TRUE})
=============================================================================
