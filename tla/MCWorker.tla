------------------------------- MODULE MCWorker -------------------------------
(* The instance of Worker for TLC: a server, a thread of it and a worker; two   *)
(* versions of the code, of which one registers a job twice and a cron of its   *)
(* name, and a queue in both executions.                                        *)
EXTENDS Worker

CONSTANTS server, worker, thread, soft, custom, j, k, h1, h2, a1, a2

AllProcs == {server, worker, thread}
ExecutionOf == [p \in AllProcs |-> IF p = server THEN "main-process"
                                   ELSE IF p = worker THEN "extra-process" ELSE "internal-process"]
HostOf == [p \in {thread} |-> server]
AllQueues == {soft, custom}
PredefinedQueues == {soft}
AllNames == {j, k}
AllHandlers == {h1, h2}
AllArgs == {a1, a2}

SubOf(execution) == [kind |-> "sub", queue |-> custom, execution |-> execution]
WithHandler(kind, name, h) == [kind |-> kind, name |-> name, queue |-> soft, handler |-> h, args |-> None]
Plain == [kind |-> "job", name |-> k, queue |-> custom, handler |-> None, args |-> a1]

Version1 == <<SubOf("extra-process"), WithHandler("job", j, h1), Plain>>
Version2 == <<SubOf("main-process"), WithHandler("job", j, h1), SubOf("extra-process"),
              WithHandler("job", j, h2), WithHandler("cron", k, h2)>>
Versions == {Version1, Version2}
===============================================================================
