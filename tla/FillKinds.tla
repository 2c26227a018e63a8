----------------------------- MODULE FillKinds ------------------------------
(***************************************************************************)
(* The fills and the proxies behind them, as tables: what a fill calls in  *)
(* its constructor, what the program may call on it, the flags it keeps of *)
(* what it hears, the events its proxy forwards, and the events its native *)
(* object emits, in which order.                                           *)
(***************************************************************************)
EXTENDS Naturals, Sequences, FiniteSets

\* A child process and its stdout (client/child_process.ts), a file read or written
\* and a watcher (client/fs.ts), a socket of createConnection, one of new Socket()
\* and a net.Server (client/net.ts).
AllKinds == {"process", "stdout", "reader", "writer", "connection", "socket", "watcher", "server"}

Sockets == {"connection", "socket"}

\* Events that are bound only when asked for: binding data makes the stream flow.  A
\* stdout flows by itself, and its data is bound with the rest.
Delayed(k) == IF k \in {"stdout", "reader"} \union Sockets THEN {"data"} ELSE {}

-----------------------------------------------------------------------------
(* The client's side.                                                      *)

\* Calls the constructor makes on the proxy.  "bind" stands for its calls of
\* bindDelayedEvent, which name no delayed event: the server takes them for nothing.
Constructor(k) ==
    CASE k = "process" -> <<"bind", "getPid">>
      [] k = "server" -> <<"bind", "onConnection">>
      [] OTHER -> <<"bind">>

\* The calls of the program that the models follow.
UserCalls(k) ==
    CASE k = "process" -> {"kill()"}
      [] k \in {"stdout", "reader"} -> {"on data", "pipe()"}
      [] k = "connection" -> {"on data"}
      [] k = "socket" -> {"on data", "connect()"}
      [] k = "watcher" -> {"close()"}
      [] k = "server" -> {"listen()", "close()"}
      [] OTHER -> {}

Calls == {"make", "bind", "getPid", "onConnection", "dispose"} \union UNION {UserCalls(k) : k \in AllKinds}

\* Calls that succeed unsent once the client has no use for the proxy.
Shortcuts == {"close()", "kill()"}

\* The flags, and what sets and resets them: a call the program makes, the answer
\* of getPid, an event (an error is also what a call that failed is told as).
Flags == {"connected", "killed", "connecting", "destroyed", "listening"}
Class(k) == IF k \in Sockets THEN "socket" ELSE k
Raised ==
    {<<"process", "getPid", "connected">>, <<"process", "kill()", "killed">>,
     <<"process", "exit", "killed">>, <<"socket", "connect()", "connecting">>,
     <<"socket", "close", "destroyed">>, <<"server", "listening", "listening">>}
Cleared ==
    {<<"process", "disconnect", "connected">>, <<"process", "exit", "connected">>,
     <<"socket", "connect", "connecting">>, <<"socket", "close", "connecting">>,
     <<"server", "close()", "listening">>, <<"server", "error", "listening">>,
     <<"server", "close", "listening">>}
After(k, flags, what) ==
    (flags \ {f \in Flags : <<Class(k), what, f>> \in Cleared})
        \union {f \in Flags : <<Class(k), what, f>> \in Raised}

\* What handleDisconnect and the handler that calls it emit.
ErrorOnly(k) == {"error"}
OnDisconnect(k) ==
    CASE k = "process" -> {"error", "exit", "close"}
      [] k = "writer" -> {"error", "close", "finish"}
      [] k \in {"stdout", "reader"} -> {"error", "close", "end"}
      [] k \in Sockets -> {"error", "close", "finish", "end"}
      [] OTHER -> {"error", "close"}
AfterAll(k, flags, events) ==
    (flags \ {f \in Flags : \E e \in events : <<Class(k), e, f>> \in Cleared})
        \union {f \in Flags : \E e \in events : <<Class(k), e, f>> \in Raised}

-----------------------------------------------------------------------------
(* The server's side.                                                      *)

Forwarded(k) ==
    CASE k = "process" -> {"close", "disconnect", "error", "exit"}
      [] k = "stdout" -> {"close", "end", "error", "data"}
      [] k = "reader" -> {"close", "end", "error"}
      [] k = "writer" -> {"close", "drain", "error", "finish"}
      [] k \in Sockets -> {"close", "connect", "end", "error", "finish"}
      [] k = "watcher" -> {"change", "close", "error"}
      [] k = "server" -> {"close", "error", "listening"}
Events == UNION {Forwarded(k) \union Delayed(k) : k \in AllKinds}

\* The events that end the proxy.
Done(k) ==
    CASE k = "process" -> {"exit", "error"}
      [] k = "watcher" -> {"close", "error"}
      [] OTHER -> {"close"}

\* Events that repeat, and those that wait for the stream to flow.
Repeated == {"data", "drain", "change"}
Flowing(k) == IF Delayed(k) # {} THEN {"data", "end"} ELSE {}

\* (A process's messages are left out: to its fill they are what data is to a
\* stdout's.)

\* A native object: the phase it starts in and, for each event, the phases it is
\* emitted in and leads to.
Start(k) ==
    CASE k = "connection" -> "dialing" [] k \in {"socket", "server"} -> "idle" [] OTHER -> "open"
ReadableSteps ==
    {<<"open", "data", "open">>, <<"open", "end", "ended">>, <<"open", "error", "erred">>,
     <<"open", "close", "closed">>, <<"ended", "close", "closed">>, <<"erred", "close", "closed">>}
Steps(k) ==
    CASE k = "process" ->
             {<<"open", "disconnect", "lone">>, <<"open", "exit", "ended">>,
              <<"lone", "exit", "ended">>, <<"open", "error", "erred">>,
              <<"erred", "exit", "ended">>, <<"erred", "close", "closed">>,
              <<"ended", "close", "closed">>}
      [] k \in {"stdout", "reader"} -> ReadableSteps
      [] k \in Sockets ->
             ReadableSteps \union
             {<<"idle", "close", "closed">>, <<"dialing", "connect", "open">>,
              <<"dialing", "error", "erred">>, <<"dialing", "close", "closed">>,
              <<"ended", "finish", "finished">>, <<"finished", "close", "closed">>}
      [] k = "writer" ->
             {<<"open", "drain", "open">>, <<"open", "finish", "finished">>,
              <<"open", "error", "erred">>, <<"open", "close", "closed">>,
              <<"finished", "close", "closed">>, <<"erred", "close", "closed">>}
      [] k = "watcher" ->
             {<<"open", "change", "open">>, <<"open", "error", "erred">>,
              <<"open", "close", "closed">>, <<"erred", "close", "closed">>}
      [] k = "server" ->
             {<<"binding", "listening", "listening">>, <<"binding", "error", "idle">>,
              <<"closing", "close", "closed">>}
Phases == {"none", "idle", "dialing", "binding", "open", "listening", "lone", "ended", "finished",
           "erred", "closing", "closed"}

\* What a call does to the native object beside the end it may bring about, which
\* can come at any time.
Moved(k, phase, call) ==
    CASE call = "listen()" /\ phase = "idle" -> "binding"
      [] call = "connect()" /\ phase = "idle" -> "dialing"
      [] k = "server" /\ call = "close()" /\ phase # "closed" -> "closing"
      [] OTHER -> phase

=============================================================================
