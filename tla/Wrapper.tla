-------------------------------- MODULE Wrapper --------------------------------
(****************************************************************************)
(* usdk-wrapper, once its container is booted (Target's boot command): it   *)
(* runs a tool in the container with cl.Exec, translates the paths in what  *)
(* the tool prints, line by line, forwards the signals it gets, and exits   *)
(* with the tool's code.  Seven threads of control: main, for stdout and    *)
(* stderr each the goroutine that receives from the server                  *)
(* (WebsocketRecvStream) and the one that translates (mapFunc), the signal  *)
(* goroutine, and the tool.                                                 *)
(****************************************************************************)
EXTENDS Integers, Sequences

CONSTANTS
    Chunks,         \* what the tool writes at once
    MaxOut,         \* bound: the tokens the tool writes to each stream
    Codes,          \* exit codes of the tool
    MaxSignals,     \* bound: the signals the wrapper gets
    MaxFaults       \* bound: the requests and connections that fail

Streams == {"stdout", "stderr"}

(* word is one of the directories that mapAndWrite knows.                   *)
Tokens == {"slash", "word", "nl"}

(* moved is a slash with the directory of the container's root before it.   *)
Shown == Tokens \cup {"moved"}

ASSUME WrapperAssumption ==
    /\ Chunks \subseteq Seq(Tokens) \ {<<>>}
    /\ MaxOut \in [Streams -> Nat]
    /\ 0 \in Codes /\ Codes \subseteq 0..255
    /\ MaxSignals \in Nat /\ MaxFaults \in Nat

VARIABLES
    main,       \* where main is: connecting the exec's sockets, waiting for
                \* the end of an output or of the tool, closing, gone
    conns,      \* the sockets of the exec that are open
    code,       \* what Exec returned; -1 with an error
    status,     \* the exit status of the wrapper
    tool,       \* none, shell (before the pidfile), running, ended
    toolCode,   \* its exit code
    pidfile,    \* the pidfile exists
    sent,       \* history: what the tool wrote to each stream
    sock,       \* what is on the way from the server
    broken,     \* streams whose connection was lost
    recv,       \* per stream: receive, write (to the pipe), done (at ch <- true)
    pipe,       \* what is left of the current write to the io.Pipe
    mapper,     \* per stream: read, tail (Read failed), ended
    held,       \* the byte mapFunc has just read, if any
    line,       \* lineBuf
    closed,     \* streams whose pipe main has closed
    out,        \* what has been written to the wrapper's own stream
    handler,    \* the signal goroutine: off, loop, idle (at <-ch), forward, close
    due,        \* history: a caught signal can reach the tool and has not yet
    stdin,      \* open or closed: os.Stdin, shared by all execs
    signals, faults

execVars == <<main, conns, code, status, stdin>>
toolVars == <<tool, toolCode, pidfile>>
flow == <<sent, sock, broken, recv, pipe, mapper, held, line, closed, out>>
handling == <<handler, due, signals>>
vars == <<execVars, toolVars, flow, handling, faults>>

TypeOK ==
    /\ main \in {"connect", "stdout", "stderr", "wait", "close1", "close2",
                 "remove", "exited", "killed"}
    /\ conns \in 0..3
    /\ code \in Codes \cup {-1} /\ status \in 0..255
    /\ tool \in {"none", "shell", "running", "ended"} /\ toolCode \in Codes
    /\ pidfile \in BOOLEAN
    /\ sent \in [Streams -> Seq(Tokens)] /\ sock \in [Streams -> Seq(Tokens)]
    /\ broken \subseteq Streams /\ closed \subseteq Streams
    /\ recv \in [Streams -> {"off", "receive", "write", "done"}]
    /\ pipe \in [Streams -> Seq(Tokens)]
    /\ mapper \in [Streams -> {"read", "tail", "ended"}]
    /\ held \in [Streams -> Seq(Tokens)] /\ line \in [Streams -> Seq(Tokens)]
    /\ out \in [Streams -> Seq(Shown)]
    /\ handler \in {"off", "loop", "idle", "forward", "close"}
    /\ due \in BOOLEAN /\ stdin \in {"open", "closed"}
    /\ signals \in 0..MaxSignals /\ faults \in 0..MaxFaults

Init ==
    /\ main = "connect" /\ conns = 0 /\ code = 0 /\ status = 0 /\ stdin = "open"
    /\ tool = "none" /\ toolCode = 0 /\ pidfile = FALSE
    /\ sent = [s \in Streams |-> <<>>] /\ sock = [s \in Streams |-> <<>>]
    /\ broken = {} /\ closed = {}
    /\ recv = [s \in Streams |-> "off"] /\ pipe = [s \in Streams |-> <<>>]
    /\ mapper = [s \in Streams |-> "read"]
    /\ held = [s \in Streams |-> <<>>] /\ line = [s \in Streams |-> <<>>]
    /\ out = [s \in Streams |-> <<>>]
    /\ handler = "off" /\ due = FALSE /\ signals = 0 /\ faults = 0

Gone == main \in {"exited", "killed"}
Fault == faults < MaxFaults /\ faults' = faults + 1

--------------------------------------------------------------------------------
(* mapAndWrite: a known directory is moved into the container's root where  *)
(* its slash starts the line or follows what is no word.                    *)
Moved(t, i) ==
    /\ t[i] = "slash" /\ i < Len(t) /\ t[i + 1] = "word"
    /\ i > 1 => t[i - 1] # "word"
Mapped(t) == [i \in 1..Len(t) |-> IF Moved(t, i) THEN "moved" ELSE t[i]]

(* mapFunc: one byte is read from the pipe, put into the line, and a full   *)
(* line is translated and written.                                          *)
Read(s) ==
    /\ mapper[s] = "read" /\ held[s] = <<>> /\ pipe[s] # <<>> /\ s \notin closed
    /\ held' = [held EXCEPT ![s] = <<Head(pipe[s])>>]
    /\ pipe' = [pipe EXCEPT ![s] = Tail(@)]
    /\ UNCHANGED <<mapper, line, out>>

(* Mutant of MapByte: no line is collected.                                 *)
MapByteEager(s) ==
    /\ held[s] # <<>>
    /\ held' = [held EXCEPT ![s] = <<>>]
    /\ out' = [out EXCEPT ![s] = @ \o Mapped(held[s])]
    /\ UNCHANGED <<pipe, mapper, line>>

(* Mutant of MapByte: lines are only written once the buffer ends.          *)
MapByteLate(s) ==
    /\ held[s] # <<>>
    /\ held' = [held EXCEPT ![s] = <<>>]
    /\ line' = [line EXCEPT ![s] = @ \o held[s]]
    /\ UNCHANGED <<pipe, mapper, out>>

MapByte(s) ==
    /\ held[s] # <<>>
    /\ held' = [held EXCEPT ![s] = <<>>]
    /\ LET text == line[s] \o held[s]  full == held[s] = <<"nl">>
       IN  /\ line' = [line EXCEPT ![s] = IF full THEN <<>> ELSE text]
           /\ out' = [out EXCEPT ![s] = IF full THEN @ \o Mapped(text) ELSE @]
    /\ UNCHANGED <<pipe, mapper>>

ReadFails(s) ==
    /\ mapper[s] = "read" /\ held[s] = <<>> /\ s \in closed
    /\ mapper' = [mapper EXCEPT ![s] = "tail"]
    /\ UNCHANGED <<pipe, held, line, out>>

MapTail(s) ==
    /\ mapper[s] = "tail"
    /\ mapper' = [mapper EXCEPT ![s] = "ended"]
    /\ line' = [line EXCEPT ![s] = <<>>]
    /\ out' = [out EXCEPT ![s] = @ \o Mapped(line[s])]
    /\ UNCHANGED <<pipe, held>>

MapFunc(s) ==
    /\ ~Gone
    /\ Read(s) \/ MapByte(s) \/ ReadFails(s) \/ MapTail(s)
    /\ UNCHANGED <<sent, sock, broken, recv, closed>>
    /\ UNCHANGED <<execVars, toolVars, handling, faults>>

--------------------------------------------------------------------------------
(* WebsocketRecvStream: a message, which is whatever the server found to    *)
(* read when it made one, is written to the pipe, which takes until its     *)
(* last byte was read; the end of the stream, or a lost connection, is      *)
(* reported to Exec.                                                        *)
Receive(s) ==
    /\ recv[s] = "receive"
    /\ recv' = [recv EXCEPT ![s] = "write"]
    /\ \E k \in 1..Len(sock[s]) :
         /\ pipe' = [pipe EXCEPT ![s] = SubSeq(sock[s], 1, k)]
         /\ sock' = [sock EXCEPT ![s] = SubSeq(@, k + 1, Len(@))]

Written(s) ==
    /\ recv[s] = "write" /\ (pipe[s] = <<>> \/ s \in closed)
    /\ recv' = [recv EXCEPT ![s] = IF pipe[s] = <<>> THEN "receive" ELSE "done"]
    /\ UNCHANGED <<sock, pipe>>

(* Mutant of StreamEnds: a lost connection ends the loop without a report.  *)
StreamEndsCleanly(s) ==
    /\ recv[s] = "receive"
    /\ sock[s] = <<>> /\ tool = "ended" /\ s \notin broken
    /\ recv' = [recv EXCEPT ![s] = "done"]
    /\ UNCHANGED <<sock, pipe>>

StreamEnds(s) ==
    /\ recv[s] = "receive"
    /\ s \in broken \/ (sock[s] = <<>> /\ tool = "ended")
    /\ recv' = [recv EXCEPT ![s] = "done"]
    /\ UNCHANGED <<sock, pipe>>

RecvStream(s) ==
    /\ ~Gone
    /\ Receive(s) \/ Written(s) \/ StreamEnds(s)
    /\ UNCHANGED <<sent, broken, mapper, held, line, closed, out>>
    /\ UNCHANGED <<execVars, toolVars, handling, faults>>

(* The network loses the connection of a stream.                            *)
Drop(s) ==
    /\ ~Gone /\ recv[s] \in {"receive", "write"} /\ s \notin broken /\ Fault
    /\ broken' = broken \cup {s}
    /\ UNCHANGED <<sent, sock, recv, pipe, mapper, held, line, closed, out>>
    /\ UNCHANGED <<execVars, toolVars, handling>>

--------------------------------------------------------------------------------
(* Exec: the sockets of stdin, stdout and stderr are opened one by one; an  *)
(* error closes those that are open.                                        *)
Opened(n) == [s \in Streams |->
    IF (s = "stdout" /\ n = 1) \/ (s = "stderr" /\ n = 2) THEN "receive" ELSE recv[s]]

(* Mutant of Connect: one socket too many.                                  *)
ConnectFour ==
    /\ main = "connect" /\ conns < 4
    /\ conns' = conns + 1
    /\ recv' = Opened(conns)
    /\ main' = IF conns = 3 THEN "stdout" ELSE main
    /\ UNCHANGED <<code, status, stdin, broken, closed, pidfile, faults>>

Connect ==
    /\ main = "connect" /\ conns < 3
    /\ conns' = conns + 1
    /\ recv' = Opened(conns)
    /\ main' = IF conns = 2 THEN "stdout" ELSE main
    /\ UNCHANGED <<code, status, stdin, broken, closed, pidfile, faults>>

ConnectFails ==
    /\ main = "connect" /\ Fault
    /\ main' = "close1" /\ code' = -1 /\ conns' = 0 /\ broken' = Streams
    /\ UNCHANGED <<status, stdin, recv, closed, pidfile>>

(* It waits for the end of stdout, then of stderr, and closes os.Stdin.     *)
WaitStdout ==
    /\ main = "stdout" /\ recv["stdout"] = "done"
    /\ main' = "stderr" /\ recv' = [recv EXCEPT !["stdout"] = "off"]
    /\ UNCHANGED <<conns, code, status, stdin, broken, closed, pidfile, faults>>

WaitStderr ==
    /\ main = "stderr" /\ recv["stderr"] = "done"
    /\ main' = "wait" /\ recv' = [recv EXCEPT !["stderr"] = "off"] /\ stdin' = "closed"
    /\ UNCHANGED <<conns, code, status, broken, closed, pidfile, faults>>

(* It waits for the operation and returns the tool's code.                  *)
WaitTool ==
    /\ main = "wait"
    /\ \/ tool = "ended" /\ code' = toolCode /\ UNCHANGED faults
       \/ code' = -1 /\ Fault
    /\ main' = "close1"
    /\ UNCHANGED <<conns, status, stdin, recv, broken, closed, pidfile>>

ClosePipes ==
    /\ \/ main = "close1" /\ main' = "close2" /\ closed' = closed \cup {"stdout"}
       \/ main = "close2" /\ main' = "remove" /\ closed' = closed \cup {"stderr"}
    /\ UNCHANGED <<conns, code, status, stdin, recv, broken, pidfile, faults>>

(* Mutant of Exit: only the error of os.Remove is looked at.                *)
ExitOnRemove ==
    /\ main = "remove"
    /\ main' = "exited" /\ pidfile' = FALSE
    /\ status' = IF pidfile THEN 0 ELSE 1
    /\ UNCHANGED <<conns, code, stdin, recv, broken, closed, faults>>

(* os.Remove of the pidfile, whose error overwrites that of Exec; os.Exit.  *)
Exit ==
    /\ main = "remove"
    /\ main' = "exited" /\ pidfile' = FALSE
    /\ status' = IF code # 0 THEN code % 256 ELSE IF pidfile THEN 0 ELSE 1
    /\ UNCHANGED <<conns, code, stdin, recv, broken, closed, faults>>

Main ==
    /\ \/ Connect \/ ConnectFails \/ WaitStdout \/ WaitStderr \/ WaitTool
       \/ ClosePipes \/ Exit
    /\ UNCHANGED <<tool, toolCode, sent, sock, pipe, mapper, held, line, out, handling>>

--------------------------------------------------------------------------------
(* The command in the container: the server starts it once all sockets are  *)
(* open; the shell changes the directory, writes its pid unless that failed *)
(* and becomes the tool, or su or the shell fail.                           *)
StartShell ==
    /\ tool = "none" /\ conns = 3
    /\ tool' = "shell"
    /\ UNCHANGED <<toolCode, pidfile, sent, sock>>

WritePidfile ==
    /\ tool = "shell"
    /\ tool' = "running" /\ pidfile' \in BOOLEAN
    /\ UNCHANGED <<toolCode, sent, sock>>

ToolPrints(s, chunk) ==
    /\ tool \in {"shell", "running"} /\ Len(sent[s]) + Len(chunk) <= MaxOut[s]
    /\ sent' = [sent EXCEPT ![s] = @ \o chunk]
    /\ sock' = [sock EXCEPT ![s] = @ \o chunk]
    /\ UNCHANGED toolVars

ToolEnds(c) ==
    /\ tool = "running" \/ (tool = "shell" /\ c # 0)
    /\ tool' = "ended" /\ toolCode' = c
    /\ UNCHANGED <<pidfile, sent, sock>>

Tool ==
    /\ ~Gone
    /\ \/ StartShell \/ WritePidfile
       \/ \E s \in Streams, chunk \in Chunks : ToolPrints(s, chunk)
       \/ \E c \in Codes : ToolEnds(c)
    /\ UNCHANGED <<execVars, handling, faults>>
    /\ UNCHANGED <<broken, recv, pipe, mapper, held, line, closed, out>>

--------------------------------------------------------------------------------
(* The kill command finds the tool: it runs, and the pidfile names it.      *)
Reachable == tool = "running" /\ pidfile

(* A signal ends the wrapper before signal.Notify, is dropped while the     *)
(* goroutine is not at its receive (the channel has no buffer), or caught.  *)
Signal ==
    /\ signals < MaxSignals
    /\ signals' = signals + 1
    /\ IF handler = "off" THEN main' = "killed" ELSE UNCHANGED main
    /\ IF handler = "idle" THEN handler' = "forward" /\ due' = Reachable
       ELSE UNCHANGED <<handler, due>>
    /\ UNCHANGED <<stdin, faults>>

Listen ==
    /\ \/ handler = "off" /\ handler' = "loop"
       \/ handler = "loop" /\ handler' = "idle"
    /\ UNCHANGED <<main, due, signals, stdin, faults>>

(* The kill is run with an Exec of its own, which closes the shared         *)
(* os.Stdin at its end; its errors are dropped.                             *)
Forward ==
    /\ handler = "forward"
    /\ \/ /\ handler' = "close" /\ due' = (due /\ ~Reachable)
          /\ UNCHANGED faults
       \/ handler' = "loop" /\ Fault /\ UNCHANGED due
    /\ UNCHANGED <<main, signals, stdin>>

(* Mutant of CloseInput: there is no loop.                                  *)
CloseInputOnce ==
    /\ handler = "close" /\ stdin = "open"
    /\ stdin' = "closed"
    /\ UNCHANGED <<main, handler, due, signals, faults>>

CloseInput ==
    /\ handler = "close"
    /\ handler' = "loop" /\ stdin' = "closed"
    /\ UNCHANGED <<main, due, signals, faults>>

Handler ==
    /\ ~Gone
    /\ Listen \/ Forward \/ CloseInput
    /\ UNCHANGED <<conns, code, status, toolVars, flow>>

--------------------------------------------------------------------------------
Next ==
    \/ Main \/ Tool \/ Handler
    \/ \E s \in Streams : RecvStream(s) \/ MapFunc(s) \/ Drop(s)
    \/ ~Gone /\ Signal /\ UNCHANGED <<conns, code, status, toolVars, flow>>

Spec == Init /\ [][Next]_vars

(* Goroutines are scheduled and the server answers; nothing is assumed of   *)
(* the tool: it may run, or stay silent, for ever.                          *)
FairSpec ==
    /\ Spec
    /\ WF_vars(Main) /\ WF_vars(Handler)
    /\ \A s \in Streams : WF_vars(RecvStream(s)) /\ WF_vars(MapFunc(s))
================================================================================
