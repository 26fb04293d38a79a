--------------------------- MODULE WrapperProperties ---------------------------
(****************************************************************************)
(* What is to hold of usdk-wrapper, and two statements that do not.         *)
(****************************************************************************)
EXTENDS Wrapper

(* Along the way from the tool to the wrapper's own output - the server's   *)
(* messages, the write to the pipe, the byte just read, the line collected  *)
(* - nothing is lost, doubled or reordered, and cutting the text into       *)
(* lines never hides a path from the translation or shows it one that is    *)
(* none: what is out is the translation of a first part of the tool's text, *)
(* and, until the stream is over, that of the rest is still to come.        *)
OutputTranslated ==
    \A s \in Streams :
        /\ \E k \in 0..Len(sent[s]) : out[s] = Mapped(SubSeq(sent[s], 1, k))
        /\ mapper[s] # "ended" =>
             Mapped(sent[s]) =
                 out[s] \o Mapped(line[s] \o held[s] \o pipe[s] \o sock[s])

(* The exit status tells the truth about the tool: 0 only if the tool ended *)
(* with 0, whatever failed, though the error of Exec is overwritten before  *)
(* it is looked at; and the code of a tool that failed, if nothing else did.*)
ExitFaithful ==
    main = "exited" =>
        /\ status = 0 => tool = "ended" /\ toolCode = 0
        /\ faults = 0 /\ toolCode # 0 => status = toolCode

(* Once the tool is over the wrapper exits: main, which waits for stdout    *)
(* before stderr, is never left waiting for a goroutine that waits for it,  *)
(* also when a connection was lost.                                         *)
WrapperExits == tool = "ended" ~> Gone

Lines(text) == Len(SelectSeq(text, LAMBDA t : t = "nl"))

(* A line is shown while the tool runs on, and not only when it ends or     *)
(* fills a buffer, unless the wrapper is gone or the connection lost.       *)
LinesShown ==
    \A s \in Streams : \A k \in 1..MaxOut[s] :
        Lines(sent[s]) >= k ~> Lines(out[s]) >= k \/ Gone \/ s \in broken

(* A signal that is caught while the pidfile names the running tool reaches *)
(* it, unless the tool ends first or the Exec of the kill fails; and the    *)
(* signal goroutine always comes back to catch the next one.                *)
SignalsArrive ==
    /\ due ~> (~due \/ tool = "ended" \/ Gone \/ faults > 0)
    /\ handler # "off" ~> handler = "idle" \/ Gone
    /\ (handler \in {"forward", "close"}) ~> handler = "idle" \/ Gone
--------------------------------------------------------------------------------
(* Statements of the repository that the program does not keep.             *)

(* client.go:1601-1606 waits for both streams because the last bits of data *)
(* are to be printed to the screen: when a tool ended and nothing failed,   *)
(* everything it printed is out when the wrapper exits.                     *)
OutputComplete ==
    main = "exited" /\ faults = 0 => \A s \in Streams : out[s] = Mapped(sent[s])

(* client.go:1616-1618 closes stdin once the exec is done: while the exec   *)
(* of the tool still waits for its output, the tool's input is open.        *)
InputStaysOpen ==
    main \in {"stdout", "stderr"} /\ tool = "running" => stdin = "open"
================================================================================
