----------------------------- MODULE WrapperProofs -----------------------------
(****************************************************************************)
(* The exit status of usdk-wrapper is that of the tool, and what it shows   *)
(* is what the tool printed, translated.                                    *)
(****************************************************************************)
EXTENDS WrapperProperties, SequenceTheorems, TLAPS

(* main has Exec's answer.                                                  *)
Answered == main \in {"close1", "close2", "remove", "exited"}

(* What Exec returned is the tool's code, or -1 and something failed; the   *)
(* status is made of it.                                                    *)
ExitInv ==
    /\ faults \in Nat /\ toolCode \in Codes /\ code \in Codes \cup {-1}
    /\ Answered => \/ tool = "ended" /\ code = toolCode
                   \/ code = -1 /\ faults > 0
    /\ main = "exited" => /\ code # 0 => status = code % 256
                          /\ code = 0 => status \in {0, 1}

(* A code of the tool, or -1, never turns into 0 when the system cuts it to *)
(* a byte.                                                                  *)
LEMMA CodeKept ==
  /\ \A c \in Codes : c % 256 = c
  /\ (-1) % 256 # 0
<1>1. \A c \in 0..255 : c % 256 = c
  OBVIOUS
<1>2. \A c \in Codes : c \in 0..255
  BY WrapperAssumption DEF WrapperAssumption
<1>3. \A c \in Int : c = -1 => c % 256 # 0
  OBVIOUS
<1> QED  BY <1>1, <1>2, <1>3

(* The steps of main that end the exec, and those before and after.         *)
LEMMA MainExit ==
  ASSUME ExitInv, Main
  PROVE  ExitInv'
<1> USE DEF ExitInv, Answered, Main
<1>0. tool' = tool /\ toolCode' = toolCode
  OBVIOUS
<1>1. CASE Connect
  BY <1>0, <1>1 DEF Connect
<1>2. CASE ConnectFails
  BY <1>0, <1>2 DEF ConnectFails, Fault
<1>3. CASE WaitStdout \/ WaitStderr
  BY <1>0, <1>3 DEF WaitStdout, WaitStderr
<1>4. CASE WaitTool
  BY <1>0, <1>4 DEF WaitTool, Fault
<1>5. CASE ClosePipes
  BY <1>0, <1>5 DEF ClosePipes
<1>6. CASE Exit
  BY <1>0, <1>6 DEF Exit
<1> QED  BY <1>1, <1>2, <1>3, <1>4, <1>5, <1>6

(* A tool that has ended keeps its code.                                    *)
LEMMA ToolExit ==
  ASSUME ExitInv, Tool
  PROVE  ExitInv'
<1>1. /\ main' = main /\ code' = code /\ status' = status /\ faults' = faults
      /\ toolCode' \in Codes
      /\ tool = "ended" => tool' = "ended" /\ toolCode' = toolCode
  BY DEF ExitInv, Tool, StartShell, WritePidfile, ToolPrints, ToolEnds, execVars, toolVars
<1> QED  BY <1>1 DEF ExitInv, Answered

(* Everything else leaves the exec and the tool alone, but for a signal     *)
(* that kills the wrapper.                                                  *)
LEMMA OtherExit ==
  ASSUME ExitInv,
         \/ Handler
         \/ \E s \in Streams : RecvStream(s) \/ MapFunc(s) \/ Drop(s)
         \/ ~Gone /\ Signal /\ UNCHANGED <<conns, code, status, toolVars, flow>>
  PROVE  ExitInv'
<1>1. /\ main' = main \/ main' = "killed"
      /\ code' = code /\ status' = status /\ tool' = tool /\ toolCode' = toolCode
      /\ faults' = faults \/ faults' = faults + 1
  <2>1. CASE Handler
    BY <2>1 DEF Handler, Listen, Forward, CloseInput, toolVars, Fault
  <2>2. CASE \E s \in Streams : RecvStream(s) \/ MapFunc(s) \/ Drop(s)
    BY <2>2 DEF RecvStream, MapFunc, Drop, execVars, toolVars, Fault
  <2>3. CASE Signal /\ UNCHANGED <<conns, code, status, toolVars, flow>>
    BY <2>3 DEF Signal, toolVars
  <2> QED  BY <2>1, <2>2, <2>3
<1> QED  BY <1>1 DEF ExitInv, Answered

(* The wrapper only reports success if the tool ended with 0, and reports   *)
(* the tool's own code if the tool failed and nothing else did - whatever   *)
(* is printed, signalled, lost or closed meanwhile.                         *)
THEOREM ExitCorrect == Spec => []ExitFaithful
<1>1. Init => ExitInv
  BY WrapperAssumption DEF WrapperAssumption, Init, ExitInv, Answered
<1>2. ExitInv /\ [Next]_vars => ExitInv'
  <2> SUFFICES ASSUME ExitInv, [Next]_vars PROVE ExitInv'
    OBVIOUS
  <2>1. CASE Next
    BY <2>1, MainExit, ToolExit, OtherExit DEF Next
  <2>2. CASE UNCHANGED vars
    BY <2>2 DEF vars, execVars, toolVars, ExitInv, Answered
  <2> QED  BY <2>1, <2>2
<1>3. ExitInv => ExitFaithful
  BY CodeKept DEF ExitInv, Answered, ExitFaithful
<1> QED  BY <1>1, <1>2, <1>3, PTL DEF Spec

--------------------------------------------------------------------------------
(* Types.                                                                   *)

(* What is translated are texts, of the same length.                        *)
LEMMA MappedType ==
  ASSUME NEW t \in Seq(Tokens)
  PROVE  Mapped(t) \in Seq(Shown) /\ Len(Mapped(t)) = Len(t)
<1>1. \A i \in 1..Len(t) : (IF Moved(t, i) THEN "moved" ELSE t[i]) \in Shown
  BY DEF Shown
<1>2. Mapped(t) \in [1..Len(t) -> Shown]
  BY <1>1 DEF Mapped
<1> QED  BY <1>2

(* The steps of main.                                                       *)
LEMMA MainTyped ==
  ASSUME TypeOK, Main
  PROVE  TypeOK'
<1> USE DEF TypeOK
<1>0. UNCHANGED <<tool, toolCode, sent, sock, pipe, mapper, held, line, out, handling>>
  BY DEF Main
<1> USE <1>0 DEF handling
<1>1. CASE Connect
  <2>1. recv' \in [Streams -> {"off", "receive", "write", "done"}]
    BY <1>1 DEF Connect, Opened
  <2> QED  BY <1>1, <2>1 DEF Connect
<1>2. CASE ConnectFails
  BY <1>2, WrapperAssumption DEF ConnectFails, Fault, WrapperAssumption
<1>3. CASE WaitStdout \/ WaitStderr
  <2>1. recv' \in [Streams -> {"off", "receive", "write", "done"}]
    BY <1>3 DEF WaitStdout, WaitStderr
  <2>2. /\ main' \in {"stderr", "wait"} /\ stdin' \in {"open", "closed"}
        /\ UNCHANGED <<conns, code, status, broken, closed, pidfile, faults>>
    BY <1>3 DEF WaitStdout, WaitStderr
  <2> QED  BY <2>1, <2>2
<1>4. CASE WaitTool
  BY <1>4, WrapperAssumption DEF WaitTool, Fault, WrapperAssumption
<1>5. CASE ClosePipes
  <2>1. /\ main' \in {"close2", "remove"} /\ closed' \subseteq Streams
        /\ UNCHANGED <<conns, code, status, stdin, recv, broken, pidfile, faults>>
    BY <1>5 DEF ClosePipes, Streams
  <2> QED  BY <2>1
<1>6. CASE Exit
  <2>1. \A c \in Int : c % 256 \in 0..255
    OBVIOUS
  <2>2. code \in Int
    BY WrapperAssumption DEF WrapperAssumption
  <2>3. status' \in 0..255
    BY <1>6, <2>1, <2>2 DEF Exit
  <2> QED  BY <1>6, <2>3 DEF Exit
<1> QED  BY <1>1, <1>2, <1>3, <1>4, <1>5, <1>6 DEF Main

(* The steps of the tool.                                                   *)
LEMMA ToolTyped ==
  ASSUME TypeOK, Tool
  PROVE  TypeOK'
<1> USE DEF TypeOK
<1>0. UNCHANGED <<execVars, handling, faults>>
      /\ UNCHANGED <<broken, recv, pipe, mapper, held, line, closed, out>>
  BY DEF Tool
<1>1. CASE StartShell \/ WritePidfile
  BY <1>0, <1>1 DEF StartShell, WritePidfile, execVars, handling
<1>2. CASE \E s \in Streams, chunk \in Chunks : ToolPrints(s, chunk)
  <2>1. PICK s \in Streams, chunk \in Chunks : ToolPrints(s, chunk)
    BY <1>2
  <2>2. chunk \in Seq(Tokens)
    BY WrapperAssumption DEF WrapperAssumption
  <2>3. sent[s] \o chunk \in Seq(Tokens) /\ sock[s] \o chunk \in Seq(Tokens)
    BY <2>2
  <2> QED  BY <1>0, <2>1, <2>3 DEF ToolPrints, execVars, toolVars, handling
<1>3. CASE \E c \in Codes : ToolEnds(c)
  BY <1>0, <1>3 DEF ToolEnds, execVars, handling
<1> QED  BY <1>1, <1>2, <1>3 DEF Tool

(* The goroutine that receives a stream, and the network.                   *)
LEMMA RecvTyped ==
  ASSUME TypeOK, NEW s \in Streams, RecvStream(s) \/ Drop(s)
  PROVE  TypeOK'
<1> USE DEF TypeOK
<1>1. CASE RecvStream(s)
  <2>0. /\ UNCHANGED <<sent, broken, mapper, held, line, closed, out>>
        /\ UNCHANGED <<execVars, toolVars, handling, faults>>
    BY <1>1 DEF RecvStream
  <2>1. CASE Receive(s)
    <3>1. PICK k \in 1..Len(sock[s]) :
               /\ pipe' = [pipe EXCEPT ![s] = SubSeq(sock[s], 1, k)]
               /\ sock' = [sock EXCEPT ![s] = SubSeq(@, k + 1, Len(@))]
      BY <2>1 DEF Receive
    <3>2. SubSeq(sock[s], 1, k) \in Seq(Tokens)
          /\ SubSeq(sock[s], k + 1, Len(sock[s])) \in Seq(Tokens)
      OBVIOUS
    <3>3. recv' \in [Streams -> {"off", "receive", "write", "done"}]
      BY <2>1 DEF Receive
    <3>4. pipe' \in [Streams -> Seq(Tokens)] /\ sock' \in [Streams -> Seq(Tokens)]
      BY <3>1, <3>2
    <3> QED  BY <2>0, <3>3, <3>4 DEF execVars, toolVars, handling
  <2>2. CASE Written(s) \/ StreamEnds(s)
    <3>1. recv' \in [Streams -> {"off", "receive", "write", "done"}]
      BY <2>2 DEF Written, StreamEnds
    <3>2. UNCHANGED <<sock, pipe>>
      BY <2>2 DEF Written, StreamEnds
    <3> QED  BY <2>0, <3>1, <3>2 DEF execVars, toolVars, handling
  <2> QED  BY <1>1, <2>1, <2>2 DEF RecvStream
<1>2. CASE Drop(s)
  BY <1>2, WrapperAssumption DEF Drop, Fault, execVars, toolVars, handling, WrapperAssumption
<1> QED  BY <1>1, <1>2

(* The goroutine that translates a stream.                                  *)
LEMMA MapTyped ==
  ASSUME TypeOK, NEW s \in Streams, MapFunc(s)
  PROVE  TypeOK'
<1> DEFINE Moving == /\ pipe' \in [Streams -> Seq(Tokens)] /\ held' \in [Streams -> Seq(Tokens)]
                     /\ line' \in [Streams -> Seq(Tokens)] /\ out' \in [Streams -> Seq(Shown)]
                     /\ mapper' \in [Streams -> {"read", "tail", "ended"}]
<1>0. /\ pipe \in [Streams -> Seq(Tokens)] /\ held \in [Streams -> Seq(Tokens)]
      /\ line \in [Streams -> Seq(Tokens)] /\ out \in [Streams -> Seq(Shown)]
      /\ mapper \in [Streams -> {"read", "tail", "ended"}]
  BY DEF TypeOK
<1>1. ASSUME Read(s) PROVE Moving
  <2>1. <<Head(pipe[s])>> \in Seq(Tokens) /\ Tail(pipe[s]) \in Seq(Tokens)
    BY <1>0, <1>1 DEF Read
  <2> QED  BY <1>0, <1>1, <2>1 DEF Read
<1>2. ASSUME MapByte(s) PROVE Moving
  <2>1. line[s] \o held[s] \in Seq(Tokens)
    BY <1>0
  <2>2. out[s] \o Mapped(line[s] \o held[s]) \in Seq(Shown)
    <3>1. Mapped(line[s] \o held[s]) \in Seq(Shown)
      BY <2>1, MappedType
    <3> QED  BY <1>0, <3>1
  <2> QED  BY <1>0, <1>2, <2>1, <2>2 DEF MapByte
<1>3. ASSUME ReadFails(s) PROVE Moving
  BY <1>0, <1>3 DEF ReadFails
<1>4. ASSUME MapTail(s) PROVE Moving
  <2>1. out[s] \o Mapped(line[s]) \in Seq(Shown)
    BY <1>0, MappedType
  <2> QED  BY <1>0, <1>4, <2>1 DEF MapTail
<1>5. Moving
  BY <1>1, <1>2, <1>3, <1>4 DEF MapFunc
<1>6. /\ UNCHANGED <<sent, sock, broken, recv, closed>>
      /\ UNCHANGED <<execVars, toolVars, handling, faults>>
  BY DEF MapFunc
<1> QED  BY <1>5, <1>6 DEF TypeOK, execVars, toolVars, handling

(* The variables of usdk-wrapper keep their types: never more than three    *)
(* sockets, a status that fits a byte, whatever the signals and faults.     *)
THEOREM WrapperTypeCorrect == Spec => []TypeOK
<1>1. Init => TypeOK
  <2>1. \A S : <<>> \in Seq(S)
    OBVIOUS
  <2>2. 0 \in Codes /\ MaxSignals \in Nat /\ MaxFaults \in Nat
    BY WrapperAssumption DEF WrapperAssumption
  <2>3. Init => /\ sent \in [Streams -> Seq(Tokens)] /\ sock \in [Streams -> Seq(Tokens)]
                /\ pipe \in [Streams -> Seq(Tokens)] /\ held \in [Streams -> Seq(Tokens)]
                /\ line \in [Streams -> Seq(Tokens)] /\ out \in [Streams -> Seq(Shown)]
    BY <2>1 DEF Init
  <2>4. Init => /\ recv \in [Streams -> {"off", "receive", "write", "done"}]
                /\ mapper \in [Streams -> {"read", "tail", "ended"}]
    BY DEF Init
  <2>5. Init => /\ conns \in 0..3 /\ signals \in 0..MaxSignals /\ faults \in 0..MaxFaults
                /\ code \in Codes /\ toolCode \in Codes /\ status \in 0..255
    BY <2>2 DEF Init
  <2>6. Init => /\ main = "connect" /\ stdin = "open" /\ tool = "none" /\ pidfile = FALSE
                /\ broken = {} /\ closed = {} /\ handler = "off" /\ due = FALSE
    BY DEF Init
  <2> QED  BY <2>3, <2>4, <2>5, <2>6, ZenonT(40) DEF TypeOK
<1>2. TypeOK /\ [Next]_vars => TypeOK'
  <2> SUFFICES ASSUME TypeOK, [Next]_vars PROVE TypeOK'
    OBVIOUS
  <2>1. CASE Main
    BY <2>1, MainTyped
  <2>2. CASE Tool
    BY <2>2, ToolTyped
  <2>3. CASE Handler
    <3>1. UNCHANGED <<conns, code, status, toolVars, flow>>
      BY <2>3 DEF Handler
    <3>2. /\ handler' \in {"off", "loop", "idle", "forward", "close"}
          /\ due' \in BOOLEAN /\ stdin' \in {"open", "closed"}
          /\ UNCHANGED <<main, signals>>
      BY <2>3 DEF Handler, Listen, Forward, CloseInput, Reachable, TypeOK
    <3>3. faults' \in 0..MaxFaults
      BY <2>3, WrapperAssumption
      DEF Handler, Listen, Forward, CloseInput, Fault, TypeOK, WrapperAssumption
    <3> QED  BY <3>1, <3>2, <3>3 DEF flow, toolVars, TypeOK
  <2>4. CASE \E s \in Streams : RecvStream(s) \/ MapFunc(s) \/ Drop(s)
    BY <2>4, RecvTyped, MapTyped
  <2>5. CASE Signal /\ UNCHANGED <<conns, code, status, toolVars, flow>>
    <3>1. main' = main \/ main' = "killed"
      BY <2>5 DEF Signal
    <3>2. handler' \in {"off", "loop", "idle", "forward", "close"} /\ due' \in BOOLEAN
      BY <2>5 DEF Signal, Reachable, TypeOK
    <3>3. signals' \in 0..MaxSignals /\ UNCHANGED <<stdin, faults>>
      BY <2>5, WrapperAssumption DEF Signal, TypeOK, WrapperAssumption
    <3> QED  BY <2>5, <3>1, <3>2, <3>3 DEF flow, toolVars, TypeOK
  <2>6. CASE UNCHANGED vars
    BY <2>6 DEF vars, execVars, toolVars, flow, handling, TypeOK
  <2> QED  BY <2>1, <2>2, <2>3, <2>4, <2>5, <2>6 DEF Next
<1> QED  BY <1>1, <1>2, PTL DEF Spec

--------------------------------------------------------------------------------
(* The output.                                                              *)

(* What is still on its way from the tool to the translation of a stream.   *)
Rest(s) == line[s] \o held[s] \o pipe[s] \o sock[s]

(* A text that is over where a line is.                                     *)
Whole(t) == t # <<>> => t[Len(t)] = "nl"

(* Nothing runs before all sockets are open: a stream that is opened is     *)
(* empty.                                                                   *)
Opening ==
    main = "connect" =>
        /\ conns < 3 /\ tool = "none"
        /\ \A s \in Streams : sock[s] = <<>> /\ pipe[s] = <<>>

(* A message is only received when the one before it is through the pipe;   *)
(* mapFunc holds one byte at most, and none when its loop is over.          *)
Stages(s) ==
    /\ recv[s] = "receive" => pipe[s] = <<>>
    /\ held[s] = <<>> \/ \E t \in Tokens : held[s] = <<t>>
    /\ mapper[s] # "read" => held[s] = <<>>

(* What is out is the translation of the first k bytes, and while the loop  *)
(* runs these are whole lines and the rest is on its way.                   *)
ShownUpTo(s, k) ==
    /\ out[s] = Mapped(SubSeq(sent[s], 1, k))
    /\ mapper[s] # "ended" => /\ Whole(SubSeq(sent[s], 1, k))
                              /\ sent[s] = SubSeq(sent[s], 1, k) \o Rest(s)

StreamInv(s) == Stages(s) /\ \E k \in 0..Len(sent[s]) : ShownUpTo(s, k)

OutputInv == TypeOK /\ Opening /\ \A s \in Streams : StreamInv(s)

(* Cutting a text where a line ends does not change what is a path in it:   *)
(* the parts are translated as the whole is.                                *)
LEMMA MappedConcat ==
  ASSUME NEW a \in Seq(Tokens), NEW b \in Seq(Tokens), Whole(a)
  PROVE  Mapped(a \o b) = Mapped(a) \o Mapped(b)
<1> DEFINE t == a \o b
<1>1. /\ t \in Seq(Tokens) /\ Len(t) = Len(a) + Len(b)
      /\ \A i \in 1..Len(a) : t[i] = a[i]
      /\ \A i \in 1..Len(b) : t[Len(a) + i] = b[i]
  OBVIOUS
<1>2. Len(a) \in Nat /\ Len(b) \in Nat
  OBVIOUS
<1>3. a # <<>> => Len(a) > 0
  OBVIOUS
<1>4. Len(a) > 0 => a[Len(a)] = "nl"
  BY DEF Whole
<1> HIDE DEF t
<1>5. ASSUME NEW i \in 1..Len(a) PROVE Moved(t, i) <=> Moved(a, i)
  <2>1. CASE i = Len(a)
    BY <1>1, <1>2, <1>4, <2>1 DEF Moved
  <2>2. CASE i < Len(a)
    <3>1. i + 1 \in 1..Len(a) /\ (i > 1 => i - 1 \in 1..Len(a)) /\ i < Len(t)
      BY <1>1, <1>2, <2>2
    <3> QED  BY <1>1, <2>2, <3>1 DEF Moved
  <2> QED  BY <1>2, <2>1, <2>2
<1>6. ASSUME NEW i \in 1..Len(b) PROVE Moved(t, Len(a) + i) <=> Moved(b, i)
  <2>1. Len(a) + i < Len(t) <=> i < Len(b)
    BY <1>1, <1>2
  <2>2. i < Len(b) => t[Len(a) + i + 1] = b[i + 1]
    <3>1. i < Len(b) => i + 1 \in 1..Len(b) /\ Len(a) + i + 1 = Len(a) + (i + 1)
      BY <1>2
    <3> QED  BY <1>1, <3>1
  <2>3. CASE i = 1
    <3>1. Len(a) + i - 1 = Len(a)
      BY <1>2, <2>3
    <3>2. ASSUME Len(a) > 0 PROVE t[Len(a)] = "nl"
      <4>1. Len(a) \in 1..Len(a)
        BY <1>2, <3>2
      <4> QED  BY <1>1, <1>4, <3>2, <4>1
    <3>3. Len(a) + i > 1 => t[Len(a) + i - 1] # "word"
      BY <1>2, <2>3, <3>1, <3>2
    <3> QED  BY <1>1, <2>1, <2>2, <2>3, <3>3 DEF Moved
  <2>4. CASE i > 1
    <3>1. i - 1 \in 1..Len(b) /\ Len(a) + i - 1 = Len(a) + (i - 1) /\ Len(a) + i > 1
      BY <1>2, <2>4
    <3>2. t[Len(a) + i - 1] = b[i - 1]
      BY <1>1, <3>1
    <3>3. i > 1 /\ t[Len(a) + i] = b[i]
      BY <1>1, <2>4
    <3> QED  BY <2>1, <2>2, <3>1, <3>2, <3>3 DEF Moved
  <2> QED  BY <1>2, <2>3, <2>4
<1>7. /\ Mapped(t) \in Seq(Shown) /\ Len(Mapped(t)) = Len(a) + Len(b)
      /\ Mapped(a) \in Seq(Shown) /\ Len(Mapped(a)) = Len(a)
      /\ Mapped(b) \in Seq(Shown) /\ Len(Mapped(b)) = Len(b)
  BY <1>1, MappedType
<1> DEFINE u == Mapped(a) \o Mapped(b)
<1>8. /\ u \in Seq(Shown) /\ Len(u) = Len(a) + Len(b)
      /\ \A i \in 1..Len(a) : u[i] = Mapped(a)[i]
      /\ \A i \in 1..Len(b) : u[Len(a) + i] = Mapped(b)[i]
  <2>1. \A v, w \in Seq(Shown) :
           /\ v \o w \in Seq(Shown) /\ Len(v \o w) = Len(v) + Len(w)
           /\ \A i \in 1..Len(v) : (v \o w)[i] = v[i]
           /\ \A i \in 1..Len(w) : (v \o w)[Len(v) + i] = w[i]
    OBVIOUS
  <2>2. PICK v \in Seq(Shown), w \in Seq(Shown) : v = Mapped(a) /\ w = Mapped(b)
    BY <1>7, Zenon
  <2>3. /\ v \o w \in Seq(Shown) /\ Len(v \o w) = Len(v) + Len(w)
        /\ \A i \in 1..Len(v) : (v \o w)[i] = v[i]
        /\ \A i \in 1..Len(w) : (v \o w)[Len(v) + i] = w[i]
    BY <2>1, ZenonT(40)
  <2>4. Len(v) = Len(a) /\ Len(w) = Len(b) /\ u = v \o w
    BY <1>7, <2>2
  <2> QED  BY <2>2, <2>3, <2>4
<1> HIDE DEF u
<1>9. ASSUME NEW i \in 1..Len(a) + Len(b) PROVE Mapped(t)[i] = u[i]
  <2>1. CASE i <= Len(a)
    <3>1. i \in 1..Len(a) /\ i \in 1..Len(t)
      BY <1>1, <1>2, <2>1
    <3>2. Mapped(t)[i] = Mapped(a)[i]
      BY <1>1, <1>5, <3>1 DEF Mapped
    <3> QED  BY <1>8, <3>1, <3>2
  <2>2. CASE i > Len(a)
    <3>1. PICK j \in 1..Len(b) : i = Len(a) + j
      <4>1. i - Len(a) \in 1..Len(b) /\ i = Len(a) + (i - Len(a))
        BY <1>2, <2>2
      <4> QED  BY <4>1
    <3>2. i \in 1..Len(t) /\ (Moved(t, i) <=> Moved(b, j)) /\ t[i] = b[j]
      BY <1>1, <1>2, <1>6, <3>1
    <3>3. Mapped(t)[i] = Mapped(b)[j]
      BY <3>2 DEF Mapped
    <3> QED  BY <1>8, <3>1, <3>3
  <2> QED  BY <1>2, <2>1, <2>2
<1>10. Mapped(t) = u
  BY <1>7, <1>8, <1>9, SeqEqual
<1> QED  BY <1>10 DEF t, u

(* A first part of a text, by its length.                                   *)
LEMMA FirstPart ==
  ASSUME NEW a \in Seq(Tokens), NEW b \in Seq(Tokens)
  PROVE  Len(a) \in 0..Len(a \o b) /\ SubSeq(a \o b, 1, Len(a)) = a
<1> DEFINE t == a \o b
<1>1. /\ t \in Seq(Tokens) /\ Len(t) = Len(a) + Len(b)
      /\ \A i \in 1..Len(a) : t[i] = a[i]
  OBVIOUS
<1>2. Len(a) \in Nat /\ Len(b) \in Nat
  OBVIOUS
<1> HIDE DEF t
<1>3. /\ SubSeq(t, 1, Len(a)) \in Seq(Tokens) /\ Len(SubSeq(t, 1, Len(a))) = Len(a)
      /\ \A i \in 1..Len(a) : SubSeq(t, 1, Len(a))[i] = t[i]
  BY <1>1, <1>2
<1>4. SubSeq(t, 1, Len(a)) = a
  BY <1>1, <1>3, SeqEqual
<1> QED  BY <1>1, <1>2, <1>4 DEF t

(* A stream on which nothing moves.                                         *)
LEMMA StreamKept ==
  ASSUME NEW s \in Streams, StreamInv(s),
         sent'[s] = sent[s], sock'[s] = sock[s], pipe'[s] = pipe[s], held'[s] = held[s],
         line'[s] = line[s], out'[s] = out[s], mapper'[s] = mapper[s],
         recv'[s] = "receive" => pipe[s] = <<>>
  PROVE  StreamInv(s)'
BY DEF StreamInv, Stages, ShownUpTo, Rest

(* How the parts of the rest may be taken together.                         *)
LEMMA Regrouped ==
  \A a, t, p \in Seq(Tokens) : a \o t \o p = a \o (t \o p)
BY ConcatAssociative

LEMMA RestParts ==
  \A a, t, p, q \in Seq(Tokens) : a \o (t \o p \o q) = (a \o t) \o (p \o q)
<1> SUFFICES ASSUME NEW a \in Seq(Tokens), NEW t \in Seq(Tokens),
                    NEW p \in Seq(Tokens), NEW q \in Seq(Tokens)
             PROVE  a \o (t \o p \o q) = (a \o t) \o (p \o q)
  OBVIOUS
<1>1. t \o p \o q = t \o (p \o q)
  BY Regrouped, ZenonT(40)
<1>2. PICK r \in Seq(Tokens) : r = p \o q
  <2>1. p \o q \in Seq(Tokens)
    OBVIOUS
  <2> QED  BY <2>1, Zenon
<1>3. a \o t \o r = a \o (t \o r)
  BY Regrouped, ZenonT(40)
<1> QED  BY <1>1, <1>2, <1>3, Zenon

LEMMA NothingAdded == \A t \in Seq(Tokens) : t \o <<>> = t /\ <<>> \o t = t
BY ConcatEmptySeq, Zenon

(* mapFunc: a byte moves on within the rest; a whole line, or the last part *)
(* of one, moves to what is out.                                            *)
LEMMA MapOutput ==
  ASSUME TypeOK, NEW s \in Streams, StreamInv(s), MapFunc(s)
  PROVE  StreamInv(s)'
<1> DEFINE L == line[s]  H == held[s]  P == pipe[s]  Q == sock[s]
<1>1. PICK k \in 0..Len(sent[s]) : ShownUpTo(s, k)
  BY DEF StreamInv
<1> DEFINE a == SubSeq(sent[s], 1, k)
<1>2. /\ sent[s] \in Seq(Tokens) /\ L \in Seq(Tokens) /\ H \in Seq(Tokens)
      /\ P \in Seq(Tokens) /\ Q \in Seq(Tokens)
  BY DEF TypeOK
<1>3. a \in Seq(Tokens)
  BY <1>1, <1>2
<1>4. /\ sent' = sent /\ sock' = sock /\ recv' = recv
  BY DEF MapFunc
<1>5. Stages(s) /\ out[s] = Mapped(a)
  BY <1>1 DEF StreamInv, ShownUpTo
<1>6. ASSUME mapper[s] # "ended" PROVE Whole(a) /\ sent[s] = a \o (L \o H \o P \o Q)
  BY <1>1, <1>6 DEF ShownUpTo, Rest
<1>7. \A t, p, q \in Seq(Tokens) : a \o (t \o p \o q) = (a \o t) \o (p \o q)
  BY <1>3, RestParts
<1> HIDE DEF a
<1>8. CASE Read(s)
  <2>1. /\ mapper[s] = "read" /\ H = <<>> /\ P # <<>>
        /\ held'[s] = <<Head(P)>> /\ pipe'[s] = Tail(P)
        /\ line'[s] = L /\ out'[s] = out[s] /\ mapper'[s] = mapper[s]
    BY <1>8 DEF Read, TypeOK
  <2>2. <<Head(P)>> \in Seq(Tokens) /\ Tail(P) \in Seq(Tokens) /\ Head(P) \in Tokens
    BY <1>2, <2>1
  <2>3. <<Head(P)>> \o Tail(P) = P
    BY <1>2, <2>1
  <2>4. L \o <<Head(P)>> \o Tail(P) = L \o P
    <3>1. PICK h \in Seq(Tokens), r \in Seq(Tokens) : h = <<Head(P)>> /\ r = Tail(P)
      BY <2>2
    <3>2. \A l \in Seq(Tokens) : l \o h \o r = l \o (h \o r)
      BY Regrouped
    <3> QED  BY <1>2, <2>3, <3>1, <3>2, Zenon
  <2>5. L \o H = L
    BY <1>2, <2>1, NothingAdded
  <2>6. Rest(s)' = Rest(s)
    BY <1>4, <2>1, <2>4, <2>5 DEF Rest
  <2>7. ShownUpTo(s, k)'
    BY <1>1, <1>4, <2>1, <2>6 DEF ShownUpTo
  <2>8. Stages(s)'
    BY <1>4, <1>5, <2>1, <2>2 DEF Stages
  <2> QED  BY <1>4, <2>7, <2>8 DEF StreamInv
<1>9. CASE MapByte(s)
  <2> DEFINE T == L \o H
  <2>0. /\ H # <<>> /\ mapper[s] = "read"
        /\ held'[s] = <<>> /\ pipe'[s] = P /\ mapper'[s] = mapper[s]
        /\ line'[s] = (IF H = <<"nl">> THEN <<>> ELSE T)
        /\ out'[s] = (IF H = <<"nl">> THEN out[s] \o Mapped(T) ELSE out[s])
    BY <1>5, <1>9 DEF MapByte, TypeOK, Stages
  <2>1. Stages(s)'
    BY <1>4, <1>5, <2>0 DEF Stages
  <2>2. T \in Seq(Tokens)
    BY <1>2
  <2>3. CASE H # <<"nl">>
    <3>1. T \o <<>> = T
      BY <2>2, NothingAdded
    <3>2. Rest(s)' = Rest(s)
      BY <1>4, <2>0, <2>3, <3>1 DEF Rest
    <3>3. ShownUpTo(s, k)'
      BY <1>1, <1>4, <2>0, <2>3, <3>2 DEF ShownUpTo
    <3> QED  BY <1>4, <2>1, <3>3 DEF StreamInv
  <2>4. CASE H = <<"nl">>
    <3>1. Whole(a) /\ sent[s] = a \o (T \o P \o Q)
      BY <1>6, <2>0
    <3> HIDE DEF T
    <3>2. a \o T \in Seq(Tokens) /\ P \o Q \in Seq(Tokens)
      BY <1>2, <1>3, <2>2
    <3>3. sent[s] = (a \o T) \o (P \o Q)
      <4>1. a \o (T \o P \o Q) = (a \o T) \o (P \o Q)
        BY <1>2, <2>2, <1>7, Zenon
      <4> QED  BY <3>1, <4>1, Zenon
    <3>4. PICK n \in 0..Len(sent[s]) : SubSeq(sent[s], 1, n) = a \o T
      BY <3>2, <3>3, FirstPart
    <3>5. Rest(s)' = P \o Q
      <4>1. Rest(s)' = <<>> \o <<>> \o P \o Q
        BY <1>4, <2>0, <2>4 DEF Rest
      <4> QED  BY <1>2, <4>1, NothingAdded
    <3>6. out'[s] = Mapped(a \o T)
      <4>1. Mapped(a \o T) = Mapped(a) \o Mapped(T)
        BY <1>3, <2>2, <3>1, MappedConcat
      <4> QED  BY <1>5, <2>0, <2>4, <4>1
    <3>7. Whole(a \o T)
      <4>1. Len(T) = Len(L) + 1 /\ T[Len(L) + 1] = "nl"
        BY <1>2, <2>4 DEF T
      <4>2. Len(T) \in 1..Len(T) /\ T[Len(T)] = "nl" /\ Len(L) \in Nat
        BY <1>2, <2>2, <4>1
      <4>3. (a \o T)[Len(a) + Len(T)] = T[Len(T)] /\ Len(a \o T) = Len(a) + Len(T)
        BY <1>3, <2>2, <4>2
      <4> QED  BY <4>2, <4>3 DEF Whole
    <3>8. ShownUpTo(s, n)'
      BY <1>4, <3>3, <3>4, <3>5, <3>6, <3>7 DEF ShownUpTo
    <3> QED  BY <1>4, <2>1, <3>4, <3>8 DEF StreamInv
  <2> QED  BY <2>3, <2>4
<1>10. CASE ReadFails(s)
  <2>1. /\ H = <<>> /\ mapper[s] = "read" /\ mapper'[s] = "tail"
        /\ held' = held /\ pipe' = pipe /\ line' = line /\ out' = out
    BY <1>10 DEF ReadFails, TypeOK
  <2>2. ShownUpTo(s, k)'
    BY <1>1, <1>4, <2>1 DEF ShownUpTo, Rest
  <2>3. Stages(s)'
    BY <1>4, <1>5, <2>1 DEF Stages
  <2> QED  BY <1>4, <2>2, <2>3 DEF StreamInv
<1>11. CASE MapTail(s)
  <2>1. /\ mapper[s] = "tail" /\ mapper'[s] = "ended" /\ held' = held /\ pipe' = pipe
        /\ out'[s] = out[s] \o Mapped(L)
    BY <1>11 DEF MapTail, TypeOK
  <2>2. Stages(s)' /\ H = <<>>
    BY <1>4, <1>5, <2>1 DEF Stages
  <2>3. Whole(a) /\ sent[s] = a \o (L \o P \o Q)
    BY <1>2, <1>6, <2>1, <2>2, NothingAdded
  <2>4. a \o L \in Seq(Tokens) /\ P \o Q \in Seq(Tokens)
    BY <1>2, <1>3
  <2>5. sent[s] = (a \o L) \o (P \o Q)
    <3>1. a \o (L \o P \o Q) = (a \o L) \o (P \o Q)
      BY <1>2, <1>7, ZenonT(60)
    <3> QED  BY <2>3, <3>1, Zenon
  <2>6. PICK n \in 0..Len(sent[s]) : SubSeq(sent[s], 1, n) = a \o L
    BY <2>4, <2>5, FirstPart
  <2>7. out'[s] = Mapped(a \o L)
    <3>1. Mapped(a \o L) = Mapped(a) \o Mapped(L)
      BY <1>2, <1>3, <2>3, MappedConcat
    <3> QED  BY <1>5, <2>1, <3>1
  <2>8. ShownUpTo(s, n)'
    BY <1>4, <2>1, <2>6, <2>7 DEF ShownUpTo
  <2> QED  BY <1>4, <2>2, <2>6, <2>8 DEF StreamInv
<1> QED  BY <1>8, <1>9, <1>10, <1>11 DEF MapFunc

(* The receiving goroutine takes a first part of what has arrived to the    *)
(* pipe, which is empty then.                                               *)
LEMMA RecvOutput ==
  ASSUME TypeOK, NEW s \in Streams, StreamInv(s), RecvStream(s)
  PROVE  StreamInv(s)'
<1>0. UNCHANGED <<sent, mapper, held, line, out>>
  BY DEF RecvStream
<1>1. CASE Receive(s)
  <2>1. PICK k \in 0..Len(sent[s]) : ShownUpTo(s, k)
    BY DEF StreamInv
  <2>2. PICK n \in 1..Len(sock[s]) :
          /\ pipe'[s] = SubSeq(sock[s], 1, n)
          /\ sock'[s] = SubSeq(sock[s], n + 1, Len(sock[s]))
    BY <1>1 DEF Receive, TypeOK
  <2>3. pipe[s] = <<>> /\ recv'[s] = "write"
    BY <1>1 DEF Receive, StreamInv, Stages, TypeOK
  <2>4. pipe'[s] \in Seq(Tokens) /\ sock'[s] \in Seq(Tokens) /\ pipe'[s] \o sock'[s] = sock[s]
    <3>1. sock[s] \in Seq(Tokens)
      BY DEF TypeOK
    <3>2. /\ SubSeq(sock[s], 1, n) \in Seq(Tokens)
          /\ SubSeq(sock[s], n + 1, Len(sock[s])) \in Seq(Tokens)
      BY <2>2, <3>1
    <3>3. SubSeq(sock[s], 1, n) \o SubSeq(sock[s], n + 1, Len(sock[s])) = sock[s]
      BY <2>2, <3>1, ConcatAdjacentSubSeq, SubSeqFull
    <3> QED  BY <2>2, <3>2, <3>3
  <2>5. Rest(s)' = Rest(s)
    <3>1. PICK t \in Seq(Tokens) : t = line[s] \o held[s]
      <4>1. line[s] \o held[s] \in Seq(Tokens)
        BY DEF TypeOK
      <4> QED  BY <4>1, Zenon
    <3>2. t \o pipe'[s] \o sock'[s] = t \o (pipe'[s] \o sock'[s])
      <4>1. PICK p \in Seq(Tokens), q \in Seq(Tokens) : p = pipe'[s] /\ q = sock'[s]
        BY <2>4, Zenon
      <4>2. t \o p \o q = t \o (p \o q)
        BY Regrouped
      <4> QED  BY <4>1, <4>2, Zenon
    <3>3. t \o pipe[s] = t
      BY <2>3, NothingAdded
    <3>4. Rest(s)' = t \o pipe'[s] \o sock'[s] /\ Rest(s) = t \o pipe[s] \o sock[s]
      BY <1>0, <3>1 DEF Rest
    <3> QED  BY <2>4, <3>2, <3>3, <3>4, Zenon
  <2>6. ShownUpTo(s, k)'
    BY <1>0, <2>1, <2>5 DEF ShownUpTo
  <2>7. Stages(s)'
    BY <1>0, <2>3 DEF Stages, StreamInv
  <2> QED  BY <1>0, <2>6, <2>7 DEF StreamInv
<1>2. CASE Written(s)
  <2>1. /\ sock' = sock /\ pipe' = pipe
        /\ recv'[s] = "receive" => pipe[s] = <<>>
    BY <1>2 DEF Written, TypeOK
  <2> QED  BY <1>0, <2>1, StreamKept
<1>3. CASE StreamEnds(s)
  <2>1. sock' = sock /\ pipe' = pipe /\ recv'[s] = "done"
    BY <1>3 DEF StreamEnds, TypeOK
  <2> QED  BY <1>0, <2>1, StreamKept
<1> QED  BY <1>1, <1>2, <1>3 DEF RecvStream

(* What the tool writes comes last.                                         *)
LEMMA PrintOutput ==
  ASSUME TypeOK, NEW r \in Streams, NEW chunk \in Chunks, ToolPrints(r, chunk),
         UNCHANGED <<recv, pipe, mapper, held, line, out>>,
         NEW s \in Streams, StreamInv(s)
  PROVE  StreamInv(s)'
<1>1. CASE s = r
  <2>1. PICK k \in 0..Len(sent[s]) : ShownUpTo(s, k)
    BY DEF StreamInv
  <2>2. chunk \in Seq(Tokens) /\ sent[s] \in Seq(Tokens)
    BY WrapperAssumption DEF WrapperAssumption, TypeOK
  <2>3. sent'[s] = sent[s] \o chunk /\ sock'[s] = sock[s] \o chunk
    BY <1>1 DEF ToolPrints, TypeOK
  <2>4. PICK a \in Seq(Tokens) : a = SubSeq(sent[s], 1, k)
    <3>1. SubSeq(sent[s], 1, k) \in Seq(Tokens)
      BY <2>1, <2>2
    <3> QED  BY <3>1, Zenon
  <2>5. k \in 0..Len(sent'[s]) /\ SubSeq(sent'[s], 1, k) = a
    <3>1. PICK t \in Seq(Tokens) : t = sent[s]
      BY <2>2, Zenon
    <3>2. PICK b \in Seq(Tokens) : t = a \o b
      <4>1. SubSeq(t, k + 1, Len(t)) \in Seq(Tokens)
        BY <2>1, <3>1
      <4>2. SubSeq(t, 1, k) \o SubSeq(t, k + 1, Len(t)) = t
        <5>1. k \in 1 - 1 .. Len(t) /\ 1 \in 1..Len(t) + 1 /\ Len(t) \in k..Len(t)
          BY <2>1, <3>1
        <5>2. SubSeq(t, 1, k) \o SubSeq(t, k + 1, Len(t)) = SubSeq(t, 1, Len(t))
          BY <5>1, ConcatAdjacentSubSeq
        <5> QED  BY <5>2, SubSeqFull
      <4> QED  BY <2>4, <3>1, <4>1, <4>2
    <3>3. Len(a) = k
      BY <2>1, <2>2, <2>4
    <3>4. b \o chunk \in Seq(Tokens) /\ t \o chunk = a \o (b \o chunk)
      <4>1. a \o b \o chunk = a \o (b \o chunk)
        BY <2>2, Regrouped, ZenonT(40)
      <4> QED  BY <2>2, <3>2, <4>1
    <3> QED  BY <2>3, <3>1, <3>3, <3>4, FirstPart
  <2>6. mapper[s] # "ended" => sent'[s] = a \o Rest(s)'
    <3> SUFFICES ASSUME mapper[s] # "ended" PROVE sent'[s] = a \o Rest(s)'
      OBVIOUS
    <3>1. PICK t \in Seq(Tokens) : t = line[s] \o held[s] \o pipe[s]
      <4>1. line[s] \o held[s] \o pipe[s] \in Seq(Tokens)
        BY DEF TypeOK
      <4> QED  BY <4>1, Zenon
    <3>2. PICK q \in Seq(Tokens) : q = sock[s]
      BY Zenon DEF TypeOK
    <3>3. sent[s] = a \o (t \o q) /\ Rest(s)' = t \o (q \o chunk)
      BY <2>1, <2>3, <2>4, <3>1, <3>2 DEF ShownUpTo, Rest
    <3>4. a \o (t \o q) \o chunk = a \o (t \o q \o chunk)
      <4>1. t \o q \in Seq(Tokens)
        OBVIOUS
      <4>2. PICK u \in Seq(Tokens) : u = t \o q
        BY <4>1, Zenon
      <4>3. a \o u \o chunk = a \o (u \o chunk)
        BY <2>2, Regrouped, ZenonT(40)
      <4> QED  BY <4>2, <4>3, Zenon
    <3>5. t \o q \o chunk = t \o (q \o chunk)
      BY <2>2, Regrouped, ZenonT(40)
    <3> QED  BY <2>3, <3>3, <3>4, <3>5, Zenon
  <2>7. ShownUpTo(s, k)'
    BY <2>1, <2>4, <2>5, <2>6 DEF ShownUpTo
  <2>8. Stages(s)'
    BY DEF Stages, StreamInv
  <2> QED  BY <2>5, <2>7, <2>8 DEF StreamInv
<1>2. CASE s # r
  <2>1. sent'[s] = sent[s] /\ sock'[s] = sock[s]
    BY <1>2 DEF ToolPrints, TypeOK
  <2> QED  BY <2>1, StreamKept DEF StreamInv, Stages
<1> QED  BY <1>1, <1>2

(* The other steps of the tool, and those of main: a socket is opened only  *)
(* while nothing runs.                                                      *)
LEMMA ToolOutput ==
  ASSUME OutputInv, Tool
  PROVE  Opening' /\ \A s \in Streams : StreamInv(s)'
<1>0. /\ UNCHANGED <<execVars, recv, pipe, mapper, held, line, out>>
      /\ TypeOK /\ Opening /\ \A s \in Streams : StreamInv(s)
  BY DEF Tool, OutputInv
<1>1. main = "connect" => tool = "none" /\ conns # 3
  BY <1>0 DEF Opening, TypeOK
<1>2. CASE StartShell \/ WritePidfile \/ \E c \in Codes : ToolEnds(c)
  <2>1. UNCHANGED <<sent, sock>> /\ main # "connect" /\ main' = main
    BY <1>0, <1>1, <1>2 DEF StartShell, WritePidfile, ToolEnds, execVars
  <2>2. ASSUME NEW s \in Streams PROVE StreamInv(s)'
    <3>1. recv[s] = "receive" => pipe[s] = <<>>
      BY <1>0 DEF StreamInv, Stages
    <3> QED  BY <1>0, <2>1, <3>1, StreamKept
  <2> QED  BY <2>1, <2>2 DEF Opening
<1>3. CASE \E r \in Streams, chunk \in Chunks : ToolPrints(r, chunk)
  <2>1. PICK r \in Streams, chunk \in Chunks : ToolPrints(r, chunk)
    BY <1>3
  <2>2. \A s \in Streams : StreamInv(s)'
    BY <1>0, <2>1, PrintOutput
  <2>3. main # "connect" /\ main' = main
    BY <1>0, <1>1, <2>1 DEF ToolPrints, execVars
  <2> QED  BY <2>2, <2>3 DEF Opening
<1> QED  BY <1>2, <1>3 DEF Tool

LEMMA MainOutput ==
  ASSUME OutputInv, Main
  PROVE  Opening' /\ \A s \in Streams : StreamInv(s)'
<1>0. /\ UNCHANGED <<tool, sent, sock, pipe, mapper, held, line, out>>
      /\ TypeOK /\ Opening /\ \A s \in Streams : StreamInv(s)
  BY DEF Main, OutputInv
<1>1. ASSUME NEW s \in Streams PROVE recv[s] = "receive" => pipe[s] = <<>>
  BY <1>0 DEF StreamInv, Stages
<1>2. CASE Connect
  <2>1. main = "connect" /\ \A s \in Streams : pipe[s] = <<>>
    BY <1>0, <1>2 DEF Connect, Opening
  <2>2. Opening'
    BY <1>0, <1>2 DEF Connect, Opening, TypeOK
  <2> QED  BY <1>0, <2>1, <2>2, StreamKept
<1>3. CASE ConnectFails \/ WaitTool \/ ClosePipes \/ Exit
  <2>1. main' # "connect" /\ recv' = recv
    BY <1>3 DEF ConnectFails, WaitTool, ClosePipes, Exit
  <2> QED  BY <1>0, <1>1, <2>1, StreamKept DEF Opening
<1>4. CASE WaitStdout \/ WaitStderr
  <2>1. main' # "connect" /\ \A s \in Streams : recv'[s] = recv[s] \/ recv'[s] = "off"
    BY <1>0, <1>4 DEF WaitStdout, WaitStderr, TypeOK
  <2> QED  BY <1>0, <1>1, <2>1, StreamKept DEF Opening
<1> QED  BY <1>2, <1>3, <1>4 DEF Main

(* The goroutines of a stream leave the other one alone.                    *)
LEMMA StreamOutput ==
  ASSUME OutputInv, NEW r \in Streams, RecvStream(r) \/ MapFunc(r) \/ Drop(r)
  PROVE  Opening' /\ \A s \in Streams : StreamInv(s)'
<1>0. /\ UNCHANGED <<main, conns, tool, sent>>
      /\ TypeOK /\ Opening /\ \A s \in Streams : StreamInv(s)
  BY DEF RecvStream, MapFunc, Drop, OutputInv, execVars, toolVars
<1>1. ASSUME NEW s \in Streams, s # r
      PROVE  /\ sock'[s] = sock[s] /\ pipe'[s] = pipe[s] /\ held'[s] = held[s]
             /\ line'[s] = line[s] /\ out'[s] = out[s] /\ mapper'[s] = mapper[s]
             /\ recv'[s] = recv[s]
  <2>1. CASE RecvStream(r)
    BY <1>0, <1>1, <2>1 DEF RecvStream, Receive, Written, StreamEnds, TypeOK
  <2>2. CASE MapFunc(r)
    BY <1>0, <1>1, <2>2 DEF MapFunc, Read, MapByte, ReadFails, MapTail, TypeOK
  <2>3. CASE Drop(r)
    BY <2>3 DEF Drop
  <2> QED  BY <2>1, <2>2, <2>3
<1>2. StreamInv(r)'
  <2>1. CASE Drop(r)
    BY <1>0, <2>1, StreamKept DEF Drop, StreamInv, Stages
  <2> QED  BY <1>0, <2>1, RecvOutput, MapOutput
<1>3. \A s \in Streams : StreamInv(s)'
  <2> SUFFICES ASSUME NEW s \in Streams, s # r PROVE StreamInv(s)'
    BY <1>2
  <2>1. recv[s] = "receive" => pipe[s] = <<>>
    BY <1>0 DEF StreamInv, Stages
  <2> QED  BY <1>0, <1>1, <2>1, StreamKept
<1>4. Opening'
  <2> SUFFICES ASSUME main = "connect" PROVE sock'[r] = <<>> /\ pipe'[r] = <<>>
    BY <1>0, <1>1 DEF Opening
  <2>1. sock[r] = <<>> /\ pipe[r] = <<>>
    BY <1>0 DEF Opening
  <2>2. ~Receive(r) /\ ~Read(r)
    BY <2>1 DEF Receive, Read
  <2>3. sock' = sock /\ pipe' = pipe
    BY <2>2 DEF RecvStream, MapFunc, Drop, Written, StreamEnds, MapByte, ReadFails, MapTail
  <2> QED  BY <2>1, <2>3
<1> QED  BY <1>3, <1>4

(* What usdk-wrapper shows is, at any moment, the translation of a first    *)
(* part of what the tool printed, and what is still to come is that of the  *)
(* rest: through the messages, the pipe, the byte that was just read and    *)
(* the line nothing is lost, doubled or reordered, and no path is cut, for  *)
(* any text, any split of it into messages and any interleaving.            *)
THEOREM OutputCorrect == Spec => []OutputTranslated
<1>1. Init => Opening /\ \A s \in Streams : StreamInv(s)
  <2> SUFFICES ASSUME Init PROVE Opening /\ \A s \in Streams : StreamInv(s)
    OBVIOUS
  <2>1. Opening
    BY DEF Init, Opening
  <2>2. ASSUME NEW s \in Streams PROVE StreamInv(s)
    <3>1. /\ sent[s] = <<>> /\ Rest(s) = <<>> \o <<>> \o <<>> \o <<>> /\ out[s] = <<>>
          /\ recv[s] = "off" /\ held[s] = <<>> /\ mapper[s] = "read"
      BY DEF Init, Rest
    <3>2. <<>> \in Seq(Tokens) /\ Len(<<>>) = 0
      OBVIOUS
    <3>3. Rest(s) = <<>>
      BY <3>1, <3>2, NothingAdded, Zenon
    <3>4. SubSeq(<<>>, 1, 0) = <<>> /\ Mapped(<<>>) = <<>>
      BY <3>2 DEF Mapped
    <3>5. ShownUpTo(s, 0)
      BY <3>1, <3>2, <3>3, <3>4, NothingAdded DEF ShownUpTo, Whole
    <3>6. 0 \in 0..Len(sent[s])
      BY <3>1, <3>2
    <3> QED  BY <3>1, <3>5, <3>6 DEF StreamInv, Stages
  <2> QED  BY <2>1, <2>2
<1>2. TypeOK /\ Opening /\ (\A s \in Streams : StreamInv(s)) /\ [Next]_vars
        => (Opening /\ \A s \in Streams : StreamInv(s))'
  <2> SUFFICES ASSUME OutputInv, [Next]_vars
               PROVE  Opening' /\ \A s \in Streams : StreamInv(s)'
    BY DEF OutputInv
  <2>1. CASE Main
    BY <2>1, MainOutput
  <2>2. CASE Tool
    BY <2>2, ToolOutput
  <2>3. CASE \E s \in Streams : RecvStream(s) \/ MapFunc(s) \/ Drop(s)
    BY <2>3, StreamOutput
  <2>4. CASE \/ Handler
             \/ Signal /\ UNCHANGED <<conns, code, status, toolVars, flow>>
             \/ UNCHANGED vars
    <3>1. /\ main' = main \/ main' = "killed"
          /\ UNCHANGED <<conns, tool, flow>>
      BY <2>4 DEF Handler, Listen, Forward, CloseInput, Signal, vars, execVars, toolVars, flow
    <3>2. ASSUME NEW s \in Streams PROVE StreamInv(s)'
      <4>1. StreamInv(s) /\ (recv[s] = "receive" => pipe[s] = <<>>)
        BY DEF OutputInv, StreamInv, Stages
      <4> QED  BY <3>1, <4>1, StreamKept DEF flow
    <3> QED  BY <3>1, <3>2 DEF OutputInv, Opening, flow
  <2> QED  BY <2>1, <2>2, <2>3, <2>4 DEF Next
<1>3. TypeOK /\ (\A s \in Streams : StreamInv(s)) => OutputTranslated
  <2> SUFFICES ASSUME TypeOK, NEW s \in Streams, StreamInv(s)
               PROVE  /\ \E k \in 0..Len(sent[s]) : out[s] = Mapped(SubSeq(sent[s], 1, k))
                      /\ mapper[s] # "ended" => Mapped(sent[s]) = out[s] \o Mapped(Rest(s))
    BY DEF OutputTranslated, Rest
  <2>1. PICK k \in 0..Len(sent[s]) : ShownUpTo(s, k)
    BY DEF StreamInv
  <2>2. SubSeq(sent[s], 1, k) \in Seq(Tokens)
    BY <2>1 DEF TypeOK
  <2>3. Rest(s) \in Seq(Tokens)
    BY DEF TypeOK, Rest
  <2> QED  BY <2>1, <2>2, <2>3, MappedConcat DEF ShownUpTo
<1> QED  BY <1>1, <1>2, <1>3, WrapperTypeCorrect, PTL DEF Spec
================================================================================
