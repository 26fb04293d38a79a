--------------------------------- MODULE Quoting -------------------------------
(****************************************************************************)
(* The command lines of usdk-target exec, maint and upgrade and of          *)
(* usdk-wrapper: QuoteString, the program given to the shell of the         *)
(* container, and how that shell reads it.                                  *)
(*                                                                          *)
(* A character stands for its class: "a" is a letter, safe everywhere,      *)
(* "=" is safe for QuoteString but makes an assignment of a word, "dq" is a *)
(* double quote, "&" stands for what ends a command.                        *)
(****************************************************************************)
EXTENDS Naturals, Sequences, SequencesExt

Char == {"a", "=", " ", "'", "dq", "\\", "$", "&"}
Safe == {"a", "="}

(* Mutant of QuoteString: a single quote is left as it is.                  *)
QuoteStringPlain(s) ==
    IF s # <<>> /\ \A i \in DOMAIN s : s[i] \in Safe THEN s
    ELSE <<"'">> \o s \o <<"'">>

QuoteString(s) ==
    IF s # <<>> /\ \A i \in DOMAIN s : s[i] \in Safe THEN s
    ELSE LET Part(c) == IF c = "'" THEN <<"'", "dq", "'", "dq", "'">> ELSE <<c>>
         IN  <<"'">> \o FlattenSeq([i \in DOMAIN s |-> Part(s[i])]) \o <<"'">>

(* cd, && and the semicolon of the wrapper's program are tokens of their    *)
(* own; the dotfiles before cd, and LC_ALL=C, are left out.                 *)
Program(prefix, cwd, args) ==
    <<"cd", " ", "dq">> \o cwd \o <<"dq", " ">> \o prefix
    \o FlattenSeq([i \in DOMAIN args |-> <<" ">> \o QuoteString(args[i])])

(* Mutant of ExecProgram: the command does not depend on cd.                *)
ExecProgramAnyhow(cwd, args) == Program(<<";">>, cwd, args)

ExecProgram(cwd, args) == Program(<<"&&">>, cwd, args)

(* The wrapper's pidfile depends on cd, the command after it does not.      *)
WrapperProgram(cwd, args) == 
    Program(<<"&&", " ", "pidfile", " ", ";", " ", "exec">>, cwd, args)

--------------------------------------------------------------------------------
(* How a POSIX shell reads a program, one character after the other.  mode: *)
(* outside or between quotes, or after a backslash there; word and words:   *)
(* the current word, if it has begun, and those that are complete; assign:  *)
(* it sets a variable; odd: an expansion or a further command was met.      *)
Start == [mode |-> "bare", begun |-> FALSE, word |-> <<>>, assign |-> FALSE,
          words |-> <<>>, odd |-> FALSE]

Enter(st, mode) == [st EXCEPT !.mode = mode, !.begun = TRUE]
Add(st, mode, s) == [Enter(st, mode) EXCEPT !.word = @ \o s]

EndWord(st) ==
    IF ~st.begun THEN st
    ELSE [st EXCEPT !.begun = FALSE, !.word = <<>>, !.assign = FALSE,
                    !.words = Append(@, [text |-> st.word, assign |-> st.assign])]

(* Until now the word is a name.                                            *)
Names(st) == st.word # <<>> /\ \A i \in DOMAIN st.word : st.word[i] = "a"

Bare(st, c) ==
    CASE c = " " -> EndWord(st)
      [] c = "'" -> Enter(st, "single")
      [] c = "dq" -> Enter(st, "double")
      [] c = "\\" -> Enter(st, "escape")
      [] c \in {"$", "&"} -> [st EXCEPT !.odd = TRUE]
      [] c = "=" -> [Add(st, "bare", <<c>>) EXCEPT !.assign = @ \/ Names(st)]
      [] OTHER -> Add(st, "bare", <<c>>)

Scan(st, c) ==
    CASE st.mode = "bare" -> Bare(st, c)
      [] st.mode = "escape" -> Add(st, "bare", <<c>>)
      [] st.mode = "single" -> IF c = "'" THEN Enter(st, "bare") ELSE Add(st, "single", <<c>>)
      [] st.mode = "double" ->
            CASE c = "dq" -> Enter(st, "bare")
              [] c = "\\" -> Enter(st, "dqescape")
              [] c = "$" -> [st EXCEPT !.odd = TRUE]
              [] OTHER -> Add(st, "double", <<c>>)
      [] st.mode = "dqescape" ->
            Add(st, "double", IF c \in {"dq", "\\", "$"} THEN <<c>> ELSE <<"\\", c>>)

(* What the shell does: the words between && and a semicolon depend on cd,  *)
(* those after it do not; a leading assignment is not part of a command.    *)
Shell(program, there) ==
    LET st == EndWord(FoldLeft(Scan, Start, program))
        ws == st.words
        At(token) == SelectInSeq(ws, LAMBDA w : w.text = <<token>>)
        semi == IF At(";") = 0 THEN Len(ws) + 1 ELSE At(";")
        guarded == IF there THEN SubSeq(ws, 4, semi - 1) ELSE <<>>
        free == SubSeq(ws, semi + 1, Len(ws))
        line == IF free = <<>> THEN guarded ELSE free
        first == SelectInSeq(line, LAMBDA w : ~w.assign)
        argv == IF first = 0 THEN <<>> ELSE SubSeq(line, first, Len(line))
    IN  [whole |-> st.mode = "bare" /\ ~st.odd,
         argv |-> [i \in DOMAIN argv |-> argv[i].text],
         dir |-> IF there /\ Len(ws) > 1 THEN ws[2].text ELSE <<"~">>,
         pidfile |-> \E i \in DOMAIN guarded : guarded[i].text = <<"pidfile">>]
================================================================================
