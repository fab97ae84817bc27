------------------------------- MODULE Shell -------------------------------
(***************************************************************************)
(* The shell of sh.c as a set of processes: main() forks one for each      *)
(* line, which parses it and runs the command with runcmd(): it forks      *)
(* again for lists, pipelines and background commands, connects the        *)
(* pipelines by descriptors, and waits.                                    *)
(*                                                                         *)
(* A step is one system call.  todo is what is left of the code a process  *)
(* executes.  Of the programs it is assumed that they read their standard  *)
(* input to its end and then exit, or exit before that.                    *)
(***************************************************************************)
EXTENDS ShellParser, FiniteSets, FiniteSetsExt

CONSTANTS
  NPROC,      \* how many processes there can be, the shell included
  NOFILE,     \* descriptors of a process
  NPIPE,      \* how many pipes there can be
  Typed,      \* the lines that are typed
  MaxLines    \* bound on the lines the shell reads

Process == 1..NPROC
main == 1
Fd == 0..(NOFILE - 1)

ASSUME ShellAssumption ==
  /\ NPROC \in Nat \ {0} /\ NOFILE \in Nat /\ NOFILE > 2 /\ NPIPE \in Nat /\ MaxLines \in Nat
  /\ Typed \subseteq Seq(Token)

VARIABLES
  proc,     \* proc[i]: the process in slot i
  lines,    \* the lines read so far
  failed    \* history: fork() or pipe() failed

vars == <<proc, lines, failed>>

(* What a descriptor stands for: nothing, the console, a file, or the read or
   the write end of a pipe. *)
None == <<"none", 0>>
Tty == <<"tty", 0>>
File == <<"file", 0>>
ReadEnd(n) == <<"r", n>>
WriteEnd(n) == <<"w", n>>

Unused == [state |-> "unused", parent |-> 0, todo |-> <<>>, fd |-> [d \in Fd |-> None],
           p |-> <<0, 0>>, back |-> FALSE]

-----------------------------------------------------------------------------

(* The code of runcmd(), as the system calls it makes. *)

Do(op) == [op |-> op]
Close(fd) == [op |-> "close", fd |-> fd]
Dup(fd) == [op |-> "dup", fd |-> fd]
Run(cmd) == [op |-> "run", cmd |-> cmd]
Fork(code, back) == [op |-> "fork", code |-> code, back |-> back]

\* What the children of a pipeline do before they go on with runcmd().
Left(cmd) == <<Close("1"), Dup("p1"), Close("p0"), Close("p1"), Run(cmd)>>
Right(cmd) == <<Close("0"), Dup("p0"), Close("p0"), Close("p1"), Run(cmd)>>

\* Faults: the process of the pipeline keeps the write end; it waits only once.
PipeCodeKeepsEnd(cmd) ==
  <<Do("pipe"), Fork(Left(cmd.left), FALSE), Fork(Right(cmd.right), FALSE),
    Close("p0"), Do("wait"), Do("wait"), Do("exit")>>
PipeCodeWaitsOnce(cmd) ==
  <<Do("pipe"), Fork(Left(cmd.left), FALSE), Fork(Right(cmd.right), FALSE),
    Close("p0"), Close("p1"), Do("wait"), Do("exit")>>

PipeCode(cmd) ==
  <<Do("pipe"), Fork(Left(cmd.left), FALSE), Fork(Right(cmd.right), FALSE),
    Close("p0"), Close("p1"), Do("wait"), Do("wait"), Do("exit")>>

Runcmd(cmd) ==
  CASE cmd.type = "EXEC"  -> IF cmd.argv = <<>> THEN <<Do("exit")>> ELSE <<Do("exec"), Do("exit")>>
    [] cmd.type = "REDIR" -> <<Close(cmd.fd), Do("open"), Run(cmd.cmd)>>
    [] cmd.type = "LIST"  -> <<Fork(<<Run(cmd.left)>>, FALSE), Do("wait"), Run(cmd.right)>>
    [] cmd.type = "PIPE"  -> PipeCode(cmd)
    [] cmd.type = "BACK"  -> <<Fork(<<Run(cmd.cmd)>>, TRUE), Do("exit")>>

\* The code of main() for one line, with what parsecmd() will make of it.
Line(s) == <<Fork(<<[op |-> "parse", line |-> s, result |-> Parsecmd(s)]>>, FALSE),
             Do("wait"), Do("getcmd")>>

\* The shell has its three descriptors open.
Init ==
  /\ proc = [i \in Process |->
               IF i = main
               THEN [Unused EXCEPT !.state = "live", !.todo = <<Do("getcmd")>>,
                                   !.fd = [d \in Fd |-> IF d < 3 THEN Tty ELSE None]]
               ELSE Unused]
  /\ lines = 0 /\ failed = FALSE

-----------------------------------------------------------------------------

At(i, op) == proc[i].state = "live" /\ proc[i].todo[1].op = op
Arg(i) == proc[i].todo[1]

\* Process i goes on with code and descriptors fd.
Goto(i, code, fd) == proc' = [proc EXCEPT ![i].todo = code, ![i].fd = fd]
Advance(i, fd) == Goto(i, Tail(proc[i].todo), fd)

\* fork1() and runcmd() call panic(), which exits.
Fail(i) == Goto(i, <<Do("exit")>>, proc[i].fd)

FreeFds(i) == {d \in Fd : proc[i].fd[d] = None}
FdNamed(i, name) ==
  CASE name = "0" -> 0 [] name = "1" -> 1 [] name = "p0" -> proc[i].p[1] [] name = "p1" -> proc[i].p[2]

\* Some process has the end of a pipe.
Held(end) == \E i \in Process : proc[i].state = "live" /\ \E d \in Fd : proc[i].fd[d] = end

\* getcmd(): a line, which chdir() may be all there is to do for, or the end of
\* the input.
Getcmd(i) ==
  /\ At(i, "getcmd")
  /\ \/ /\ lines < MaxLines
        /\ lines' = lines + 1
        /\ \/ \E s \in Typed : Goto(i, Line(s), proc[i].fd)
           \/ UNCHANGED proc
     \/ /\ Fail(i)
        /\ UNCHANGED lines
  /\ UNCHANGED failed

\* runcmd(parsecmd(buf)).
Parse(i) ==
  /\ At(i, "parse")
  /\ LET r == Arg(i).result
     IN  Goto(i, IF r.ok THEN <<Run(r.cmd)>> ELSE <<Do("exit")>>, proc[i].fd)
  /\ UNCHANGED <<lines, failed>>

RunCommand(i) ==
  /\ At(i, "run")
  /\ Goto(i, Runcmd(Arg(i).cmd), proc[i].fd)
  /\ UNCHANGED <<lines, failed>>

CloseFd(i) ==
  /\ At(i, "close")
  /\ Advance(i, [proc[i].fd EXCEPT ![FdNamed(i, Arg(i).fd)] = None])
  /\ UNCHANGED <<lines, failed>>

DupFd(i) ==
  /\ At(i, "dup")
  /\ Advance(i, [proc[i].fd EXCEPT ![Min(FreeFds(i))] = proc[i].fd[FdNamed(i, Arg(i).fd)]])
  /\ UNCHANGED <<lines, failed>>

\* open() of a redirection, which can fail.
Open(i) ==
  /\ At(i, "open")
  /\ Advance(i, [proc[i].fd EXCEPT ![Min(FreeFds(i))] = File]) \/ Fail(i)
  /\ UNCHANGED <<lines, failed>>

Pipe(i) ==
  LET free == {n \in 1..NPIPE : ~Held(ReadEnd(n)) /\ ~Held(WriteEnd(n))} IN
  /\ At(i, "pipe")
  /\ IF free = {} \/ Cardinality(FreeFds(i)) < 2 THEN Fail(i) /\ failed' = TRUE
     ELSE LET d0 == Min(FreeFds(i))
              d1 == Min(FreeFds(i) \ {d0})
          IN  /\ proc' = [proc EXCEPT ![i].todo = Tail(@), ![i].p = <<d0, d1>>,
                                      ![i].fd[d0] = ReadEnd(Min(free)), ![i].fd[d1] = WriteEnd(Min(free))]
              /\ UNCHANGED failed
  /\ UNCHANGED lines

\* fork1(): the child has copies of the descriptors and of p.
ForkChild(i) ==
  LET free == {j \in Process : proc[j].state = "unused"} IN
  /\ At(i, "fork")
  /\ IF free = {} THEN Fail(i) /\ failed' = TRUE
     ELSE /\ proc' = [proc EXCEPT ![i].todo = Tail(@),
                        ![Min(free)] = [proc[i] EXCEPT !.parent = i, !.todo = Arg(i).code,
                                                       !.back = @ \/ Arg(i).back]]
          /\ UNCHANGED failed
  /\ UNCHANGED lines

\* exec() starts the program, or fails and runcmd() exits.
Exec(i) ==
  /\ At(i, "exec")
  /\ Goto(i, <<Do("program")>>, proc[i].fd) \/ Advance(i, proc[i].fd)
  /\ UNCHANGED <<lines, failed>>

\* wait(0) reaps a child, or has none.
Wait(i) ==
  LET children == {j \in Process : proc[j].state /= "unused" /\ proc[j].parent = i}
      zombies == {j \in children : proc[j].state = "zombie"}
  IN
  /\ At(i, "wait")
  /\ \/ /\ zombies /= {}
        /\ proc' = [proc EXCEPT ![i].todo = Tail(@), ![Min(zombies)] = Unused]
     \/ /\ children = {}
        /\ Advance(i, proc[i].fd)
  /\ UNCHANGED <<lines, failed>>

\* exit(): the descriptors are closed, and the children go to initproc, which
\* reaps what is left of them.
Exited(i) ==
  [j \in Process |->
    CASE j = i -> IF proc[i].parent = 0 THEN Unused
                  ELSE [Unused EXCEPT !.state = "zombie", !.parent = proc[i].parent, !.back = proc[i].back]
      [] j /= i /\ proc[j].parent = i -> IF proc[j].state = "zombie" THEN Unused ELSE [proc[j] EXCEPT !.parent = 0]
      [] OTHER -> proc[j]]

Exit(i) ==
  /\ At(i, "exit")
  /\ proc' = Exited(i)
  /\ UNCHANGED <<lines, failed>>

\* A program exits before it has read all its input.
Stop(i) ==
  /\ At(i, "program")
  /\ proc' = Exited(i)
  /\ UNCHANGED <<lines, failed>>

\* The standard input of i comes to its end: it is a file, the terminal, where the
\* user is taken to type ^D some time, or a pipe nobody can write to any more.  What
\* i writes to its standard output is read, or is an error as nobody can read it.
InputEnded(i) == LET in == proc[i].fd[0] IN in[1] = "r" => ~Held(WriteEnd(in[2]))
OutputTaken(i) ==
  LET out == proc[i].fd[1] IN
  out[1] = "w" => \/ ~Held(ReadEnd(out[2]))
                  \/ \E j \in Process : At(j, "program") /\ proc[j].fd[0] = ReadEnd(out[2])

Finish(i) == InputEnded(i) /\ OutputTaken(i) /\ Stop(i)

\* What a process does by itself once it has the CPU.
Step(i) ==
  \/ Parse(i) \/ RunCommand(i) \/ CloseFd(i) \/ DupFd(i) \/ Open(i) \/ Pipe(i)
  \/ ForkChild(i) \/ Exec(i) \/ Wait(i) \/ Exit(i)

Next == \E i \in Process : Getcmd(i) \/ Step(i) \/ Stop(i)

Spec == Init /\ [][Next]_vars

\* Processes are scheduled, and programs whose input comes to its end finish: those
\* that read the terminal because the user ends what they type.
FairSpec == Spec /\ \A i \in Process : WF_vars(Step(i)) /\ WF_vars(Finish(i))

-----------------------------------------------------------------------------

\* parsecmd() accepts exactly the lines of the grammar, and its recursive descent
\* with one token of lookahead finds the only way to read each of them: operators
\* bind as they should, no word is dropped, no redirection goes astray.
ParserExact ==
  \A i \in Process : At(i, "parse") =>
    LET s == Arg(i).line
        r == Arg(i).result
    IN  LineTrees(s, 1, Len(s)) = IF r.ok THEN {r.cmd} ELSE {}

\* When the shell prompts again, every process of the lines before has exited,
\* except background commands and what a failed fork() or pipe() left behind.
ForegroundDone ==
  At(main, "getcmd") =>
    \A i \in Process \ {main} : proc[i].state /= "unused" => proc[i].back \/ failed

\* Every line comes to its end: the shell prompts again, however the processes of
\* pipelines and lists interleave, whichever fork(), open() or exec() fails, and
\* when programs in the middle of a pipeline stop early.
LineEnds == At(main, "wait") ~> (At(main, "getcmd") \/ proc[main].state = "unused")

=============================================================================
