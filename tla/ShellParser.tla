---------------------------- MODULE ShellParser ----------------------------
(***************************************************************************)
(* The parser of sh.c, and the grammar it is written for.                  *)
(*                                                                         *)
(* A line is a sequence of tokens, which is what gettoken() and peek()     *)
(* make of the characters: "w" is a word, ">>" is what gettoken() calls    *)
(* '+'.  A word is named by its place in the line (q of the code).  A call *)
(* of panic(), which ends the process, is the result Panic.                *)
(***************************************************************************)
EXTENDS Integers, Sequences, SequencesExt

CONSTANT MAXARGS   \* a command has fewer words than this

ASSUME ParserAssumption == MAXARGS \in Nat

Redirs == {"<", ">", ">>"}
Token == {"w", "|", "(", ")", ";", "&"} \cup Redirs

(* Constructors. *)

ExecCmd == [type |-> "EXEC", argv |-> <<>>]
RedirCmd(cmd, file, fd) == [type |-> "REDIR", cmd |-> cmd, file |-> file, fd |-> fd]
PipeCmd(left, right) == [type |-> "PIPE", left |-> left, right |-> right]
ListCmd(left, right) == [type |-> "LIST", left |-> left, right |-> right]
BackCmd(cmd) == [type |-> "BACK", cmd |-> cmd]

\* The descriptor that a redirection is about.
RedirFd(tok) == IF tok = "<" THEN "0" ELSE "1"

-----------------------------------------------------------------------------

(* The parser.  A function returns its command and where *ps is then. *)

Good(cmd, ps) == [ok |-> TRUE, cmd |-> cmd, ps |-> ps]
Panic == [ok |-> FALSE, cmd |-> ExecCmd, ps |-> 0]

\* What peek() and gettoken() find at ps; gettoken() returns 0 at the end.
Tok(s, ps) == IF ps <= Len(s) THEN s[ps] ELSE "end"

\* parseredirs(), from the command and the place r.
RECURSIVE Parseredirs(_, _)
Parseredirs(s, r) ==
  CASE ~r.ok \/ Tok(s, r.ps) \notin Redirs -> r
    [] Tok(s, r.ps + 1) /= "w" -> Panic
    [] OTHER -> Parseredirs(s, Good(RedirCmd(r.cmd, r.ps + 1, RedirFd(Tok(s, r.ps))), r.ps + 2))

\* The execcmd below the redirections parseexec() has met so far gets a word.
RECURSIVE WithArg(_, _)
WithArg(cmd, q) == IF cmd.type = "REDIR" THEN [cmd EXCEPT !.cmd = WithArg(@, q)]
                   ELSE [cmd EXCEPT !.argv = Append(@, q)]

RECURSIVE Argc(_)
Argc(cmd) == IF cmd.type = "REDIR" THEN Argc(cmd.cmd) ELSE Len(cmd.argv)

\* The loop of parseexec().
RECURSIVE Parseargs(_, _)
Parseargs(s, r) ==
  CASE ~r.ok \/ Tok(s, r.ps) \in {"|", ")", "&", ";", "end"} -> r
    [] Tok(s, r.ps) /= "w" \/ Argc(r.cmd) + 1 >= MAXARGS -> Panic
    [] OTHER -> Parseargs(s, Parseredirs(s, Good(WithArg(r.cmd, r.ps), r.ps + 1)))

\* Fault: one '&' at most.
Back(s, r) == IF r.ok /\ Tok(s, r.ps) = "&" THEN Good(BackCmd(r.cmd), r.ps + 1) ELSE r

\* The loop of parseline().
RECURSIVE Backs(_, _)
Backs(s, r) == IF r.ok /\ Tok(s, r.ps) = "&" THEN Backs(s, Good(BackCmd(r.cmd), r.ps + 1)) ELSE r

RECURSIVE Parseline(_, _)

Parseblock(s, ps) ==
  LET r == Parseline(s, ps + 1)
  IN  IF r.ok /\ Tok(s, r.ps) = ")" THEN Parseredirs(s, Good(r.cmd, r.ps + 1)) ELSE Panic

Parseexec(s, ps) ==
  IF Tok(s, ps) = "(" THEN Parseblock(s, ps)
  ELSE Parseargs(s, Parseredirs(s, Good(ExecCmd, ps)))

RECURSIVE Parsepipe(_, _)
Parsepipe(s, ps) ==
  LET l == Parseexec(s, ps)
      r == Parsepipe(s, l.ps + 1)
  IN  CASE ~l.ok \/ Tok(s, l.ps) /= "|" -> l
        [] ~r.ok -> Panic
        [] OTHER -> Good(PipeCmd(l.cmd, r.cmd), r.ps)

Parseline(s, ps) ==
  LET l == Backs(s, Parsepipe(s, ps))
      r == Parseline(s, l.ps + 1)
  IN  CASE ~l.ok \/ Tok(s, l.ps) /= ";" -> l
        [] ~r.ok -> Panic
        [] OTHER -> Good(ListCmd(l.cmd, r.cmd), r.ps)

\* parsecmd(): nothing may be left over.
Parsecmd(s) ==
  LET r == Parseline(s, 1) IN IF r.ok /\ r.ps = Len(s) + 1 THEN r ELSE Panic

-----------------------------------------------------------------------------

(* The grammar:  line ::= pipe {"&"} [";" line]      pipe ::= exec ["|" pipe]
                 exec ::= "(" line ")" {redir}  |  {redir} {word {redir}}
   XTrees(s, lo, hi) are the commands that lo..hi can be read as an X. *)

\* The command with the redirections of lo..hi, the first one innermost.
Redirected(s, lo, hi, cmd) ==
  FoldLeft(LAMBDA c, i : RedirCmd(c, i + 1, RedirFd(s[i])), cmd,
           SelectSeq([i \in 1..(hi - lo + 1) |-> lo + i - 1], LAMBDA i : s[i] \in Redirs))

Files(s, lo, hi) == {i \in lo..(hi + 1) : i > lo /\ s[i - 1] \in Redirs}
RedirsAndWords(s, lo, hi) ==
  /\ \A i \in lo..hi : s[i] \in Redirs \cup {"w"}
  /\ \A i \in Files(s, lo, hi) : i <= hi /\ s[i] = "w"

SimpleTrees(s, lo, hi) ==
  LET words == SelectSeq([i \in 1..(hi - lo + 1) |-> lo + i - 1],
                         LAMBDA i : s[i] = "w" /\ i \notin Files(s, lo, hi))
  IN  IF RedirsAndWords(s, lo, hi) /\ Len(words) < MAXARGS
      THEN {Redirected(s, lo, hi, [ExecCmd EXCEPT !.argv = words])} ELSE {}

RECURSIVE LineTrees(_, _, _), PipeTrees(_, _, _), BackTrees(_, _, _)

BlockTrees(s, lo, hi) ==
  UNION {{Redirected(s, m + 1, hi, t) : t \in LineTrees(s, lo + 1, m - 1)} :
         m \in {i \in (lo + 1)..hi : /\ s[lo] = "(" /\ s[i] = ")"
                                     /\ RedirsAndWords(s, i + 1, hi)
                                     /\ \A j \in (i + 1)..hi : s[j] = "w" => j \in Files(s, i + 1, hi)}}

ExecTrees(s, lo, hi) == SimpleTrees(s, lo, hi) \cup BlockTrees(s, lo, hi)

PipeTrees(s, lo, hi) ==
  ExecTrees(s, lo, hi) \cup
  UNION {{PipeCmd(l, r) : l \in ExecTrees(s, lo, m - 1), r \in PipeTrees(s, m + 1, hi)} :
         m \in {i \in lo..hi : s[i] = "|"}}

BackTrees(s, lo, hi) ==
  PipeTrees(s, lo, hi) \cup
  {BackCmd(t) : t \in IF lo <= hi /\ s[hi] = "&" THEN BackTrees(s, lo, hi - 1) ELSE {}}

LineTrees(s, lo, hi) ==
  BackTrees(s, lo, hi) \cup
  UNION {{ListCmd(l, r) : l \in BackTrees(s, lo, m - 1), r \in LineTrees(s, m + 1, hi)} :
         m \in {i \in lo..hi : s[i] = ";"}}

=============================================================================
