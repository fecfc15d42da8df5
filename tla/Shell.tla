-------------------------------- MODULE Shell --------------------------------
(***************************************************************************)
(* The command shell of userspace/shell/shell.c over the file system of    *)
(* module VFS.  shell_loop reads a line with read_line (getchar until      *)
(* '\n', or until MAX_COMMAND_LENGTH - 1 characters are stored), splits it *)
(* with parse_line (strtok), runs the builtin execute_command finds by     *)
(* strcmp in builtin_commands, frees line and args, and stops when a       *)
(* command returns 0 (exit).                                               *)
(*                                                                         *)
(* The user types whole lines ending in '\n'; `input' holds what is typed  *)
(* and not yet read.  One iteration of shell_loop is one step.  A line     *)
(* longer than MAX_COMMAND_LENGTH - 1 is returned cut, and its tail stays  *)
(* in the input for the next read_line, as getchar leaves it in the key    *)
(* buffer.  Of the builtins, cd, rm and rmdir change the file system and   *)
(* exit stops the loop; the others print, or allocate and free, only.     *)
(* What each command prints is PrintfCalls, formatted by module Libc.      *)
(***************************************************************************)
EXTENDS Integers, Sequences, SequencesExt, Libc

CONSTANTS
  Slots,    \* the file system's node slots
  Paths,    \* the paths whose resolution FindResolves compares
  Lines     \* command lines the user types, as character sequences

VARIABLES vfs, input, shell_running

FS == INSTANCE VFS

vars == <<vfs, input, shell_running>>

MAX_COMMAND_LENGTH == 256
NL == "\n"
\* "BS" and "DEL" stand for '\b' and 127.  getchar returns neither, as
\* keyboard_handler drops the '\b' it stores; read_line's backspace
\* branch is kept as written.
BS == "BS"
DEL == "DEL"

\* The builtin_commands names execute_command compares args[0] with.
CD    == <<"c","d">>
RMDIR == <<"r","m","d","i","r">>
RM    == <<"r","m">>
EXIT  == <<"e","x","i","t">>

\* builtin_commands, in table order.  A description is only ever printed,
\* so it is kept as its length in filler characters.
Builtins ==
  << [name |-> <<"h","e","l","p">>, description |-> Lit(23)],
     [name |-> <<"e","x","i","t">>, description |-> Lit(14)],
     [name |-> <<"c","l","e","a","r">>, description |-> Lit(16)],
     [name |-> <<"l","s">>, description |-> Lit(23)],
     [name |-> <<"c","d">>, description |-> Lit(16)],
     [name |-> <<"p","w","d">>, description |-> Lit(23)],
     [name |-> <<"c","a","t">>, description |-> Lit(21)],
     [name |-> <<"e","c","h","o">>, description |-> Lit(12)],
     [name |-> <<"m","k","d","i","r">>, description |-> Lit(16)],
     [name |-> <<"r","m","d","i","r">>, description |-> Lit(16)],
     [name |-> <<"r","m">>, description |-> Lit(11)],
     [name |-> <<"c","p">>, description |-> Lit(9)],
     [name |-> <<"m","v">>, description |-> Lit(16)],
     [name |-> <<"p","s">>, description |-> Lit(22)],
     [name |-> <<"k","i","l","l">>, description |-> Lit(17)],
     [name |-> <<"d","a","t","e">>, description |-> Lit(26)],
     [name |-> <<"u","p","t","i","m","e">>, description |-> Lit(18)],
     [name |-> <<"f","r","e","e">>, description |-> Lit(17)],
     [name |-> <<"u","n","a","m","e">>, description |-> Lit(23)] >>

\* Faulty variant: the length test of read_line is off by one.
RECURSIVE ReadFromOffByOne(_, _)
ReadFromOffByOne(line, in) ==
  LET j    == SelectInSeq(in, LAMBDA c : c \in {NL, BS, DEL})
      run  == SubSeq(in, 1, j - 1)
      room == MAX_COMMAND_LENGTH - Len(line)
  IN  IF Len(run) >= room
        THEN [line |-> line \o SubSeq(run, 1, room), rest |-> SubSeq(in, room + 1, Len(in))]
      ELSE IF in[j] = NL
        THEN [line |-> line \o run, rest |-> SubSeq(in, j + 1, Len(in))]
      ELSE ReadFromOffByOne(IF line \o run # <<>> THEN Front(line \o run) ELSE <<>>,
                            SubSeq(in, j + 1, Len(in)))

\* Faulty variant: read_line without the length test, storing until '\n'.
RECURSIVE ReadFromNoCut(_, _)
ReadFromNoCut(line, in) ==
  LET j   == SelectInSeq(in, LAMBDA c : c \in {NL, BS, DEL})
      run == SubSeq(in, 1, j - 1)
  IN  IF in[j] = NL
        THEN [line |-> line \o run, rest |-> SubSeq(in, j + 1, Len(in))]
      ELSE ReadFromNoCut(IF line \o run # <<>> THEN Front(line \o run) ELSE <<>>,
                         SubSeq(in, j + 1, Len(in)))

\* read_line's loop from the characters stored so far.  Up to the next
\* '\n' or backspace every character is stored, and the line is returned
\* as soon as position reaches MAX_COMMAND_LENGTH - 1 (`room' more
\* characters); '\n' ends the line; backspace drops the last character.
\* The input always holds a '\n' ahead, so getchar never blocks here.
RECURSIVE ReadFrom(_, _)
ReadFrom(line, in) ==
  LET j    == SelectInSeq(in, LAMBDA c : c \in {NL, BS, DEL})
      run  == SubSeq(in, 1, j - 1)
      room == MAX_COMMAND_LENGTH - 1 - Len(line)
  IN  IF Len(run) >= room
        THEN [line |-> line \o SubSeq(run, 1, room), rest |-> SubSeq(in, room + 1, Len(in))]
      ELSE IF in[j] = NL
        THEN [line |-> line \o run, rest |-> SubSeq(in, j + 1, Len(in))]
      ELSE ReadFrom(IF line \o run # <<>> THEN Front(line \o run) ELSE <<>>,
                    SubSeq(in, j + 1, Len(in)))

\* read_line(): a fresh buffer, position 0.
ReadLine(in) == ReadFrom(<<>>, in)

\* parse_line(line): strtok with " \t\r\n\a" ("BEL" stands for '\a').
ParseLine(line) == FS!Tokens(line, {" ", "\t", "\r", NL, "BEL"})

\* Whether execute_command's strcmp loop stops at builtin `name'.
IsCmd(args, name) == args # <<>> /\ args[1] = name

\* cmd_cd: change_directory of the argument, or of "/" without one; on
\* failure only a message is printed.
CmdCd(args) ==
  LET path == IF Len(args) > 1 THEN args[2] ELSE <<"/">>
  IN  \/ FS!ChangeDirectory(path)
      \/ FS!CdTarget(path) = <<>> /\ UNCHANGED vfs

\* cmd_rm and cmd_rmdir: delete_file of the argument; without one, or on
\* failure, only a message is printed.
CmdRm(args) ==
  \/ Len(args) >= 2 /\ FS!DeleteFile(args[2])
  \/ Len(args) >= 2 /\ FS!DeleteTarget(args[2]) = FS!NULL /\ UNCHANGED vfs
  \/ Len(args) < 2 /\ UNCHANGED vfs

\* execute_command(args): an empty line returns 1; a builtin found by name
\* runs and returns its status (0 only for exit); an unknown name goes to
\* launch_program, which prints and returns 1.
ExecuteCommand(args) ==
  \/ IsCmd(args, CD) /\ CmdCd(args) /\ UNCHANGED shell_running
  \/ (IsCmd(args, RM) \/ IsCmd(args, RMDIR)) /\ CmdRm(args) /\ UNCHANGED shell_running
  \/ IsCmd(args, EXIT) /\ shell_running' = FALSE /\ UNCHANGED vfs
  \/ (args = <<>> \/ args[1] \notin {CD, RM, RMDIR, EXIT})
     /\ UNCHANGED <<vfs, shell_running>>

-----------------------------------------------------------------------------
(* What each command prints: its printf calls in order, each a format and  *)
(* its variadic arguments, from the state before the command runs.  A      *)
(* format keeps its conversions and the lengths of its literal parts.     *)
Call(fmt, args) == [fmt |-> fmt, args |-> args]
Text(n) == Call(Lit(n), <<>>)
S == <<"%", "s">>

\* cmd_help: a header, "  %-10s - %s\n" per builtin (vsprintf has no '-'
\* flag, so it prints "%-10s - " and the name), and two closing lines.
HelpOut ==
  <<Text(34)>>
  \o [i \in DOMAIN Builtins |->
        Call(Lit(2) \o <<"%", "-">> \o Lit(6) \o S \o Lit(1),
             <<Builtins[i].name, Builtins[i].description>>)]
  \o <<Text(35), Text(42)>>

\* cmd_ls: "ls: cannot access '%s': ..." when list_directory returns NULL,
\* else "%s  " per name and a "\n".
LsOut(args) ==
  LET path == IF Len(args) > 1 THEN args[2] ELSE <<".">>
      d    == FS!FindFile(vfs, path)
  IN  IF d = FS!NULL \/ vfs.nodes[d].type # FS!FILE_TYPE_DIRECTORY
      THEN <<Call(Lit(19) \o S \o Lit(29), <<path>>)>>
      ELSE LET ns == FS!ListDirectory(vfs, d)
           IN  [i \in DOMAIN ns |-> Call(S \o Lit(2), <<ns[i]>>)] \o <<Text(1)>>

\* cmd_cd: a message only when change_directory fails.
CdOut(args) ==
  LET path == IF Len(args) > 1 THEN args[2] ELSE <<"/">>
  IN  IF FS!CdTarget(path) = <<>> THEN <<Call(Lit(4) \o S \o Lit(28), <<path>>)>> ELSE <<>>

\* cmd_cat: usage; "cat: %s: ..." when find_file fails; else the whole
\* file, printed with "%s" when read_file returns more than 0.
CatOut(args) ==
  IF Len(args) < 2 THEN <<Text(22)>>
  ELSE LET f == FS!FindFile(vfs, args[2])
       IN  IF f = FS!NULL THEN <<Call(Lit(5) \o S \o Lit(28), <<args[2]>>)>>
           ELSE IF FS!ReadWholeFile(vfs, f) > 0
           THEN <<Call(S, <<Lit(vfs.nodes[f].size)>>)>> ELSE <<>>

\* cmd_echo: "%s" per argument, " " between two, then "\n".
EchoOut(args) ==
  [k \in 1..(2 * (Len(args) - 1) - 1) |->
     IF k % 2 = 1 THEN Call(S, <<args[(k + 1) \div 2 + 1]>>) ELSE Text(1)]
  \o <<Text(1)>>

\* The commands that print their usage below `need' arguments, and
\* otherwise one message about argv[1] (and argv[2]): always for mkdir;
\* for rm and rmdir when delete_file fails; for cp and mv when copy_file
\* or move_file fails, functions declared in kernel.h and defined nowhere
\* in the tree, so only the failure message is taken as printed.
ArgOut(args, need, usage, fail, pre, post) ==
  IF Len(args) < need THEN <<Text(usage)>>
  ELSE IF ~fail THEN <<>>
  ELSE IF need = 2 THEN <<Call(Lit(pre) \o S \o Lit(post), <<args[2]>>)>>
  ELSE <<Call(Lit(pre) \o S \o Lit(6) \o S \o Lit(post), <<args[2], args[3]>>)>>

RmFails(args) == FS!DeleteTarget(args[2]) = FS!NULL

\* cmd_kill: usage, or "kill: terminating process %d\n" with atoi(argv[1]).
KillOut(args) ==
  IF Len(args) < 2 THEN <<Text(18)>>
  ELSE <<Call(Lit(26) \o <<"%", "d">> \o Lit(1), <<Atoi(args[2])>>)>>

\* cmd_free: a header and four "...%u KB\n" lines; vsprintf has no %u and
\* prints "%u" without taking the kilobyte count passed to it.
FreeOut ==
  <<Text(14)>> \o [i \in 1..4 |-> Call(Lit(11) \o <<"%", "u">> \o Lit(4), <<0>>)]

\* The printf calls execute_command makes for the parsed args: none for an
\* empty line; the builtin's; or launch_program's "command not found".
PrintfCalls(args) ==
  IF args = <<>> THEN <<>>
  ELSE LET a == args[1]
       IN  CASE a = <<"h","e","l","p">>         -> HelpOut
             [] a = EXIT                        -> <<Text(9)>>
             [] a = <<"c","l","e","a","r">>     -> <<Text(7)>>
             [] a = <<"l","s">>                 -> LsOut(args)
             [] a = CD                          -> CdOut(args)
             [] a = <<"p","w","d">>             -> <<Call(S \o Lit(1), <<FS!GetCurrentDirectory(vfs)>>)>>
             [] a = <<"c","a","t">>             -> CatOut(args)
             [] a = <<"e","c","h","o">>         -> EchoOut(args)
             [] a = <<"m","k","d","i","r">>     -> ArgOut(args, 2, 25, TRUE, 27, 2)
             [] a = RMDIR                       -> ArgOut(args, 2, 25, Len(args) >= 2 /\ RmFails(args), 25, 2)
             [] a = RM                          -> ArgOut(args, 2, 21, Len(args) >= 2 /\ RmFails(args), 19, 29)
             [] a \in {<<"c","p">>, <<"m","v">>} -> ArgOut(args, 3, 33, TRUE, 17, 2)
             [] a = <<"p","s">>                 -> <<Text(30), Text(29), Text(30), Text(28)>>
             [] a = <<"k","i","l","l">>         -> KillOut(args)
             [] a = <<"d","a","t","e">>         -> <<Text(29)>>
             [] a = <<"u","p","t","i","m","e">> -> <<Text(42)>>
             [] a = <<"f","r","e","e">>         -> FreeOut
             [] a = <<"u","n","a","m","e">>     -> <<Text(14)>>
             [] OTHER                           -> <<Call(Lit(26) \o S \o Lit(1), <<a>>)>>

\* shell_loop's printf("%s", PROMPT) before read_line.
Prompt == Call(S, <<Lit(6)>>)

-----------------------------------------------------------------------------
\* kernel_main's init_filesystem, then shell_main: shell_running = 1.
Init ==
  /\ FS!Init
  /\ input = <<>>
  /\ shell_running = TRUE

\* The user types a line and Enter while the shell waits in getchar.
Type(l) ==
  /\ shell_running /\ input = <<>>
  /\ input' = l \o <<NL>>
  /\ UNCHANGED <<vfs, shell_running>>

\* One iteration of shell_loop: read_line, parse_line, execute_command,
\* free(line), free(args), and the loop test.
ShellLoop ==
  LET r == ReadLine(input)
  IN  /\ shell_running /\ input # <<>>
      /\ input' = r.rest
      /\ ExecuteCommand(ParseLine(r.line))

Next == (\E l \in Lines : Type(l)) \/ ShellLoop

Spec == Init /\ [][Next]_vars

-----------------------------------------------------------------------------
TypeOK ==
  /\ FS!TypeOK
  /\ input \in Seq(STRING)
  /\ shell_running \in BOOLEAN

(* Every line read_line returns fits the MAX_COMMAND_LENGTH bytes it       *)
(* malloc'd, its '\0' included: the length test at shell.c:130 stops at    *)
(* position MAX_COMMAND_LENGTH - 1, so line[position] = '\0' is in bounds  *)
(* also for a line typed longer than the buffer.                           *)
ReadLineInBounds ==
  [][ShellLoop => Len(ReadLine(input).line) <= MAX_COMMAND_LENGTH - 1]_vars

(* Every printf a shell iteration makes fits printf's 1024-byte stack     *)
(* buffer, '\0' included: the prompt, and each call of the builtin the     *)
(* line names, or of launch_program.  vsprintf writes without a bound      *)
(* (stdio.c:13), so this rests on read_line cutting a line at              *)
(* MAX_COMMAND_LENGTH - 1 characters and on every %s argument being a     *)
(* token, a name, a path or file contents within their own bounds.        *)
PrintfFits ==
  [][ShellLoop =>
       LET calls == <<Prompt>> \o PrintfCalls(ParseLine(ReadLine(input).line))
       IN  \A i \in DOMAIN calls : PrintfFitsBuffer(calls[i])]_vars

(* The file system's tree stays well formed through any sequence of lines  *)
(* typed at the shell (VFS!TreeWellFormed).                                *)
TreeWellFormed == FS!TreeWellFormed

(* find_file resolves each path as the tree does, and ls lists each        *)
(* directory's live entries once, in every state the shell reaches         *)
(* (VFS!FindResolves).                                                     *)
FindResolves == FS!FindResolves

=============================================================================
