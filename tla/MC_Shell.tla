------------------------------- MODULE MC_Shell -------------------------------
(* The shell on the file system after boot.  Lines are rm, rmdir and cd    *)
(* with absolute and relative paths, "." and "..", repeated and trailing   *)
(* slashes, a path through a regular file and one that names nothing; the  *)
(* argument-less and blank-padded forms; exit, a builtin that only prints  *)
(* and an unknown name; every builtin that only prints, with and without   *)
(* its arguments (kill with INT_MIN); and two echo lines typed longer      *)
(* than the line buffer, whose tails read_line leaves for the next line.   *)
EXTENDS Shell

MCSlots == 0..8

MCPaths ==
  { <<"/">>,
    <<".">>,
    <<".", ".">>,
    <<"t","m","p">>,
    <<"/","t","m","p","/">>,
    <<"/","/","b","i","n">>,
    <<"/","b","i","n","/",".",".","/","u","s","r">>,
    <<"R","E","A","D","M","E",".","t","x","t">>,
    <<"/","v","e","r","s","i","o","n",".","t","x","t","/",".",".">>,
    <<"/","e","t","c","/",".">> }

\* "echo", then blanks up to the 255th character, then "rm /tmp".
LongEcho == <<"e","c","h","o">> \o [i \in 1..251 |-> " "] \o <<"r","m"," ","/","t","m","p">>

\* "echo " and a 1030-character word, more than printf's buffer holds.
WideEcho == <<"e","c","h","o"," ">> \o [i \in 1..1030 |-> "x"]


\* The builtins that only print, each with and without its arguments.
PrintLines ==
  { <<"h","e","l","p">>,
    <<"p","w","d">>,
    <<"c","a","t"," ","R","E","A","D","M","E",".","t","x","t">>,
    <<"c","a","t"," ","/","v","e","r","s","i","o","n",".","t","x","t">>,
    <<"c","a","t"," ","/","b","i","n">>,
    <<"c","a","t">>,
    <<"l","s"," ","/","n","o","p","e">>,
    <<"l","s"," ","/">>,
    <<"e","c","h","o"," ","a"," "," ","b">>,
    <<"m","k","d","i","r"," ","x">>,
    <<"m","k","d","i","r">>,
    <<"c","p"," ","a"," ","b">>,
    <<"m","v"," ","a">>,
    <<"p","s">>,
    <<"k","i","l","l"," ","4","2">>,
    <<"k","i","l","l"," ","-","2","1","4","7","4","8","3","6","4","8">>,
    <<"k","i","l","l">>,
    <<"d","a","t","e">>,
    <<"u","p","t","i","m","e">>,
    <<"f","r","e","e">>,
    <<"u","n","a","m","e">>,
    <<"c","l","e","a","r">> }

MCLines ==
  { c \o <<" ">> \o p : c \in {CD, RM, RMDIR}, p \in MCPaths }
  \cup { CD, RM, EXIT, <<"l","s">>, <<"f","o","o">>, <<" ","\t","c","d"," "," ",".",".">>,
         LongEcho, WideEcho } \cup PrintLines
=============================================================================
