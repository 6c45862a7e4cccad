--------------------------- MODULE MCConversations ---------------------------
(* The chat server, the popen server, inetd and the judge, one at a time. *)
EXTENDS Chat, PopenServer, Inetd, Judge, TLC

CONSTANTS h1, h2, h3,             \* chat
          m1, m2, w1, w2,         \* popen server
          echo, capital, clock, k1, k2, \* inetd
          r1, cut, torn, s1, s2   \* judge

VARIABLE program

vars == <<program, chatVars, popenVars, inetdVars, judgeVars>>

LineLimits == h1 :> 1 @@ h2 :> 2 @@ h3 :> 1

\* A blank line, one of a word, "exit", and lines of two words.
SomeLines ==
    {<<>>, <<"word">>, <<"exit">>, <<"word", "word">>, <<"word", "exit">>}

\* Records of text, one with a zero byte inside, one with a zero byte behind
\* "ENDING".
SomeStrings ==
    [r \in {r1, cut, torn, Ending, Blank, Starting} |->
        CASE r = cut -> "beginning" [] r = torn -> Ending [] OTHER -> r]

\* A file of no records, of one and of two, one with a record that reads
\* "ENDING", one with a record that begins with a zero byte.
SomeFiles == {<<>>, <<r1>>, <<r1, cut>>, <<cut, torn, r1>>, <<r1, cut, Blank, r1>>}

Init ==
    /\ program \in {"chat", "popen", "inetd", "judge"}
    /\ ChatInit /\ PopenInit /\ InetdInit /\ JudgeInit
    /\ program # "popen" => overlaid = FALSE
    /\ program # "inetd" => multi = FALSE

ChatStep == program = "chat" /\ ChatNext /\ UNCHANGED <<program, popenVars, inetdVars, judgeVars>>
PopenStep == program = "popen" /\ PopenNext /\ UNCHANGED <<program, chatVars, inetdVars, judgeVars>>
InetdStep == program = "inetd" /\ InetdNext /\ UNCHANGED <<program, chatVars, popenVars, judgeVars>>
JudgeStep == program = "judge" /\ JudgeNext /\ UNCHANGED <<program, chatVars, popenVars, inetdVars>>

Next == ChatStep \/ PopenStep \/ InetdStep \/ JudgeStep

Spec == Init /\ [][Next]_vars
=============================================================================
