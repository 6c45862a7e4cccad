-------------------------------- MODULE Judge --------------------------------
(***************************************************************************)
(* 28-01-22-NITW-GDB: client.c sends a program to server.c, which saves it  *)
(* as P.cpp, compiles it, runs it on a test input and compares its output.  *)
(* One client is served at a time.                                          *)
(*                                                                         *)
(* A program travels in records of 128 bytes between one that reads         *)
(* "STARTING" and one that reads "ENDING".  The server takes a record as a C *)
(* string: Str is what strcmp, strlen and strcpy see of it, up to its first *)
(* zero byte.  So a record of a file may itself read "ENDING", and one that *)
(* begins with a zero byte looks like the end of the connection.  The zeros *)
(* and spaces a record is filled up with in P.cpp are left out.             *)
(***************************************************************************)
EXTENDS Integers, Sequences

CONSTANTS Submitters,
          Vanishers,  \* submitters whose user may end them at any time
          Files,      \* sequences of records; a file that cannot be opened is empty
          Ending,     \* the record "ENDING"
          Blank,      \* a record of zeros
          Starting,   \* the record "STARTING"
          Str,        \* the string each record begins with
          NoSubmitter

Records(f) == {f[k] : k \in 1..Len(f)}
Contents == UNION {Records(f) : f \in Files}
Sources == Seq(Contents)
Strings == {Str[r] : r \in Contents \cup {Starting, Ending, Blank}}
Programs == Seq(Strings)

ASSUME JudgeAssumption ==
    /\ Vanishers \subseteq Submitters /\ NoSubmitter \notin Submitters
    /\ Files \subseteq Sources /\ <<>> \in Files
    /\ Str[Ending] # Str[Blank] /\ Str[Starting] \notin {Str[Ending], Str[Blank]}

VARIABLES
    judge,      \* what the server is doing
    judged,     \* the submitter it serves: nsFD
    arrived,    \* connections it has not accepted
    toJudge,    \* records on their way to the server
    temp,       \* what recieveFile has read but not written
    programFile,\* P.cpp
    executable, \* the text P.exe was compiled from
    submitter,  \* what a client is doing
    request,    \* its first argument
    file,       \* the records of its second argument
    next,       \* records it has sent
    fromJudge,  \* messages on their way to it
    hung,       \* its connection is closed by the server
    inVain,     \* it has been written to after it was gone
    verdict     \* history: the programs its verdicts were about

judgeOnly == <<judge, judged, temp, programFile, executable>>
submitterOnly == <<submitter, request, file, next, verdict>>
judgeVars == <<judgeOnly, submitterOnly, arrived, toJudge, fromJudge, hung, inVain>>

Requests == {"program", "exit", "other"}

JudgeTypeOK ==
    /\ judge \in {"accept", "request", "start", "first", "record", "compile", "run",
                  "running", "done", "dead"}
    /\ judged \in Submitters \cup {NoSubmitter} /\ arrived \in Seq(Submitters)
    /\ temp \in Strings /\ programFile \in Programs /\ executable \in Programs
    /\ submitter \in [Submitters -> {"home", "asking", "sending", "awaiting", "over", "gone"}]
    /\ request \in [Submitters -> Requests] /\ file \in [Submitters -> Files]
    /\ next \in [Submitters -> Nat]
    /\ hung \in [Submitters -> BOOLEAN] /\ inVain \in [Submitters -> BOOLEAN]
    /\ verdict \in [Submitters -> Seq(Programs)]

JudgeInit ==
    /\ judge = "accept" /\ judged = NoSubmitter /\ arrived = <<>>
    /\ toJudge = [c \in Submitters |-> <<>>] /\ temp = Str[Blank]
    /\ programFile = <<>> /\ executable = <<>>
    /\ submitter = [c \in Submitters |-> "home"]
    /\ request = [c \in Submitters |-> "other"] /\ file = [c \in Submitters |-> <<>>]
    /\ next = [c \in Submitters |-> 0] /\ fromJudge = [c \in Submitters |-> <<>>]
    /\ hung = [c \in Submitters |-> FALSE] /\ inVain = [c \in Submitters |-> FALSE]
    /\ verdict = [c \in Submitters |-> <<>>]

-----------------------------------------------------------------------------
(* Server *)

\* send to the submitter: once it is gone the first may still succeed, the
\* second is SIGPIPE.
Reply(message, after) ==
    \/ /\ submitter[judged] # "gone" /\ judge' = after /\ UNCHANGED inVain
       /\ fromJudge' = [fromJudge EXCEPT ![judged] = Append(@, message)]
    \/ /\ submitter[judged] = "gone" /\ ~inVain[judged] /\ judge' = after
       /\ inVain' = [inVain EXCEPT ![judged] = TRUE] /\ UNCHANGED fromJudge
    \/ /\ submitter[judged] = "gone" /\ judge' = "dead" /\ UNCHANGED <<fromJudge, inVain>>

Accepts ==
    /\ judge = "accept" /\ arrived # <<>> /\ judge' = "request"
    /\ judged' = Head(arrived) /\ arrived' = Tail(arrived)
    /\ UNCHANGED <<temp, programFile, executable, submitterOnly, toJudge, fromJudge, hung,
                   inVain>>

\* The first read.  After "program" P.cpp is made empty; what is no request is
\* "INVALID", and the connection is left open.
ReadsRequest ==
    /\ judge = "request" /\ toJudge[judged] # <<>>
    /\ toJudge' = [toJudge EXCEPT ![judged] = Tail(@)]
    /\ LET asked == Head(toJudge[judged])
       IN  \/ asked = "program" /\ Reply("VALID", "start") /\ programFile' = <<>>
           \/ asked = "exit" /\ Reply("VALID", "done") /\ UNCHANGED programFile
           \/ /\ asked \notin {"program", "exit"} /\ Reply("INVALID", "accept")
              /\ UNCHANGED programFile
    /\ UNCHANGED <<judged, temp, executable, submitterOnly, arrived, hung>>

\* What read leaves in buff, which is blank at the end of the connection.
MayRead == toJudge[judged] # <<>> \/ submitter[judged] = "gone"
Buff == IF toJudge[judged] = <<>> THEN Blank ELSE Head(toJudge[judged])
ReadsAs(mark) == Str[Buff] = Str[mark]
Consume == toJudge' = [toJudge EXCEPT ![judged] = IF @ = <<>> THEN @ ELSE Tail(@)]

\* recieveFile up to its loop.
ReadsStart ==
    /\ judge = "start" /\ MayRead /\ Consume
    /\ judge' = IF ReadsAs(Starting) THEN "first" ELSE "compile"
    /\ UNCHANGED <<judged, temp, programFile, executable, submitterOnly, arrived, fromJudge,
                   hung, inVain>>

ReadsFirst ==
    /\ judge = "first" /\ MayRead /\ Consume
    /\ judge' = IF ReadsAs(Ending) THEN "compile" ELSE "record"
    /\ temp' = Str[Buff]
    /\ UNCHANGED <<judged, programFile, executable, submitterOnly, arrived, fromJudge, hung,
                   inVain>>

\* Mutant: the record before the last is not written.
ReadsRecordDropping ==
    /\ judge = "record" /\ MayRead /\ Consume
    /\ temp' = Str[Buff]
    /\ programFile' = IF ReadsAs(Blank) \/ ReadsAs(Ending) THEN programFile
                                                     ELSE Append(programFile, temp)
    /\ judge' = IF ReadsAs(Blank) \/ ReadsAs(Ending) THEN "compile" ELSE "record"
    /\ UNCHANGED <<judged, executable, submitterOnly, arrived, fromJudge, hung, inVain>>

\* The loop: what strcpy left of a record is written when the next has been
\* read, unless that is blank.
ReadsRecord ==
    /\ judge = "record" /\ MayRead /\ Consume
    /\ temp' = Str[Buff]
    /\ programFile' = IF ReadsAs(Blank) THEN programFile ELSE Append(programFile, temp)
    /\ judge' = IF ReadsAs(Blank) \/ ReadsAs(Ending) THEN "compile" ELSE "record"
    /\ UNCHANGED <<judged, executable, submitterOnly, arrived, fromJudge, hung, inVain>>

\* Mutant: the compiler's result is not looked at.
CompilesAnyway ==
    /\ judge = "compile" /\ judge' = "run"
    /\ \E ok \in BOOLEAN : executable' = IF ok THEN programFile ELSE executable
    /\ UNCHANGED <<judged, temp, programFile, submitterOnly, arrived, toJudge, fromJudge, hung,
                   inVain>>

\* compileProgram; an empty program does not link.
Compiles ==
    /\ judge = "compile" /\ programFile # <<>>
    /\ judge' = "run" /\ executable' = programFile
    /\ UNCHANGED <<judged, temp, programFile, submitterOnly, arrived, toJudge, fromJudge, hung,
                   inVain>>

Pass(message) == Reply(message, "accept") /\ hung' = [hung EXCEPT ![judged] = TRUE]

\* Then the message, and close.
CompileFails ==
    /\ judge = "compile" /\ Pass([kind |-> "error", of |-> programFile])
    /\ UNCHANGED <<judged, temp, programFile, executable, submitterOnly, arrived, toJudge>>

\* executeProgram and compareFiles, unless the program never ends.
Runs ==
    /\ judge = "run"
    /\ \/ judge' = "running" /\ UNCHANGED <<fromJudge, hung, inVain>>
       \/ \E kind \in {"passed", "failed"} : Pass([kind |-> kind, of |-> executable])
    /\ UNCHANGED <<judged, temp, programFile, executable, submitterOnly, arrived, toJudge>>

JudgeServer ==
    \/ Accepts \/ ReadsRequest \/ ReadsStart \/ ReadsFirst \/ ReadsRecord
    \/ Compiles \/ CompileFails \/ Runs

-----------------------------------------------------------------------------
(* Clients *)

Ended == judge \in {"done", "dead"}

\* connect and the request; a user who ends the client between the two makes a
\* request that is not valid.
Submits(c) ==
    /\ ~Ended /\ submitter[c] = "home"
    /\ submitter' = [submitter EXCEPT ![c] = "asking"]
    /\ arrived' = Append(arrived, c)
    /\ \E r \in Requests, f \in Files :
          /\ r # "program" => f = <<>>
          /\ request' = [request EXCEPT ![c] = r] /\ file' = [file EXCEPT ![c] = f]
          /\ toJudge' = [toJudge EXCEPT ![c] = <<r>>]
    /\ UNCHANGED <<judgeOnly, next, verdict, fromJudge, hung, inVain>>

\* The answer is printed and not looked at.
ReadsAnswer(c) ==
    /\ submitter[c] = "asking" /\ fromJudge[c] # <<>>
    /\ fromJudge' = [fromJudge EXCEPT ![c] = Tail(@)]
    /\ submitter' = [submitter EXCEPT ![c] = IF request[c] = "program" THEN "sending" ELSE "gone"]
    /\ UNCHANGED <<judgeOnly, request, file, next, verdict, arrived, toJudge, hung, inVain>>

\* sendProgram; a send after the server has closed is the end of the client, if
\* not at once then at the next.
SendsRecord(c) ==
    LET all == <<Starting>> \o file[c] \o <<Ending>>
    IN  /\ submitter[c] = "sending" /\ ~Ended
        /\ \/ /\ next' = [next EXCEPT ![c] = @ + 1]
              /\ toJudge' = [toJudge EXCEPT ![c] = IF hung[c] THEN @ ELSE Append(@, all[next'[c]])]
              /\ submitter' = [submitter EXCEPT ![c] = IF next'[c] = Len(all) THEN "awaiting" ELSE @]
           \/ /\ hung[c] /\ submitter' = [submitter EXCEPT ![c] = "gone"]
              /\ UNCHANGED <<next, toJudge>>
        /\ UNCHANGED <<judgeOnly, request, file, verdict, arrived, fromJudge, hung, inVain>>

ReadsVerdict(c) ==
    /\ submitter[c] = "awaiting" /\ fromJudge[c] # <<>>
    /\ fromJudge' = [fromJudge EXCEPT ![c] = Tail(@)]
    /\ verdict' = [verdict EXCEPT ![c] = Append(@, Head(fromJudge[c]).of)]
    /\ submitter' = [submitter EXCEPT ![c] = "gone"]
    /\ UNCHANGED <<judgeOnly, request, file, next, arrived, toJudge, hung, inVain>>

\* The server has ended: nothing more comes, or the next send fails.
IsCutOff(c) ==
    /\ Ended
    /\ submitter[c] = "sending" \/ (submitter[c] \in {"asking", "awaiting"} /\ fromJudge[c] = <<>>)
    /\ submitter' = [submitter EXCEPT ![c] = "over"]
    /\ UNCHANGED <<judgeOnly, request, file, next, verdict, arrived, toJudge, fromJudge, hung,
                   inVain>>

Vanishes(c) ==
    /\ c \in Vanishers /\ submitter[c] \in {"asking", "sending", "awaiting"}
    /\ submitter' = [submitter EXCEPT ![c] = "gone"]
    /\ UNCHANGED <<judgeOnly, request, file, next, verdict, arrived, toJudge, fromJudge, hung,
                   inVain>>

Submitter(c) ==
    Submits(c) \/ ReadsAnswer(c) \/ SendsRecord(c) \/ ReadsVerdict(c) \/ IsCutOff(c) \/ Vanishes(c)

JudgeNext == JudgeServer \/ \E c \in Submitters : Submitter(c)

JudgeSpec == JudgeInit /\ [][JudgeNext]_judgeVars

-----------------------------------------------------------------------------
(* Properties *)

\* A verdict is about the program the client that reads it sent.  What was
\* compiled, or run, is the records of its file in order, none left out or put
\* twice, each up to its first zero byte, and all of them unless one reads like
\* the mark or begins with a zero byte: a text file is judged as it is
\* (recieveFile, compileProgram and main of server.c, sendProgram of client.c).
JudgedAsSent ==
    \A c \in Submitters :
        \A v \in {verdict[c][k] : k \in 1..Len(verdict[c])} :
            /\ Len(v) <= Len(file[c]) /\ \A k \in 1..Len(v) : v[k] = Str[file[c][k]]
            /\ (\A r \in Records(file[c]) : Str[r] \notin {Str[Ending], Str[Blank]})
                  => Len(v) = Len(file[c])
=============================================================================
