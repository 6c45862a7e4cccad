------------------------------ MODULE Cricket ------------------------------
(***************************************************************************)
(* 16-03-22-NIT-Cricket-Assignment: umpire, bowler, batsman and fielders    *)
(* play a match.  The ball is the open file "ball.txt": its descriptor goes *)
(* from the umpire to the bowler, the batsman and back (SCM_RIGHTS over unix*)
(* sockets), and all copies share one file offset.  Signals tell the umpire *)
(* that the bowler (SIGUSR1) and the batsman (SIGUSR2) did their part; runs *)
(* go to the umpire on the batsman's socket and to the fielders as raw IP   *)
(* packets, a catch comes back as a raw packet.                             *)
(*                                                                         *)
(* The processes are connected when the model starts.  SIGUSR2 sent to the  *)
(* bowler or the batsman only prints a line and is left out, and with it    *)
(* no_of_balls, which decides nothing else.                                 *)
(***************************************************************************)
EXTENDS Integers, Sequences

CONSTANTS Runs,         \* what the batsman can score; rand() % 41 in the code
          LastBatsman,  \* no_of_batsman at which the match ends; 11 in the code
          Fielders,     \* the fielder processes that run
          FielderNo,    \* their command-line numbers
          Late,         \* may the batsman need more than the 3 s of sigtimedwait?
          Fd,           \* a descriptor on a socket, as opposed to runs
          MaxBalls      \* bound: balls the umpire gives

ASSUME CricketAssumption ==
    /\ Runs \subseteq 0..40
    /\ LastBatsman \in Nat
    /\ FielderNo \in [Fielders -> 1..4]
    /\ Late \in BOOLEAN
    /\ Fd \notin Int
    /\ MaxBalls \in Nat

VARIABLES
    umpire,    \* where the umpire is in its loop
    wickets,   \* no_of_batsman
    score,
    outs,      \* "out" packets in the umpire's raw socket
    bowler,    \* where the bowler is in its loop
    bowlerIn,  \* descriptors sent to the bowler, not yet received
    pointer,   \* the bowler's saved file offset
    batsman,   \* where the batsman is in its loop
    batsmanIn, \* descriptors sent to the batsman, not yet received
    delivery,  \* <<speed, spin>> the batsman read: the balls that wrote them, 0 is -1
    shot,      \* the batsman's curr_runs
    stream,    \* batsman to umpire: runs and descriptors, in order
    file,      \* "ball.txt": which ball wrote each integer in it
    offset,    \* the offset every descriptor of the file shares
    box,       \* packets in each fielder's raw socket
    given, bowled, faced, \* history: balls sent by the umpire, received by the others
    timeouts,  \* history: times sigtimedwait failed
    unheard,   \* history: a SIGUSR1 found the umpire outside sigwait
    hit        \* history: what the boundaries hit so far are worth

umpireVars == <<umpire, wickets, score, outs, given, timeouts>>
bowlerVars == <<bowler, bowlerIn, pointer, bowled, unheard>>
batsmanVars == <<batsman, batsmanIn, delivery, shot, faced, hit>>
fileVars == <<file, offset>>
vars == <<umpireVars, bowlerVars, batsmanVars, fileVars, stream, box>>

UmpirePC == {"give", "given", "wait1", "bowled", "wait2", "expired", "read",
             "appeal", "recv", "stop", "stop2", "done"}
BowlerPC == {"recv", "mark", "speed", "spin", "rewind", "kill", "pass", "off"}
BatsmanPC == {"recv", "face", "speed", "spin", "write", "field", "send", "off"}

TypeOK ==
    /\ umpire \in UmpirePC
    /\ wickets \in 0..LastBatsman
    /\ score \in Nat /\ outs \in Nat /\ hit \in Nat
    /\ bowler \in BowlerPC
    /\ bowlerIn \in Nat /\ batsmanIn \in Nat
    /\ batsman \in BatsmanPC
    /\ delivery \in Nat \X Nat
    /\ shot \in Runs \cup {0}
    /\ stream \in Seq(Runs \cup {Fd})
    /\ file \in Seq(Nat)
    /\ offset \in 0..Len(file) /\ pointer \in 0..Len(file)
    /\ box \in [Fielders -> Seq(Runs)]
    /\ given \in Nat /\ bowled \in Nat /\ faced \in Nat /\ timeouts \in Nat
    /\ unheard \in BOOLEAN

Init ==
    /\ umpire = "give" /\ bowler = "recv" /\ batsman = "recv"
    /\ wickets = 0 /\ score = 0 /\ outs = 0 /\ hit = 0
    /\ bowlerIn = 0 /\ batsmanIn = 0
    /\ pointer = 0 /\ offset = 0 /\ file = <<>>
    /\ delivery = <<0, 0>> /\ shot = 0
    /\ stream = <<>> /\ box = [f \in Fielders |-> <<>>]
    /\ given = 0 /\ bowled = 0 /\ faced = 0 /\ timeouts = 0
    /\ unheard = FALSE

-----------------------------------------------------------------------------
(* The rules of the game *)

\* Runs nobody tries to catch.
Boundary(r) == r % 4 = 0 \/ r % 6 = 0

\* What they count for: 0 and multiples of 12 count 4.
Worth(r) == IF ~Boundary(r) THEN 0 ELSE IF r % 4 = 0 THEN 4 ELSE 6

left == <<0, 16, 26, 36>>
right == <<15, 25, 35, 40>>

\* A plausible slip: the ranges of two fielders leave a gap.
CatchesGap(n, r) == ~Boundary(r) /\ left[n] < r /\ r < right[n]

\* Fielder number n catches a shot of r runs.
Catches(n, r) == ~Boundary(r) /\ left[n] <= r /\ r <= right[n]

\* write() of one integer at offset i of the sequence of integers s.
WriteAt(s, i, x) == IF i < Len(s) THEN [s EXCEPT ![i + 1] = x] ELSE Append(s, x)

-----------------------------------------------------------------------------
(* Slips one could make in the actions below; the runs reject each of them *)

\* After a four or six the umpire does not wait for the ball to come back.
ReadRunsNoReturn ==
    /\ umpire = "read" /\ stream # <<>>
    /\ score' = score + Worth(Head(stream))
    /\ umpire' = IF Boundary(Head(stream)) THEN "give" ELSE "appeal"
    /\ stream' = Tail(stream)
    /\ UNCHANGED <<wickets, outs, given, timeouts, bowlerVars, batsmanVars, fileVars, box>>

\* Every multiple of 6 counts 6.
ReadRunsSixFirst ==
    /\ umpire = "read" /\ stream # <<>>
    /\ score' = score + IF Head(stream) % 6 = 0 THEN 6 ELSE Worth(Head(stream))
    /\ umpire' = IF Boundary(Head(stream)) THEN "recv" ELSE "appeal"
    /\ stream' = Tail(stream)
    /\ UNCHANGED <<wickets, outs, given, timeouts, bowlerVars, batsmanVars, fileVars, box>>

\* The umpire does not wait for the bowler's signal.
EnterSigwaitNot ==
    /\ umpire = "given"
    /\ umpire' = "bowled"
    /\ UNCHANGED <<wickets, score, outs, given, timeouts, bowlerVars, batsmanVars,
                   fileVars, stream, box>>

\* The bowler leaves the offset behind what it wrote.
RewindNot ==
    /\ bowler = "rewind"
    /\ bowler' = "kill"
    /\ UNCHANGED <<umpireVars, bowlerIn, pointer, bowled, unheard, batsmanVars,
                   fileVars, stream, box>>

\* The bowler does not signal the umpire.
BowlerKillNot ==
    /\ bowler = "kill"
    /\ bowler' = "pass"
    /\ UNCHANGED <<umpireVars, bowlerIn, pointer, bowled, unheard, batsmanVars,
                   fileVars, stream, box>>

-----------------------------------------------------------------------------
(* Umpire *)

\* send_fd to the bowler.
GiveBall ==
    /\ umpire = "give" /\ given < MaxBalls
    /\ bowlerIn' = bowlerIn + 1
    /\ given' = given + 1
    /\ umpire' = "given"
    /\ UNCHANGED <<wickets, score, outs, timeouts, bowler, pointer, bowled, unheard,
                   batsmanVars, fileVars, stream, box>>

\* The umpire is inside sigwait: only from now on is a SIGUSR1 not handled away.
EnterSigwait ==
    /\ umpire = "given"
    /\ umpire' = "wait1"
    /\ UNCHANGED <<wickets, score, outs, given, timeouts, bowlerVars, batsmanVars,
                   fileVars, stream, box>>

\* The same for sigtimedwait and SIGUSR2.
EnterSigtimedwait ==
    /\ umpire = "bowled"
    /\ umpire' = "wait2"
    /\ UNCHANGED <<wickets, score, outs, given, timeouts, bowlerVars, batsmanVars,
                   fileVars, stream, box>>

\* A SIGUSR2 is on its way to the umpire.
ResponseToCome == bowler = "pass" \/ batsmanIn > 0 \/ batsman = "face"

\* sigtimedwait fails.  Unless Late, the batsman's sleep of at most 2 s and what
\* the processes do around it fit in the 3 s.
Expire ==
    /\ umpire = "wait2"
    /\ Late \/ ~ResponseToCome
    /\ umpire' = "expired"
    /\ UNCHANGED <<wickets, score, outs, given, timeouts, bowlerVars, batsmanVars,
                   fileVars, stream, box>>

\* The last batsman ends the match, another one is replaced; the ball that is
\* still on its way is not waited for.
Timeout ==
    /\ umpire = "expired"
    /\ timeouts' = timeouts + 1
    /\ \/ /\ wickets = LastBatsman
          /\ umpire' = "stop" /\ wickets' = wickets
       \/ /\ wickets # LastBatsman
          /\ umpire' = "give" /\ wickets' = wickets + 1
    /\ UNCHANGED <<score, outs, given, bowlerVars, batsmanVars, fileVars, stream, box>>

ReadRuns ==
    /\ umpire = "read" /\ stream # <<>>
    /\ score' = score + Worth(Head(stream))
    /\ umpire' = IF Boundary(Head(stream)) THEN "recv" ELSE "appeal"
    /\ stream' = Tail(stream)
    /\ UNCHANGED <<wickets, outs, given, timeouts, bowlerVars, batsmanVars, fileVars, box>>

\* An "out" packet from a fielder.
Wicket ==
    /\ umpire = "appeal" /\ outs > 0
    /\ outs' = outs - 1
    /\ \/ /\ wickets = LastBatsman
          /\ umpire' = "stop" /\ wickets' = wickets
       \/ /\ wickets # LastBatsman
          /\ umpire' = "recv" /\ wickets' = wickets + 1
    /\ UNCHANGED <<score, given, timeouts, bowlerVars, batsmanVars, fileVars, stream, box>>

\* recv_fd from the batsman.
TakeBall ==
    /\ umpire = "recv" /\ stream # <<>>
    /\ stream' = Tail(stream)
    /\ umpire' = "give"
    /\ UNCHANGED <<wickets, score, outs, given, timeouts, bowlerVars, batsmanVars,
                   fileVars, box>>

\* SIGUSR1 ends the batsman, then the bowler, wherever they are.
StopBatsman ==
    /\ umpire = "stop"
    /\ umpire' = "stop2" /\ batsman' = "off"
    /\ UNCHANGED <<wickets, score, outs, given, timeouts, bowlerVars, batsmanIn,
                   delivery, shot, faced, hit, fileVars, stream, box>>

StopBowler ==
    /\ umpire = "stop2"
    /\ umpire' = "done" /\ bowler' = "off"
    /\ UNCHANGED <<wickets, score, outs, given, timeouts, bowlerIn, pointer, bowled,
                   unheard, batsmanVars, fileVars, stream, box>>

-----------------------------------------------------------------------------
(* Bowler *)

BowlerRecv ==
    /\ bowler = "recv" /\ bowlerIn > 0
    /\ bowlerIn' = bowlerIn - 1
    /\ bowled' = bowled + 1
    /\ bowler' = "mark"
    /\ UNCHANGED <<umpireVars, pointer, unheard, batsmanVars, fileVars, stream, box>>

Mark ==
    /\ bowler = "mark"
    /\ pointer' = offset
    /\ bowler' = "speed"
    /\ UNCHANGED <<umpireVars, bowlerIn, bowled, unheard, batsmanVars, fileVars, stream, box>>

\* speed, then spin; the batsman may move the offset in between.
WriteBall ==
    /\ \/ bowler = "speed" /\ bowler' = "spin"
       \/ bowler = "spin" /\ bowler' = "rewind"
    /\ file' = WriteAt(file, offset, bowled)
    /\ offset' = offset + 1
    /\ UNCHANGED <<umpireVars, bowlerIn, pointer, bowled, unheard, batsmanVars, stream, box>>

Rewind ==
    /\ bowler = "rewind"
    /\ offset' = pointer
    /\ bowler' = "kill"
    /\ UNCHANGED <<umpireVars, bowlerIn, pointer, bowled, unheard, batsmanVars,
                   file, stream, box>>

\* SIGUSR1 is not blocked in the umpire: outside sigwait its handler takes it,
\* and it makes sigtimedwait fail (EINTR).
BowlerKill ==
    /\ bowler = "kill"
    /\ umpire' = CASE umpire = "wait1" -> "bowled"
                   [] umpire = "wait2" -> "expired"
                   [] OTHER -> umpire
    /\ unheard' = (unheard \/ umpire # "wait1")
    /\ bowler' = "pass"
    /\ UNCHANGED <<wickets, score, outs, given, timeouts, bowlerIn, pointer, bowled,
                   batsmanVars, fileVars, stream, box>>

\* send_fd to the batsman; SIGPIPE ends the bowler when the batsman is gone.
PassBall ==
    /\ bowler = "pass"
    /\ \/ /\ batsman # "off"
          /\ bowler' = "recv" /\ batsmanIn' = batsmanIn + 1
       \/ /\ batsman = "off"
          /\ bowler' = "off" /\ batsmanIn' = batsmanIn
    /\ UNCHANGED <<umpireVars, bowlerIn, pointer, bowled, unheard, batsman, delivery,
                   shot, faced, hit, fileVars, stream, box>>

-----------------------------------------------------------------------------
(* Batsman *)

BatsmanRecv ==
    /\ batsman = "recv" /\ batsmanIn > 0
    /\ batsmanIn' = batsmanIn - 1
    /\ faced' = faced + 1
    /\ delivery' = <<0, 0>>
    /\ batsman' = "face"
    /\ UNCHANGED <<umpireVars, bowlerVars, shot, hit, fileVars, stream, box>>

\* After the sleep, SIGUSR2 to the umpire: lost outside sigtimedwait.
Respond ==
    /\ batsman = "face"
    /\ umpire' = IF umpire = "wait2" THEN "read" ELSE umpire
    /\ batsman' = "speed"
    /\ UNCHANGED <<wickets, score, outs, given, timeouts, bowlerVars, batsmanIn,
                   delivery, shot, faced, hit, fileVars, stream, box>>

\* read() of speed, then spin; nothing is read at the end of the file.
ReadBall ==
    /\ \/ batsman = "speed" /\ batsman' = "spin"
       \/ batsman = "spin" /\ batsman' = "write"
    /\ \/ /\ offset < Len(file)
          /\ delivery' = IF batsman = "speed" THEN <<file[offset + 1], delivery[2]>>
                                              ELSE <<delivery[1], file[offset + 1]>>
          /\ offset' = offset + 1
       \/ /\ offset = Len(file)
          /\ UNCHANGED <<delivery, offset>>
    /\ UNCHANGED <<umpireVars, bowlerVars, batsmanIn, shot, faced, hit, file, stream, box>>

WriteRuns ==
    /\ batsman = "write"
    /\ \E r \in Runs :
          /\ shot' = r
          /\ stream' = Append(stream, r)
          /\ hit' = hit + Worth(r)
    /\ batsman' = "field"
    /\ UNCHANGED <<umpireVars, bowlerVars, batsmanIn, delivery, faced, fileVars, box>>

\* The raw packet reaches every fielder.
TellFielders ==
    /\ batsman = "field"
    /\ box' = [f \in Fielders |-> Append(box[f], shot)]
    /\ batsman' = "send"
    /\ UNCHANGED <<umpireVars, bowlerVars, batsmanIn, delivery, shot, faced, hit,
                   fileVars, stream>>

\* send_fd to the umpire.
ReturnBall ==
    /\ batsman = "send"
    /\ stream' = Append(stream, Fd)
    /\ batsman' = "recv"
    /\ UNCHANGED <<umpireVars, bowlerVars, batsmanIn, delivery, shot, faced, hit,
                   fileVars, box>>

-----------------------------------------------------------------------------

Field(f) ==
    /\ box[f] # <<>>
    /\ box' = [box EXCEPT ![f] = Tail(@)]
    /\ outs' = IF Catches(FielderNo[f], Head(box[f])) THEN outs + 1 ELSE outs
    /\ UNCHANGED <<umpire, wickets, score, given, timeouts, bowlerVars, batsmanVars,
                   fileVars, stream>>

Umpire == GiveBall \/ EnterSigwait \/ EnterSigtimedwait \/ Expire \/ Timeout
            \/ ReadRuns \/ Wicket \/ TakeBall \/ StopBatsman \/ StopBowler

Bowler == BowlerRecv \/ Mark \/ WriteBall \/ Rewind \/ BowlerKill \/ PassBall

Batsman == BatsmanRecv \/ Respond \/ ReadBall \/ WriteRuns \/ TellFielders \/ ReturnBall

Next == Umpire \/ Bowler \/ Batsman \/ \E f \in Fielders : Field(f)

Spec == Init /\ [][Next]_vars

\* Every process runs on and every timer expires.
FairSpec == /\ Spec /\ WF_vars(Umpire) /\ WF_vars(Bowler) /\ WF_vars(Batsman)
            /\ \A f \in Fielders : WF_vars(Field(f))
=============================================================================
