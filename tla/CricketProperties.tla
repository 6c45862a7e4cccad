------------------------- MODULE CricketProperties -------------------------
(***************************************************************************)
(* What the match of 16-03-22-NIT-Cricket-Assignment should guarantee, and  *)
(* the inductive invariants behind it.                                     *)
(***************************************************************************)
EXTENDS Cricket, FiniteSets

Playing == umpire \notin {"stop", "stop2", "done"}

\* The ball is with the bowler, or on its way there.
WithBowler == bowlerIn + IF bowler \in {"recv", "off"} THEN 0 ELSE 1

WithBatsman == batsmanIn + IF batsman \in {"recv", "off"} THEN 0 ELSE 1

\* The bowler has not yet signalled the ball it has.
BowlerBusy == bowlerIn > 0 \/ bowler \in {"mark", "speed", "spin", "rewind", "kill"}

-----------------------------------------------------------------------------
(* Safety *)

\* As long as no wait timed out, the bowler and the batsman never have the file
\* at the same time, so neither moves the shared offset under the other
\* (umpire.c 315-382; nothing but the passing of the descriptor ensures it).
FileExclusive == Playing /\ timeouts = 0 => WithBowler + WithBatsman <= 1

\* Then what the batsman read is the speed and the spin of this very ball
\* (bowler.c 236-239 and batsman.c 294-295).
BallReadAsBowled ==
    Playing /\ timeouts = 0 /\ batsman \in {"write", "field", "send"} =>
       delivery = <<faced, faced>>

\* Where the umpire reads an int the batsman wrote an int, and where it
\* receives a descriptor the batsman sent one, timeouts or not: the socket has
\* no message boundaries to put a slip right (umpire.c 352 and 382).
StreamAligned ==
    /\ umpire = "read" /\ stream # <<>> => Head(stream) # Fd
    /\ umpire = "recv" /\ stream # <<>> => Head(stream) = Fd

\* The bowler signals only while the umpire is before or in sigwait: SIGUSR1
\* never cuts sigtimedwait short or ends up in a later ball (umpire.c 315-327).
SignalInTurn == Playing /\ BowlerBusy => umpire \in {"given", "wait1"}

\* The umpire waits for a signal the bowler will send, or missed it: nothing
\* else keeps the match from going on there.
NoVainWait == umpire \in {"given", "wait1"} /\ ~unheard => BowlerBusy

\* When the four fielders play, every shot that is no boundary is answered by
\* exactly one "out": those the umpire has to judge, or judges, are in its raw
\* socket, with a fielder, or about to be announced (fielder.c 121-135).
AllFielders == \A n \in 1..4 : \E f \in Fielders : {g \in Fielders : FielderNo[g] = n} = {f}

\* How many items of s are in A.
HowMany(s, A) == Cardinality({k \in 1..Len(s) : s[k] \in A})

Catchable == {r \in Runs : ~Boundary(r)}

FielderOf(n) == CHOOSE f \in Fielders : FielderNo[f] = n

CatchesIn(n) == HowMany(box[FielderOf(n)], {r \in Runs : Catches(n, r)})

OneOutPerCatch ==
    Playing /\ AllFielders =>
       HowMany(stream, Catchable) + (IF umpire = "appeal" THEN 1 ELSE 0)
         = outs + CatchesIn(1) + CatchesIn(2) + CatchesIn(3) + CatchesIn(4)
             + (IF batsman = "field" /\ shot \in Catchable THEN 1 ELSE 0)

\* Every boundary counts once, for the umpire or on its way to it, even when
\* the umpire stopped waiting for that ball (umpire.c 352-358).
BoundariesCount ==
    hit = score + 4 * HowMany(stream, {r \in Runs : Worth(r) = 4})
                + 6 * HowMany(stream, {r \in Runs : Worth(r) = 6})

-----------------------------------------------------------------------------
(* Why the safety properties hold: an inductive invariant *)

\* One ball at a time is on the bowler's side, and then the umpire waits for it.
TurnInv ==
    /\ BowlerBusy => umpire \in {"given", "wait1"}
    /\ bowlerIn > 0 => bowlerIn = 1 /\ bowler \in {"recv", "pass"}
    /\ batsman = "off" => umpire \in {"stop2", "done"}
    /\ bowler = "off" => umpire \in {"stop2", "done"}

\* 1 when the umpire read the runs of a ball and not yet its descriptor.
Phase == IF umpire \in {"appeal", "recv"} THEN 1 ELSE 0

\* 1 when the batsman wrote the runs of a ball and not yet its descriptor.
Half == IF batsman \in {"field", "send"} THEN 1 ELSE 0

\* Runs and descriptors alternate in the stream, and both ends know which is next.
StreamInv ==
    Playing =>
       /\ (Len(stream) + Phase) % 2 = Half
       /\ \A i \in 1..Len(stream) : stream[i] = Fd <=> (i + Phase) % 2 = 0

\* Copies of the ball are neither lost nor made, but by a timeout: twice their
\* number, since the stream holds one for every two messages.
CountInv ==
    Playing =>
       2 * (WithBowler + WithBatsman) + Len(stream) + Phase - Half
         + (IF umpire = "give" THEN 2 ELSE 0) = 2 + 2 * timeouts

\* Where in the file the ball is, as long as there is only one.
Written(i) == i \in 1..Len(file) /\ file[i] = bowled

FileInv ==
    Playing /\ timeouts = 0 =>
       /\ bowled = faced + batsmanIn + IF bowler \in {"recv", "off"} THEN 0 ELSE 1
       /\ bowler = "speed" => offset = pointer
       /\ bowler = "spin" => offset = pointer + 1 /\ Written(pointer + 1)
       /\ bowler = "rewind" => Written(pointer + 1) /\ Written(pointer + 2)
       /\ bowler \in {"kill", "pass"} \/ batsmanIn > 0 \/ batsman \in {"face", "speed"} =>
             Written(offset + 1) /\ Written(offset + 2)
       /\ batsman = "spin" => Written(offset + 1) /\ delivery[1] = bowled
       /\ batsman \in {"write", "field", "send"} => delivery = <<faced, faced>>

MatchInv == /\ batsman = "field" => shot \in Runs
            /\ TurnInv /\ NoVainWait /\ StreamInv /\ CountInv /\ FileInv

-----------------------------------------------------------------------------
(* Liveness, under FairSpec *)

\* A ball the umpire gave is settled: it comes back, times out or ends the
\* match, unless the bowler's signal for it was missed (umpire.c 315-389).
BallIsSettled ==
    AllFielders => (umpire = "given" ~> umpire \in {"give", "done"} \/ unheard)
=============================================================================
