---------------------------- MODULE CricketProofs ----------------------------
(***************************************************************************)
(* Proofs about the match: for any runs, number of batsmen, fielders and    *)
(* timing, missed signals and expired waits included.                       *)
(***************************************************************************)
EXTENDS CricketProperties, FunctionTheorems, FiniteSetTheorems, TLAPS

LEMMA SeqTypes ==
  ASSUME NEW S, NEW s \in Seq(S)
  PROVE  /\ Len(s) \in Nat
         /\ <<>> \in Seq(S)
         /\ s # <<>> => Head(s) \in S /\ Tail(s) \in Seq(S)
         /\ \A x \in S : Append(s, x) \in Seq(S)
  OBVIOUS

LEMMA WriteAtType ==
  ASSUME NEW s \in Seq(Nat), NEW i \in 0..Len(s), NEW x \in Nat
  PROVE  /\ WriteAt(s, i, x) \in Seq(Nat)
         /\ Len(WriteAt(s, i, x)) = IF i < Len(s) THEN Len(s) ELSE Len(s) + 1
         /\ WriteAt(s, i, x)[i + 1] = x
         /\ \A j \in 1..Len(s) : j # i + 1 => WriteAt(s, i, x)[j] = s[j]
  BY DEF WriteAt

LEMMA WorthType == \A r : Worth(r) \in Nat
  BY DEF Worth

\* Each shot that is no boundary is caught by exactly one fielder number
\* (fielder.c 107-108, 127-134).
THEOREM OneCatcher ==
  \A r \in 0..40 : ~Boundary(r) =>
     \E n \in 1..4 : \A k \in 1..4 : Catches(k, r) <=> k = n
  <1> TAKE r \in 0..40
  <1> HAVE ~Boundary(r)
  <1> DEFINE n == IF r <= 15 THEN 1 ELSE IF r <= 25 THEN 2 ELSE IF r <= 35 THEN 3 ELSE 4
  <1>1. \A k \in 1..4 : Catches(k, r) <=> k = n
    BY DEF Catches, left, right
  <1>. QED
    BY <1>1

-----------------------------------------------------------------------------

TypeInv == TypeOK /\ (batsman = "field" => shot \in Runs)

\* Every value of every variable stays in its set.
LEMMA InitType == Init => TypeInv
  <1>1. <<>> \in Seq(Runs \cup {Fd}) /\ <<>> \in Seq(Nat) /\ <<>> \in Seq(Runs)
    OBVIOUS
  <1>2. Init => box \in [Fielders -> Seq(Runs)]
    BY <1>1 DEF Init
  <1>3. Init => file \in Seq(Nat) /\ Len(file) = 0
    BY <1>1 DEF Init
  <1>4. Init => wickets \in 0..LastBatsman
    BY CricketAssumption DEF Init
  <1>5. Init => unheard \in BOOLEAN
    BY DEF Init
  <1>6. Init => offset \in 0..Len(file) /\ pointer \in 0..Len(file)
    BY <1>3 DEF Init
  <1>. QED
    BY <1>1, <1>2, <1>3, <1>4, <1>5, <1>6 DEF Init, TypeInv, TypeOK, UmpirePC, BowlerPC, BatsmanPC

LEMMA UmpireType == TypeInv /\ Umpire => TypeInv'
  <1> SUFFICES ASSUME TypeInv, Umpire PROVE TypeInv'
    OBVIOUS
  <1> USE DEF TypeInv, TypeOK, UmpirePC, umpireVars, bowlerVars, batsmanVars, fileVars
  <1>1. CASE GiveBall
    BY <1>1 DEF GiveBall
  <1>2. CASE EnterSigwait \/ EnterSigtimedwait \/ Expire
    BY <1>2 DEF EnterSigwait, EnterSigtimedwait, Expire
  <1>3. CASE Timeout
    BY <1>3, CricketAssumption DEF Timeout
  <1>4. CASE ReadRuns
    <2>1. stream' \in Seq(Runs \cup {Fd})
      BY <1>4, SeqTypes DEF ReadRuns
    <2>2. score' \in Nat
      BY <1>4, WorthType DEF ReadRuns
    <2>. QED
      BY <1>4, <2>1, <2>2 DEF ReadRuns
  <1>5. CASE Wicket
    BY <1>5, CricketAssumption DEF Wicket
  <1>6. CASE TakeBall
    <2>1. stream' \in Seq(Runs \cup {Fd})
      BY <1>6, SeqTypes DEF TakeBall
    <2>. QED
      BY <1>6, <2>1 DEF TakeBall
  <1>7. CASE StopBatsman \/ StopBowler
    BY <1>7 DEF StopBatsman, StopBowler, BatsmanPC, BowlerPC
  <1>. QED
    BY <1>1, <1>2, <1>3, <1>4, <1>5, <1>6, <1>7 DEF Umpire

LEMMA BowlerType == TypeInv /\ Bowler => TypeInv'
  <1> SUFFICES ASSUME TypeInv, Bowler PROVE TypeInv'
    OBVIOUS
  <1> USE DEF TypeInv, TypeOK, BowlerPC, umpireVars, bowlerVars, batsmanVars, fileVars
  <1>1. CASE BowlerRecv
    BY <1>1 DEF BowlerRecv
  <1>2. CASE Mark \/ Rewind
    BY <1>2 DEF Mark, Rewind
  <1>3. CASE WriteBall
    <2>1. /\ file' \in Seq(Nat)
          /\ Len(file') = IF offset < Len(file) THEN Len(file) ELSE Len(file) + 1
      BY <1>3, WriteAtType DEF WriteBall
    <2>2. offset' \in 0..Len(file') /\ pointer' \in 0..Len(file')
      BY <1>3, <2>1, SeqTypes DEF WriteBall
    <2>. QED
      BY <1>3, <2>1, <2>2 DEF WriteBall
  <1>4. CASE BowlerKill
    BY <1>4 DEF BowlerKill, UmpirePC
  <1>5. CASE PassBall
    BY <1>5 DEF PassBall
  <1>. QED
    BY <1>1, <1>2, <1>3, <1>4, <1>5 DEF Bowler

LEMMA BatsmanType == TypeInv /\ Batsman => TypeInv'
  <1> SUFFICES ASSUME TypeInv, Batsman PROVE TypeInv'
    OBVIOUS
  <1> USE DEF TypeInv, TypeOK, BatsmanPC, umpireVars, bowlerVars, batsmanVars, fileVars
  <1>1. CASE BatsmanRecv
    BY <1>1 DEF BatsmanRecv
  <1>2. CASE Respond
    BY <1>2 DEF Respond, UmpirePC
  <1>3. CASE ReadBall
    <2>1. offset < Len(file) => file[offset + 1] \in Nat
      BY SeqTypes
    <2>2. delivery' \in Nat \X Nat /\ offset' \in 0..Len(file)
      BY <1>3, <2>1, SeqTypes DEF ReadBall
    <2>. QED
      BY <1>3, <2>2 DEF ReadBall
  <1>4. CASE WriteRuns
    <2>1. stream' \in Seq(Runs \cup {Fd}) /\ hit' \in Nat
      BY <1>4, SeqTypes, WorthType DEF WriteRuns
    <2>. QED
      BY <1>4, <2>1 DEF WriteRuns
  <1>5. CASE TellFielders
    <2>1. box' \in [Fielders -> Seq(Runs)]
      BY <1>5, SeqTypes DEF TellFielders
    <2>. QED
      BY <1>5, <2>1 DEF TellFielders
  <1>6. CASE ReturnBall
    <2>1. stream' \in Seq(Runs \cup {Fd})
      BY <1>6, SeqTypes DEF ReturnBall
    <2>. QED
      BY <1>6, <2>1 DEF ReturnBall
  <1>. QED
    BY <1>1, <1>2, <1>3, <1>4, <1>5, <1>6 DEF Batsman

LEMMA FieldType == TypeInv /\ (\E f \in Fielders : Field(f)) => TypeInv'
  <1> SUFFICES ASSUME TypeInv, NEW f \in Fielders, Field(f) PROVE TypeInv'
    OBVIOUS
  <1> USE DEF TypeInv, TypeOK
  <1>1. box' \in [Fielders -> Seq(Runs)]
    BY SeqTypes DEF Field
  <1>. QED
    BY <1>1 DEF Field, bowlerVars, batsmanVars, fileVars

LEMMA StepType == TypeInv /\ [Next]_vars => TypeInv'
  <1>1. TypeInv /\ UNCHANGED vars => TypeInv'
    BY DEF TypeInv, TypeOK, vars, umpireVars, bowlerVars, batsmanVars, fileVars
  <1>. QED
    BY <1>1, UmpireType, BowlerType, BatsmanType, FieldType DEF Next

THEOREM TypeCorrect == Spec => []TypeOK
  <1>1. TypeInv => TypeOK
    BY DEF TypeInv
  <1>. QED
    BY <1>1, InitType, StepType, PTL DEF Spec

-----------------------------------------------------------------------------
(* Signals: one ball at a time is on the bowler's side *)

LEMMA TurnStep ==
  TypeInv /\ TurnInv /\ NoVainWait /\ [Next]_vars => TurnInv' /\ NoVainWait'
  <1> SUFFICES ASSUME TypeInv, TurnInv, NoVainWait, [Next]_vars
               PROVE  TurnInv' /\ NoVainWait'
    OBVIOUS
  <1> USE DEF TypeInv, TypeOK, TurnInv, NoVainWait, BowlerBusy, BowlerPC,
              umpireVars, bowlerVars, batsmanVars
  <1>1. CASE UNCHANGED vars
    BY <1>1 DEF vars
  <1>2. CASE GiveBall
    BY <1>2 DEF GiveBall
  <1>3. CASE EnterSigwait \/ EnterSigtimedwait \/ Expire \/ Timeout
    BY <1>3 DEF EnterSigwait, EnterSigtimedwait, Expire, Timeout
  <1>4. CASE ReadRuns \/ Wicket \/ TakeBall
    BY <1>4 DEF ReadRuns, Wicket, TakeBall
  <1>5. CASE StopBatsman \/ StopBowler
    BY <1>5 DEF StopBatsman, StopBowler
  <1>6. CASE BowlerRecv
    BY <1>6 DEF BowlerRecv
  <1>7. CASE Mark \/ WriteBall \/ Rewind
    BY <1>7 DEF Mark, WriteBall, Rewind
  <1>8. CASE BowlerKill
    BY <1>8 DEF BowlerKill
  <1>9. CASE PassBall
    BY <1>9 DEF PassBall
  <1>10. CASE Batsman
    BY <1>10 DEF Batsman, BatsmanRecv, Respond, ReadBall, WriteRuns, TellFielders, ReturnBall
  <1>11. CASE \E f \in Fielders : Field(f)
    BY <1>11 DEF Field
  <1>. QED
    BY <1>1, <1>2, <1>3, <1>4, <1>5, <1>6, <1>7, <1>8, <1>9, <1>10, <1>11
       DEF Next, Umpire, Bowler

-----------------------------------------------------------------------------
(* The stream from the batsman to the umpire *)

\* The parts of the state StreamInv and CountInv speak of.
streamVars == <<stream, Phase, Half, Playing>>

LEMMA StreamUnchanged == StreamInv /\ UNCHANGED streamVars => StreamInv'
  BY DEF StreamInv, streamVars

LEMMA StreamStep == TypeInv /\ TurnInv /\ StreamInv /\ [Next]_vars => StreamInv'
  <1> SUFFICES ASSUME TypeInv, TurnInv, StreamInv, [Next]_vars PROVE StreamInv'
    OBVIOUS
  <1> USE DEF umpireVars, bowlerVars, batsmanVars, fileVars
  <1>1. CASE UNCHANGED vars
    BY <1>1, StreamUnchanged DEF vars, streamVars, Phase, Half, Playing
  <1>2. CASE GiveBall \/ EnterSigwait \/ EnterSigtimedwait \/ Expire \/ Timeout
    <2>1. UNCHANGED <<stream, Phase, Half>> /\ (Playing' => Playing)
      BY <1>2 DEF GiveBall, EnterSigwait, EnterSigtimedwait, Expire, Timeout,
                  Phase, Half, Playing
    <2>. QED
      BY <2>1 DEF StreamInv
  <1>3. CASE ReadRuns
    <2>1. /\ Playing /\ Phase = 0 /\ Phase' = 1 /\ Half' = Half
          /\ stream # <<>> /\ stream' = Tail(stream)
      BY <1>3 DEF ReadRuns, Phase, Half, Playing
    <2>2. /\ Len(stream') = Len(stream) - 1
          /\ \A i \in 1..Len(stream') : i + 1 \in 1..Len(stream) /\ stream'[i] = stream[i + 1]
      BY <2>1 DEF TypeInv, TypeOK
    <2>. QED
      BY <2>1, <2>2, SeqTypes DEF StreamInv, TypeInv, TypeOK
  <1>4. CASE Wicket
    <2>1. UNCHANGED <<stream, Half>> /\ (Playing' => Phase' = Phase) /\ Playing
      BY <1>4 DEF Wicket, Phase, Half, Playing
    <2>. QED
      BY <2>1 DEF StreamInv
  <1>5. CASE TakeBall
    <2>1. /\ Playing /\ Phase = 1 /\ Phase' = 0 /\ Half' = Half
          /\ stream # <<>> /\ stream' = Tail(stream)
      BY <1>5 DEF TakeBall, Phase, Half, Playing
    <2>2. /\ Len(stream') = Len(stream) - 1
          /\ \A i \in 1..Len(stream') : i + 1 \in 1..Len(stream) /\ stream'[i] = stream[i + 1]
      BY <2>1 DEF TypeInv, TypeOK
    <2>. QED
      BY <2>1, <2>2, SeqTypes DEF StreamInv, TypeInv, TypeOK
  <1>6. CASE StopBatsman \/ StopBowler
    BY <1>6 DEF StopBatsman, StopBowler, StreamInv, Playing
  <1>7. CASE BowlerRecv \/ Mark \/ WriteBall \/ Rewind \/ PassBall
    BY <1>7, StreamUnchanged DEF BowlerRecv, Mark, WriteBall, Rewind, PassBall,
       streamVars, Phase, Half, Playing
  <1>8. CASE BowlerKill
    <2>1. UNCHANGED streamVars
      BY <1>8 DEF BowlerKill, TurnInv, BowlerBusy, streamVars, Phase, Half, Playing
    <2>. QED
      BY <2>1, StreamUnchanged
  <1>9. CASE BatsmanRecv \/ Respond \/ ReadBall \/ TellFielders
    <2>1. UNCHANGED streamVars
      BY <1>9 DEF BatsmanRecv, Respond, ReadBall, TellFielders, streamVars, Phase, Half, Playing
    <2>. QED
      BY <2>1, StreamUnchanged
  <1>10. CASE WriteRuns
    <2>1. PICK r \in Runs : stream' = Append(stream, r)
      BY <1>10 DEF WriteRuns
    <2>2. r # Fd
      BY CricketAssumption
    <2>3. Half = 0 /\ Half' = 1 /\ Phase' = Phase /\ Playing' = Playing
      BY <1>10 DEF WriteRuns, Phase, Half, Playing
    <2>4. /\ Len(stream') = Len(stream) + 1 /\ stream'[Len(stream) + 1] = r
          /\ \A i \in 1..Len(stream) : stream'[i] = stream[i]
      BY <2>1 DEF TypeInv, TypeOK
    <2>5. Len(stream) \in Nat /\ Phase \in {0, 1}
      BY SeqTypes DEF TypeInv, TypeOK, Phase
    <2>6. Playing => (Len(stream) + Phase) % 2 = 0 /\ (Len(stream) + 1 + Phase) % 2 = 1
      BY <2>3, <2>5 DEF StreamInv
    <2>7. ASSUME Playing, NEW i \in 1..Len(stream')
          PROVE  stream'[i] = Fd <=> (i + Phase) % 2 = 0
      <3>1. CASE i \in 1..Len(stream)
        BY <2>4, <2>7, <3>1 DEF StreamInv
      <3>2. CASE i = Len(stream) + 1
        BY <2>2, <2>4, <2>6, <2>7, <3>2
      <3>. QED
        BY <2>4, <2>5, <3>1, <3>2
    <2>. QED
      BY <2>3, <2>4, <2>6, <2>7 DEF StreamInv
  <1>11. CASE ReturnBall
    <2>3. Half = 1 /\ Half' = 0 /\ Phase' = Phase /\ Playing' = Playing
      BY <1>11 DEF ReturnBall, Phase, Half, Playing
    <2>4. /\ Len(stream') = Len(stream) + 1 /\ stream'[Len(stream) + 1] = Fd
          /\ \A i \in 1..Len(stream) : stream'[i] = stream[i]
      BY <1>11 DEF ReturnBall, TypeInv, TypeOK
    <2>5. Len(stream) \in Nat /\ Phase \in {0, 1}
      BY SeqTypes DEF TypeInv, TypeOK, Phase
    <2>. QED
      BY <2>3, <2>4, <2>5 DEF StreamInv
  <1>12. CASE \E f \in Fielders : Field(f)
    BY <1>12, StreamUnchanged DEF Field, streamVars, Phase, Half, Playing
  <1>. QED
    BY <1>1, <1>2, <1>3, <1>4, <1>5, <1>6, <1>7, <1>8, <1>9, <1>10, <1>11, <1>12
       DEF Next, Umpire, Bowler, Batsman

-----------------------------------------------------------------------------
(* Copies of the ball *)

LEMMA CountStep ==
  TypeInv /\ TurnInv /\ CountInv /\ [Next]_vars => CountInv'
  <1> SUFFICES ASSUME TypeInv, TurnInv, CountInv, [Next]_vars PROVE CountInv'
    OBVIOUS
  <1> USE DEF umpireVars, bowlerVars, batsmanVars, fileVars
  <1>t. /\ Len(stream) \in Nat
        /\ stream # <<>> => Len(Tail(stream)) = Len(stream) - 1
        /\ \A r \in Runs \cup {Fd} : Len(Append(stream, r)) = Len(stream) + 1
        /\ bowlerIn \in Nat /\ batsmanIn \in Nat /\ timeouts \in Nat
    BY SeqTypes DEF TypeInv, TypeOK
  <1>b. WithBowler \in Nat /\ WithBatsman \in Nat
    BY <1>t DEF WithBowler, WithBatsman
  <1>u. UNCHANGED <<WithBowler + WithBatsman, stream, Phase, Half, umpire, timeouts>> => CountInv'
    BY DEF CountInv, Playing
  <1>1. CASE UNCHANGED vars
    BY <1>1 DEF vars, CountInv, Playing, WithBowler, WithBatsman, Phase, Half
  <1>2. CASE GiveBall
    BY <1>2, <1>t DEF GiveBall,
       CountInv, Playing, WithBowler, WithBatsman, Phase, Half
  <1>3. CASE EnterSigwait \/ EnterSigtimedwait \/ Expire
    BY <1>3, <1>t DEF EnterSigwait, EnterSigtimedwait, Expire,
       CountInv, Playing, WithBowler, WithBatsman, Phase, Half
  <1>4. CASE Timeout
    BY <1>4, <1>t DEF Timeout,
       CountInv, Playing, WithBowler, WithBatsman, Phase, Half
  <1>5. CASE ReadRuns
    BY <1>5, <1>t DEF ReadRuns,
       CountInv, Playing, WithBowler, WithBatsman, Phase, Half
  <1>6. CASE Wicket
    BY <1>6, <1>t DEF Wicket,
       CountInv, Playing, WithBowler, WithBatsman, Phase, Half
  <1>7. CASE TakeBall
    BY <1>7, <1>t DEF TakeBall,
       CountInv, Playing, WithBowler, WithBatsman, Phase, Half
  <1>8. CASE StopBatsman \/ StopBowler
    BY <1>8 DEF StopBatsman, StopBowler, CountInv, Playing
  <1>9. CASE BowlerRecv
    <2>1. WithBowler' = WithBowler /\ WithBatsman' = WithBatsman
      BY <1>9, <1>t DEF BowlerRecv, WithBowler, WithBatsman
    <2>. QED
      BY <1>9, <1>u, <2>1 DEF BowlerRecv, Phase, Half
  <1>10. CASE Mark \/ WriteBall \/ Rewind
    BY <1>10, <1>t DEF Mark, WriteBall, Rewind,
       CountInv, Playing, WithBowler, WithBatsman, Phase, Half
  <1>11. CASE BowlerKill
    BY <1>11, <1>t DEF BowlerKill, TurnInv, BowlerBusy,
       CountInv, Playing, WithBowler, WithBatsman, Phase, Half
  <1>12. CASE PassBall
    <2>1. CASE batsman = "off"
      BY <1>12, <2>1 DEF PassBall, TurnInv, CountInv, Playing
    <2>2. CASE batsman # "off"
      <3>1. WithBowler' = WithBowler - 1 /\ WithBatsman' = WithBatsman + 1
        BY <1>12, <1>t, <2>2 DEF PassBall, WithBowler, WithBatsman
      <3>. QED
        BY <1>12, <1>b, <1>u, <2>2, <3>1 DEF PassBall, Phase, Half
    <2>. QED
      BY <2>1, <2>2
  <1>13. CASE BatsmanRecv
    <2>1. WithBowler' = WithBowler /\ WithBatsman' = WithBatsman
      BY <1>13, <1>t DEF BatsmanRecv, WithBowler, WithBatsman
    <2>. QED
      BY <1>13, <1>u, <2>1 DEF BatsmanRecv, Phase, Half
  <1>14. CASE Respond
    BY <1>14, <1>t DEF Respond,
       CountInv, Playing, WithBowler, WithBatsman, Phase, Half
  <1>15. CASE ReadBall \/ TellFielders
    BY <1>15, <1>t DEF ReadBall, TellFielders,
       CountInv, Playing, WithBowler, WithBatsman, Phase, Half
  <1>16. CASE WriteRuns
    BY <1>16, <1>t DEF WriteRuns,
       CountInv, Playing, WithBowler, WithBatsman, Phase, Half
  <1>17. CASE ReturnBall
    BY <1>17, <1>t DEF ReturnBall,
       CountInv, Playing, WithBowler, WithBatsman, Phase, Half
  <1>18. CASE \E f \in Fielders : Field(f)
    BY <1>18, <1>t DEF Field,
       CountInv, Playing, WithBowler, WithBatsman, Phase, Half
  <1>. QED
    BY <1>1, <1>2, <1>3, <1>4, <1>5, <1>6, <1>7, <1>8, <1>9, <1>10, <1>11, <1>12,
       <1>13, <1>14, <1>15, <1>16, <1>17, <1>18 DEF Next, Umpire, Bowler, Batsman

\* With no timeout the bowler and the batsman have at most one copy.
LEMMA OneCopy == TypeInv /\ StreamInv /\ CountInv => FileExclusive
  <1> SUFFICES ASSUME TypeInv, StreamInv, CountInv, Playing, timeouts = 0
               PROVE  WithBowler + WithBatsman <= 1
    BY DEF FileExclusive
  <1>1. /\ Len(stream) \in Nat /\ Phase \in {0, 1} /\ Half \in {0, 1}
        /\ WithBowler \in Nat /\ WithBatsman \in Nat
    BY SeqTypes DEF TypeInv, TypeOK, Phase, Half, WithBowler, WithBatsman
  <1>2. Len(stream) + Phase - Half >= 0
    BY <1>1 DEF StreamInv
  <1>3. 2 * (WithBowler + WithBatsman) <= 2
    BY <1>1, <1>2 DEF CountInv
  <1>. QED
    BY <1>1, <1>3

-----------------------------------------------------------------------------
(* The contents of the file *)

LEMMA FileStep ==
  TypeInv /\ TurnInv /\ FileExclusive /\ FileInv /\ [Next]_vars => FileInv'
  <1> SUFFICES ASSUME TypeInv, TurnInv, FileExclusive, FileInv, [Next]_vars,
                      Playing', timeouts' = 0
               PROVE  FileInv'
    BY DEF FileInv
  <1> USE DEF umpireVars, bowlerVars, batsmanVars, fileVars
  <1>p. Playing /\ timeouts = 0
    <2>t. timeouts \in Nat
      BY DEF TypeInv, TypeOK
    <2>1. CASE Umpire
      <3>1. ~Timeout /\ ~StopBatsman /\ ~StopBowler
        BY <2>t DEF Timeout, StopBatsman, StopBowler, Playing
      <3>. QED
        BY <2>1, <3>1 DEF Umpire, GiveBall, EnterSigwait, EnterSigtimedwait, Expire,
           ReadRuns, Wicket, TakeBall, Playing
    <2>2. CASE Bowler
      BY <2>2 DEF Bowler, BowlerRecv, Mark, WriteBall, Rewind, BowlerKill, PassBall, Playing
    <2>3. CASE Batsman
      BY <2>3 DEF Batsman, BatsmanRecv, Respond, ReadBall, WriteRuns, TellFielders,
         ReturnBall, Playing
    <2>. QED
      BY <2>1, <2>2, <2>3 DEF Next, Field, vars, Playing
  <1>e. WithBowler + WithBatsman <= 1
    BY <1>p DEF FileExclusive
  <1>t. /\ Len(file) \in Nat /\ offset \in 0..Len(file) /\ pointer \in 0..Len(file)
        /\ bowlerIn \in Nat /\ batsmanIn \in Nat /\ bowled \in Nat /\ faced \in Nat
        /\ file \in Seq(Nat)
    BY SeqTypes DEF TypeInv, TypeOK
  <1>1. CASE UNCHANGED vars
    BY <1>1, <1>p DEF vars, FileInv, Written
  <1>2. CASE Umpire
    <2>1. /\ UNCHANGED <<bowled, faced, batsmanIn, bowler, offset, pointer, file, batsman, delivery>>
      BY <1>2, <1>p DEF Umpire, GiveBall, EnterSigwait, EnterSigtimedwait, Expire, Timeout,
         ReadRuns, Wicket, TakeBall, StopBatsman, StopBowler, Playing
    <2>. QED
      BY <2>1, <1>p DEF FileInv, Written
  <1>3. CASE BowlerRecv
    BY <1>3, <1>p, <1>e, <1>t DEF BowlerRecv, FileInv, Written, WithBowler, WithBatsman
  <1>4. CASE Mark
    BY <1>4, <1>p, <1>e, <1>t DEF Mark, FileInv, Written, WithBowler, WithBatsman
  <1>5. CASE WriteBall
    <2>1. batsmanIn = 0 /\ batsman \in {"recv", "off"}
      BY <1>5, <1>e, <1>t DEF WriteBall, WithBowler, WithBatsman
    <2>2. /\ Len(file') = IF offset < Len(file) THEN Len(file) ELSE Len(file) + 1
          /\ file'[offset + 1] = bowled
          /\ \A j \in 1..Len(file) : j # offset + 1 => file'[j] = file[j]
      BY <1>5, <1>t, WriteAtType DEF WriteBall
    <2>. QED
      BY <1>5, <1>p, <1>t, <2>1, <2>2 DEF WriteBall, FileInv, Written
  <1>6. CASE Rewind
    BY <1>6, <1>p, <1>e, <1>t DEF Rewind, FileInv, Written, WithBowler, WithBatsman
  <1>7. CASE BowlerKill
    BY <1>7, <1>p, <1>e, <1>t DEF BowlerKill, FileInv, Written
  <1>8. CASE PassBall
    <2>1. batsman # "off"
      BY <1>p DEF TurnInv, Playing
    <2>2. batsmanIn = 0 /\ batsman = "recv"
      BY <1>8, <1>e, <1>t, <2>1 DEF PassBall, WithBowler, WithBatsman
    <2>. QED
      BY <1>8, <1>p, <1>t, <2>1, <2>2 DEF PassBall, FileInv, Written
  <1>9. CASE BatsmanRecv
    BY <1>9, <1>p, <1>e, <1>t DEF BatsmanRecv, FileInv, Written, WithBowler, WithBatsman
  <1>10. CASE Respond
    BY <1>10, <1>p, <1>t DEF Respond, FileInv, Written
  <1>11. CASE ReadBall
    <2>1. bowler \in {"recv", "off"} /\ batsmanIn = 0
      BY <1>11, <1>e, <1>t DEF ReadBall, WithBowler, WithBatsman
    <2>2. CASE batsman = "speed"
      <3>1. Written(offset + 1) /\ Written(offset + 2)
        BY <1>p, <2>2 DEF FileInv
      <3>2. offset < Len(file) /\ file[offset + 1] = bowled
        BY <1>t, <3>1 DEF Written
      <3>3. batsman' = "spin" /\ offset' = offset + 1 /\ delivery'[1] = bowled
        BY <1>11, <1>t, <2>2, <3>2 DEF ReadBall
      <3>4. Written(offset + 2) /\ (offset + 1) + 1 = offset + 2
        BY <1>t, <3>1
      <3>5. Written(offset + 1)'
        BY <1>11, <3>3, <3>4 DEF ReadBall, Written
      <3>. QED
        BY <1>11, <1>p, <1>t, <2>1, <2>2, <3>3, <3>5 DEF ReadBall, FileInv
    <2>3. CASE batsman = "spin"
      <3>1. offset < Len(file) /\ file[offset + 1] = bowled /\ delivery[1] = bowled
        BY <1>p, <1>t, <2>3 DEF FileInv, Written
      <3>2. bowled = faced
        BY <1>p, <1>t, <2>1 DEF FileInv
      <3>3. batsman' = "write" /\ delivery' = <<faced, faced>>
        BY <1>11, <2>3, <3>1, <3>2, <1>t DEF ReadBall
      <3>. QED
        BY <1>11, <1>p, <1>t, <2>1, <2>3, <3>2, <3>3 DEF ReadBall, FileInv
    <2>. QED
      BY <1>11, <2>2, <2>3 DEF ReadBall
  <1>12. CASE WriteRuns \/ TellFielders \/ ReturnBall
    BY <1>12, <1>p, <1>t DEF WriteRuns, TellFielders, ReturnBall, FileInv, Written
  <1>13. CASE \E f \in Fielders : Field(f)
    BY <1>13, <1>p DEF Field, FileInv, Written
  <1>. QED
    BY <1>1, <1>2, <1>3, <1>4, <1>5, <1>6, <1>7, <1>8, <1>9, <1>10, <1>11, <1>12, <1>13
       DEF Next, Bowler, Batsman

-----------------------------------------------------------------------------
(* The safety properties *)

LEMMA InitMatch == Init => MatchInv
  <1> SUFFICES ASSUME Init PROVE MatchInv
    OBVIOUS
  <1>1. TurnInv /\ NoVainWait
    BY DEF Init, TurnInv, NoVainWait, BowlerBusy
  <1>2. Len(stream) = 0 /\ Phase = 0 /\ Half = 0 /\ WithBowler = 0 /\ WithBatsman = 0
    BY DEF Init, Phase, Half, WithBowler, WithBatsman
  <1>3. StreamInv /\ CountInv
    BY <1>2 DEF Init, StreamInv, CountInv
  <1>4. FileInv
    BY DEF Init, FileInv
  <1>. QED
    BY <1>1, <1>3, <1>4 DEF Init, MatchInv

LEMMA StepMatch == TypeOK /\ MatchInv /\ [Next]_vars => TypeOK' /\ MatchInv'
  <1> SUFFICES ASSUME TypeOK, MatchInv, [Next]_vars PROVE TypeOK' /\ MatchInv'
    OBVIOUS
  <1>1. TypeInv
    BY DEF TypeInv, MatchInv
  <1>2. TypeInv'
    BY <1>1, StepType
  <1>3. TurnInv' /\ NoVainWait'
    BY <1>1, TurnStep DEF MatchInv
  <1>4. StreamInv' /\ CountInv'
    BY <1>1, StreamStep, CountStep DEF MatchInv
  <1>5. FileInv'
    BY <1>1, OneCopy, FileStep DEF MatchInv
  <1>. QED
    BY <1>2, <1>3, <1>4, <1>5 DEF TypeInv, MatchInv

\* The inductive invariant behind the theorems below.
THEOREM MatchInvariant == Spec => [](TypeOK /\ MatchInv)
  <1>1. Init => TypeOK /\ MatchInv
    BY InitType, InitMatch DEF TypeInv
  <1>. QED
    BY <1>1, StepMatch, PTL DEF Spec

\* Without a timeout the bowler and the batsman never share the file.
THEOREM FileExclusiveAlways == Spec => []FileExclusive
  <1>1. TypeOK /\ MatchInv => FileExclusive
    BY OneCopy DEF TypeInv, MatchInv
  <1>. QED
    BY <1>1, MatchInvariant, PTL

\* Without a timeout the batsman reads what was bowled.
THEOREM BallReadAsBowledAlways == Spec => []BallReadAsBowled
  <1>1. MatchInv => BallReadAsBowled
    BY DEF MatchInv, FileInv, BallReadAsBowled
  <1>. QED
    BY <1>1, MatchInvariant, PTL

LEMMA Aligned == TypeOK /\ MatchInv => StreamAligned
  <1> SUFFICES ASSUME TypeOK, MatchInv, umpire \in {"read", "recv"}, stream # <<>>
               PROVE  Head(stream) = Fd <=> umpire = "recv"
    BY DEF StreamAligned
  <1>1. 1 \in 1..Len(stream) /\ Head(stream) = stream[1]
    BY DEF TypeOK
  <1>2. Playing /\ Phase = IF umpire = "recv" THEN 1 ELSE 0
    BY DEF Playing, Phase
  <1>3. stream[1] = Fd <=> (1 + Phase) % 2 = 0
    BY <1>1, <1>2 DEF MatchInv, StreamInv
  <1>. QED
    BY <1>1, <1>2, <1>3

\* The umpire reads runs where runs are and descriptors where they are.
THEOREM StreamAlignedAlways == Spec => []StreamAligned
  BY Aligned, MatchInvariant, PTL

\* The bowler's signal never reaches the umpire in sigtimedwait.
THEOREM SignalInTurnAlways == Spec => []SignalInTurn
  <1>1. MatchInv => SignalInTurn
    BY DEF MatchInv, TurnInv, SignalInTurn
  <1>. QED
    BY <1>1, MatchInvariant, PTL

\* Only a missed signal makes the umpire wait in vain for the bowler.
THEOREM NoVainWaitAlways == Spec => []NoVainWait
  <1>1. MatchInv => NoVainWait
    BY DEF MatchInv
  <1>. QED
    BY <1>1, MatchInvariant, PTL

-----------------------------------------------------------------------------
(* Counting what is in a socket *)

LEMMA Counted ==
  ASSUME NEW S, NEW s \in Seq(S), NEW A
  PROVE  IsFiniteSet({k \in 1..Len(s) : s[k] \in A}) /\ HowMany(s, A) \in Nat
  <1> DEFINE T == {k \in 1..Len(s) : s[k] \in A}
  <1>1. IsFiniteSet(1..Len(s)) /\ T \in SUBSET (1..Len(s))
    BY FS_Interval
  <1> HIDE DEF T
  <1>2. IsFiniteSet(T)
    BY <1>1, FS_Subset
  <1>3. Cardinality(T) \in Nat
    BY <1>2, FS_CardinalityType
  <1>. QED
    BY <1>2, <1>3 DEF T, HowMany

LEMMA OneMore ==
  ASSUME NEW S, NEW s \in Seq(S), NEW x \in S, NEW A
  PROVE  HowMany(Append(s, x), A) = HowMany(s, A) + IF x \in A THEN 1 ELSE 0
  <1> DEFINE T == {k \in 1..Len(s) : s[k] \in A}
             U == {k \in 1..Len(Append(s, x)) : Append(s, x)[k] \in A}
  <1>1. /\ IsFiniteSet(T) /\ Len(s) + 1 \notin T /\ Cardinality(T) \in Nat
        /\ HowMany(s, A) = Cardinality(T) /\ HowMany(Append(s, x), A) = Cardinality(U)
    <2>1. Len(s) + 1 \notin 1..Len(s)
      OBVIOUS
    <2>. QED
      BY <2>1, Counted DEF HowMany
  <1>2. U = T \cup (IF x \in A THEN {Len(s) + 1} ELSE {})
    <2>1. /\ \A k \in 1..Len(s) : Append(s, x)[k] = s[k]
          /\ Append(s, x)[Len(s) + 1] = x /\ Len(Append(s, x)) = Len(s) + 1
          /\ \A k : k \in 1..(Len(s) + 1) <=> (k \in 1..Len(s) \/ k = Len(s) + 1)
      OBVIOUS
    <2>. QED
      BY <2>1
  <1> HIDE DEF T, U
  <1>3. CASE x \in A
    <2>1. Cardinality(T \cup {Len(s) + 1}) = Cardinality(T) + 1
      BY <1>1, FS_AddElement
    <2>. QED
      BY <1>1, <1>2, <1>3, <2>1
  <1>4. CASE x \notin A
    BY <1>1, <1>2, <1>4
  <1>. QED
    BY <1>3, <1>4

LEMMA OneLess ==
  ASSUME NEW S, NEW s \in Seq(S), s # <<>>, NEW A
  PROVE  HowMany(s, A) = HowMany(Tail(s), A) + IF Head(s) \in A THEN 1 ELSE 0
  <1> DEFINE T == {k \in 1..Len(s) : s[k] \in A}
             U == {k \in 1..Len(Tail(s)) : Tail(s)[k] \in A}
             V == T \ {1}
             F == [k \in U |-> k + 1]
  <1>1. Tail(s) \in Seq(S) /\ Len(Tail(s)) = Len(s) - 1 /\ Len(s) \in Nat /\ 1 \in 1..Len(s)
        /\ \A k \in 1..Len(Tail(s)) : Tail(s)[k] = s[k + 1]
        /\ Head(s) = s[1]
    OBVIOUS
  <1>2. IsFiniteSet(T) /\ IsFiniteSet(U) /\ HowMany(s, A) = Cardinality(T)
        /\ HowMany(Tail(s), A) = Cardinality(U) /\ Cardinality(T) \in Nat
    BY <1>1, Counted DEF HowMany
  <1>3. F \in [U -> V]
    <2>1. ASSUME NEW k \in U PROVE k + 1 \in V
      BY <1>1
    <2>. QED
      BY <2>1
  <1>4. \A a, b \in U : F[a] = F[b] => a = b
    OBVIOUS
  <1>5. \A v \in V : \E u \in U : F[u] = v
    <2>1. ASSUME NEW v \in V PROVE v - 1 \in U /\ F[v - 1] = v
      <3>1. v \in 1..Len(s) /\ v # 1 /\ s[v] \in A
        OBVIOUS
      <3>2. v - 1 \in 1..Len(Tail(s)) /\ (v - 1) + 1 = v
        BY <1>1, <3>1
      <3>. QED
        BY <1>1, <3>1, <3>2
    <2>. QED
      BY <2>1
  <1>6. 1 \in T <=> Head(s) \in A
    BY <1>1
  <1>7. ExistsBijection(U, V)
    <2> HIDE DEF F, U, V
    <2>1. F \in Bijection(U, V)
      BY <1>3, <1>4, <1>5, Fun_IsBij
    <2>. QED
      BY <2>1 DEF ExistsBijection
  <1> HIDE DEF T, U, F
  <1>8. Cardinality(V) = Cardinality(U)
    BY <1>2, <1>7, FS_Bijection
  <1>9. Cardinality(T \ {1}) = IF 1 \in T THEN Cardinality(T) - 1 ELSE Cardinality(T)
    BY <1>2, FS_RemoveElement
  <1>. QED
    BY <1>2, <1>6, <1>8, <1>9

-----------------------------------------------------------------------------
(* Boundaries *)

LEMMA WorthIs ==
  ASSUME NEW r \in Runs
  PROVE  /\ r # Fd
         /\ Worth(r) = 4 * (IF r \in {q \in Runs : Worth(q) = 4} THEN 1 ELSE 0)
                       + 6 * (IF r \in {q \in Runs : Worth(q) = 6} THEN 1 ELSE 0)
  <1>1. r # Fd
    BY CricketAssumption
  <1>2. Worth(r) \in {0, 4, 6}
    BY DEF Worth
  <1>. QED
    BY <1>1, <1>2

LEMMA BoundariesStep ==
  ASSUME TypeInv, StreamAligned, BoundariesCount, [Next]_vars
  PROVE  BoundariesCount'
  <1> DEFINE Fours == {q \in Runs : Worth(q) = 4}
             Sixes == {q \in Runs : Worth(q) = 6}
  <1> USE DEF umpireVars, bowlerVars, batsmanVars, fileVars
  <1>1. stream \in Seq(Runs \cup {Fd}) /\ score \in Nat /\ hit \in Nat
        /\ Fd \notin Fours /\ Fd \notin Sixes
    BY WorthIs DEF TypeInv, TypeOK
  <1>2. hit = score + 4 * HowMany(stream, Fours) + 6 * HowMany(stream, Sixes)
    BY DEF BoundariesCount
  <1>3. BoundariesCount' <=> hit' = score' + 4 * HowMany(stream', Fours) + 6 * HowMany(stream', Sixes)
    BY DEF BoundariesCount
  <1>4. HowMany(stream, Fours) \in Nat /\ HowMany(stream, Sixes) \in Nat
    BY <1>1, Counted
  <1> HIDE DEF Fours, Sixes
  <1>5. ASSUME UNCHANGED <<stream, score, hit>> PROVE BoundariesCount'
    BY <1>2, <1>3, <1>5
  <1>6. CASE UNCHANGED vars
    BY <1>5, <1>6 DEF vars
  <1>7. CASE GiveBall \/ EnterSigwait \/ EnterSigtimedwait \/ Expire \/ Timeout \/ Wicket
    BY <1>5, <1>7 DEF GiveBall, EnterSigwait, EnterSigtimedwait, Expire, Timeout, Wicket
  <1>8. CASE StopBatsman \/ StopBowler \/ \E f \in Fielders : Field(f)
    BY <1>5, <1>8 DEF StopBatsman, StopBowler, Field
  <1>9. CASE Bowler
    BY <1>5, <1>9 DEF Bowler, BowlerRecv, Mark, WriteBall, Rewind, BowlerKill, PassBall
  <1>10. CASE BatsmanRecv \/ Respond \/ ReadBall \/ TellFielders
    BY <1>5, <1>10 DEF BatsmanRecv, Respond, ReadBall, TellFielders
  <1>11. CASE ReadRuns
    <2>1. /\ stream # <<>> /\ stream' = Tail(stream) /\ hit' = hit
          /\ score' = score + Worth(Head(stream)) /\ Head(stream) # Fd
      BY <1>11 DEF ReadRuns, StreamAligned
    <2>2. PICK r \in Runs : r = Head(stream)
      BY <1>1, <2>1, SeqTypes
    <2>3. Tail(stream) \in Seq(Runs \cup {Fd})
      BY <1>1, <2>1, SeqTypes
    <2>4. PICK a \in Nat, b \in Nat : a = HowMany(Tail(stream), Fours) /\ b = HowMany(Tail(stream), Sixes)
      BY <2>3, Counted
    <2>5. /\ HowMany(stream, Fours) = a + (IF r \in Fours THEN 1 ELSE 0)
          /\ HowMany(stream, Sixes) = b + (IF r \in Sixes THEN 1 ELSE 0)
      BY <1>1, <2>1, <2>2, <2>4, OneLess
    <2>6. Worth(r) = 4 * (IF r \in Fours THEN 1 ELSE 0) + 6 * (IF r \in Sixes THEN 1 ELSE 0)
      BY WorthIs DEF Fours, Sixes
    <2>. QED
      <3>1. PICK x \in {0, 1}, y \in {0, 1} :
               x = (IF r \in Fours THEN 1 ELSE 0) /\ y = (IF r \in Sixes THEN 1 ELSE 0)
        OBVIOUS
      <3>2. PICK w \in Nat : w = Worth(r) /\ w = 4 * x + 6 * y
        BY <2>6, <3>1, WorthType
      <3>3. hit = score + 4 * (a + x) + 6 * (b + y)
        BY <1>2, <2>5, <3>1
      <3>4. hit = (score + w) + 4 * a + 6 * b
        BY <1>1, <3>2, <3>3
      <3>. QED
        BY <1>3, <2>1, <2>2, <2>4, <3>2, <3>4
  <1>12. CASE TakeBall
    <2>1. stream # <<>> /\ stream' = Tail(stream) /\ hit' = hit /\ score' = score /\ Head(stream) = Fd
      BY <1>12 DEF TakeBall, StreamAligned
    <2>2. Tail(stream) \in Seq(Runs \cup {Fd})
      BY <1>1, <2>1, SeqTypes
    <2>3. PICK a \in Nat, b \in Nat : a = HowMany(Tail(stream), Fours) /\ b = HowMany(Tail(stream), Sixes)
      BY <2>2, Counted
    <2>4. HowMany(stream, Fours) = a /\ HowMany(stream, Sixes) = b
      BY <1>1, <2>1, <2>3, OneLess
    <2>. QED
      BY <1>2, <1>3, <2>1, <2>3, <2>4
  <1>13. CASE WriteRuns
    <2>1. PICK r \in Runs : stream' = Append(stream, r) /\ hit' = hit + Worth(r) /\ score' = score
      BY <1>13 DEF WriteRuns
    <2>2. /\ HowMany(stream', Fours) = HowMany(stream, Fours) + (IF r \in Fours THEN 1 ELSE 0)
          /\ HowMany(stream', Sixes) = HowMany(stream, Sixes) + (IF r \in Sixes THEN 1 ELSE 0)
      BY <1>1, <2>1, OneMore
    <2>3. Worth(r) = 4 * (IF r \in Fours THEN 1 ELSE 0) + 6 * (IF r \in Sixes THEN 1 ELSE 0)
      BY WorthIs DEF Fours, Sixes
    <2>. QED
      <3>1. PICK x \in {0, 1}, y \in {0, 1} :
               x = (IF r \in Fours THEN 1 ELSE 0) /\ y = (IF r \in Sixes THEN 1 ELSE 0)
        OBVIOUS
      <3>2. PICK w \in Nat : w = Worth(r) /\ w = 4 * x + 6 * y
        BY <2>3, <3>1, WorthType
      <3>3. PICK a \in Nat, b \in Nat : a = HowMany(stream, Fours) /\ b = HowMany(stream, Sixes)
        BY <1>4
      <3>4. HowMany(stream', Fours) = a + x /\ HowMany(stream', Sixes) = b + y
        BY <2>2, <3>1, <3>3
      <3>5. hit = score + 4 * a + 6 * b
        BY <1>2, <3>3
      <3>6. hit + w = score + 4 * (a + x) + 6 * (b + y)
        BY <1>1, <3>2, <3>5
      <3>. QED
        BY <1>3, <2>1, <3>2, <3>4, <3>6
  <1>14. CASE ReturnBall
    <2>1. stream' = Append(stream, Fd) /\ hit' = hit /\ score' = score
      BY <1>14 DEF ReturnBall
    <2>2. HowMany(stream', Fours) = HowMany(stream, Fours) /\ HowMany(stream', Sixes) = HowMany(stream, Sixes)
      BY <1>1, <1>4, <2>1, OneMore
    <2>. QED
      BY <1>2, <1>3, <2>1, <2>2
  <1>. QED
    BY <1>6, <1>7, <1>8, <1>9, <1>10, <1>11, <1>12, <1>13, <1>14 DEF Next, Umpire, Batsman

\* What the umpire has counted and what is on its way to it is what was hit, for
\* any runs and any number of balls, and whatever waits expire (umpire.c 352-358).
THEOREM BoundariesCountAlways == Spec => []BoundariesCount
  <1> DEFINE Inv == TypeOK /\ MatchInv
  <1>1. Init => BoundariesCount
    <2> SUFFICES ASSUME Init PROVE BoundariesCount
      OBVIOUS
    <2>1. stream = <<>> /\ hit = 0 /\ score = 0
      BY DEF Init
    <2>2. \A A : HowMany(stream, A) = 0
      <3>1. \A A : {k \in 1..Len(stream) : stream[k] \in A} = {}
        BY <2>1
      <3>. QED
        BY <3>1, FS_EmptySet DEF HowMany
    <2>. QED
      BY <2>1, <2>2 DEF BoundariesCount
  <1>2. BoundariesCount /\ Inv /\ [Next]_vars => BoundariesCount'
    BY Aligned, BoundariesStep DEF MatchInv, TypeInv
  <1>3. Spec => []Inv
    BY MatchInvariant
  <1> HIDE DEF Inv
  <1>. QED
    BY <1>1, <1>2, <1>3, PTL DEF Spec

-----------------------------------------------------------------------------
(* Catches *)

\* The four fielders are four processes.
LEMMA FieldersAre ==
  ASSUME AllFielders, NEW n \in 1..4
  PROVE  /\ FielderOf(n) \in Fielders
         /\ \A f \in Fielders : FielderNo[f] = n <=> f = FielderOf(n)
  <1>1. PICK f \in Fielders : {g \in Fielders : FielderNo[g] = n} = {f}
    BY DEF AllFielders
  <1>2. \A g \in Fielders : FielderNo[g] = n <=> g = f
    BY <1>1
  <1>3. FielderOf(n) = f
    BY <1>2 DEF FielderOf
  <1>. QED
    BY <1>2, <1>3

LEMMA CatchesType ==
  ASSUME TypeInv, AllFielders, NEW n \in 1..4
  PROVE  CatchesIn(n) \in Nat
  BY FieldersAre, Counted DEF CatchesIn, TypeInv, TypeOK

\* The sockets of all hold the shot: one catch more, if it is no boundary.
LEMMA OneCatchMore ==
  ASSUME TypeInv, AllFielders, NEW r \in Runs, box' = [f \in Fielders |-> Append(box[f], r)]
  PROVE  CatchesIn(1)' + CatchesIn(2)' + CatchesIn(3)' + CatchesIn(4)'
           = CatchesIn(1) + CatchesIn(2) + CatchesIn(3) + CatchesIn(4)
               + IF r \in Catchable THEN 1 ELSE 0
  <1>1. ASSUME NEW n \in 1..4
        PROVE  CatchesIn(n)' = CatchesIn(n) + (IF Catches(n, r) THEN 1 ELSE 0)
    <2>1. PICK f \in Fielders : f = FielderOf(n)
      BY FieldersAre
    <2>2. box[f] \in Seq(Runs) /\ box'[f] = Append(box[f], r)
      BY DEF TypeInv, TypeOK
    <2>3. \A A : HowMany(box'[f], A) = HowMany(box[f], A) + IF r \in A THEN 1 ELSE 0
      BY <2>2, OneMore
    <2>4. r \in {q \in Runs : Catches(n, q)} <=> Catches(n, r)
      OBVIOUS
    <2>. QED
      BY <2>1, <2>3, <2>4 DEF CatchesIn
  <1>2. PICK a \in Nat, b \in Nat, c \in Nat, d \in Nat :
           a = CatchesIn(1) /\ b = CatchesIn(2) /\ c = CatchesIn(3) /\ d = CatchesIn(4)
    BY CatchesType
  <1>3. /\ CatchesIn(1)' = a + (IF Catches(1, r) THEN 1 ELSE 0)
        /\ CatchesIn(2)' = b + (IF Catches(2, r) THEN 1 ELSE 0)
        /\ CatchesIn(3)' = c + (IF Catches(3, r) THEN 1 ELSE 0)
        /\ CatchesIn(4)' = d + (IF Catches(4, r) THEN 1 ELSE 0)
    BY <1>1, <1>2
  <1>4. CASE Boundary(r)
    <2>1. r \notin Catchable /\ \A n \in 1..4 : ~Catches(n, r)
      BY <1>4 DEF Catchable, Catches
    <2>. QED
      BY <1>2, <1>3, <2>1
  <1>5. CASE ~Boundary(r)
    <2>1. r \in Catchable /\ r \in 0..40
      BY <1>5, CricketAssumption DEF Catchable
    <2>2. PICK n \in 1..4 : \A k \in 1..4 : Catches(k, r) <=> k = n
      BY <1>5, <2>1, OneCatcher
    <2>3. /\ Catches(1, r) <=> n = 1
          /\ Catches(2, r) <=> n = 2
          /\ Catches(3, r) <=> n = 3
          /\ Catches(4, r) <=> n = 4
      BY <2>2
    <2>4. PICK p \in {0, 1}, q \in {0, 1}, s \in {0, 1}, t \in {0, 1} :
             /\ p = IF n = 1 THEN 1 ELSE 0
             /\ q = IF n = 2 THEN 1 ELSE 0
             /\ s = IF n = 3 THEN 1 ELSE 0
             /\ t = IF n = 4 THEN 1 ELSE 0
      OBVIOUS
    <2>5. p + q + s + t = 1
      BY <2>4
    <2>6. /\ CatchesIn(1)' = a + p /\ CatchesIn(2)' = b + q
          /\ CatchesIn(3)' = c + s /\ CatchesIn(4)' = d + t
      BY <1>3, <2>3, <2>4
    <2>7. (a + p) + (b + q) + (c + s) + (d + t) = a + b + c + d + 1
      BY ONLY <1>2, <2>4, <2>5
    <2>. QED
      BY <1>2, <2>1, <2>6, <2>7
  <1>. QED
    BY <1>4, <1>5

\* A fielder takes a shot from its socket: "out", if it catches it.
LEMMA OneCatchLess ==
  ASSUME TypeInv, AllFielders, NEW f \in Fielders, Field(f)
  PROVE  outs' + CatchesIn(1)' + CatchesIn(2)' + CatchesIn(3)' + CatchesIn(4)'
           = outs + CatchesIn(1) + CatchesIn(2) + CatchesIn(3) + CatchesIn(4)
  <1>1. PICK n \in 1..4 : n = FielderNo[f] /\ f = FielderOf(n)
    BY FieldersAre, CricketAssumption
  <1>2. /\ box[f] \in Seq(Runs) /\ box[f] # <<>> /\ box' = [box EXCEPT ![f] = Tail(@)]
        /\ outs' = outs + (IF Catches(n, Head(box[f])) THEN 1 ELSE 0)
        /\ outs \in Nat /\ box \in [Fielders -> Seq(Runs)]
    BY <1>1 DEF Field, TypeInv, TypeOK
  <1>3. PICK x \in {0, 1} : x = IF Catches(n, Head(box[f])) THEN 1 ELSE 0
    OBVIOUS
  <1>4. CatchesIn(n) = CatchesIn(n)' + x
    <2>1. \A A : HowMany(box[f], A) = HowMany(Tail(box[f]), A) + IF Head(box[f]) \in A THEN 1 ELSE 0
      BY <1>2, OneLess
    <2>2. Head(box[f]) \in {q \in Runs : Catches(n, q)} <=> Catches(n, Head(box[f]))
      BY <1>2, SeqTypes
    <2>3. box'[f] = Tail(box[f])
      BY <1>2
    <2>. QED
      BY <1>1, <1>3, <2>1, <2>2, <2>3 DEF CatchesIn
  <1>5. ASSUME NEW k \in 1..4, k # n PROVE CatchesIn(k)' = CatchesIn(k)
    <2>1. FielderOf(k) \in Fielders /\ FielderOf(k) # f
      BY <1>1, <1>5, FieldersAre
    <2>2. box'[FielderOf(k)] = box[FielderOf(k)]
      BY <1>2, <2>1
    <2>. QED
      BY <2>2 DEF CatchesIn
  <1>6. CatchesIn(n)' \in Nat
    <2>1. Tail(box[f]) \in Seq(Runs) /\ box'[f] = Tail(box[f])
      BY <1>2, SeqTypes
    <2>. QED
      BY <1>1, <2>1, Counted DEF CatchesIn
  <1>7. PICK a \in Nat, b \in Nat, c \in Nat, d \in Nat :
           a = CatchesIn(1) /\ b = CatchesIn(2) /\ c = CatchesIn(3) /\ d = CatchesIn(4)
    BY CatchesType
  <1>8. PICK y \in Nat : y = CatchesIn(n)'
    BY <1>6
  <1>9. outs' = outs + x /\ outs \in Nat
    BY <1>2, <1>3
  <1>10. CASE n = 1
    <2>1. /\ a = y + x /\ CatchesIn(1)' = y
          /\ CatchesIn(2)' = b /\ CatchesIn(3)' = c /\ CatchesIn(4)' = d
      BY <1>4, <1>5, <1>7, <1>8, <1>10
    <2>. QED
      BY <1>3, <1>7, <1>8, <1>9, <2>1
  <1>11. CASE n = 2
    <2>1. /\ b = y + x /\ CatchesIn(2)' = y
          /\ CatchesIn(1)' = a /\ CatchesIn(3)' = c /\ CatchesIn(4)' = d
      BY <1>4, <1>5, <1>7, <1>8, <1>11
    <2>. QED
      BY <1>3, <1>7, <1>8, <1>9, <2>1
  <1>12. CASE n = 3
    <2>1. /\ c = y + x /\ CatchesIn(3)' = y
          /\ CatchesIn(1)' = a /\ CatchesIn(2)' = b /\ CatchesIn(4)' = d
      BY <1>4, <1>5, <1>7, <1>8, <1>12
    <2>. QED
      BY <1>3, <1>7, <1>8, <1>9, <2>1
  <1>13. CASE n = 4
    <2>1. /\ d = y + x /\ CatchesIn(4)' = y
          /\ CatchesIn(1)' = a /\ CatchesIn(2)' = b /\ CatchesIn(3)' = c
      BY <1>4, <1>5, <1>7, <1>8, <1>13
    <2>. QED
      BY <1>3, <1>7, <1>8, <1>9, <2>1
  <1>. QED
    BY <1>10, <1>11, <1>12, <1>13

Caught == CatchesIn(1) + CatchesIn(2) + CatchesIn(3) + CatchesIn(4)
Appeal == IF umpire = "appeal" THEN 1 ELSE 0
InHand == IF batsman = "field" /\ shot \in Catchable THEN 1 ELSE 0

Settled == HowMany(stream, Catchable) + Appeal = outs + Caught + InHand

LEMMA SettledIs ==
  ASSUME TypeInv, AllFielders
  PROVE  /\ OneOutPerCatch <=> (Playing => Settled)
         /\ Caught \in Nat /\ HowMany(stream, Catchable) \in Nat
  <1>1. PICK a \in Nat, b \in Nat, c \in Nat, d \in Nat :
           a = CatchesIn(1) /\ b = CatchesIn(2) /\ c = CatchesIn(3) /\ d = CatchesIn(4)
    BY CatchesType
  <1>2. HowMany(stream, Catchable) \in Nat
    BY Counted DEF TypeInv, TypeOK
  <1>3. PICK e \in {0, 1}, h \in {0, 1}, o \in Nat : e = Appeal /\ h = InHand /\ o = outs
    BY DEF Appeal, InHand, TypeInv, TypeOK
  <1>4. Caught = a + b + c + d
    BY <1>1 DEF Caught
  <1>5. OneOutPerCatch <=> (Playing => HowMany(stream, Catchable) + e = o + a + b + c + d + h)
    BY <1>1, <1>3 DEF OneOutPerCatch, Appeal, InHand
  <1>6. Settled <=> HowMany(stream, Catchable) + e = o + (a + b + c + d) + h
    BY <1>3, <1>4 DEF Settled
  <1>7. o + (a + b + c + d) + h = o + a + b + c + d + h
    BY <1>1, <1>3
  <1>. QED
    BY <1>1, <1>2, <1>4, <1>5, <1>6, <1>7

LEMMA SettledNext == AllFielders => (TypeInv' => (OneOutPerCatch' <=> (Playing' => Settled')))
  <1> SUFFICES ASSUME AllFielders PROVE TypeInv' => (OneOutPerCatch' <=> (Playing' => Settled'))
    OBVIOUS
  <1>1. TypeInv => (OneOutPerCatch <=> (Playing => Settled))
    BY SettledIs
  <1>. QED
    BY <1>1, PTL

LEMMA SettledStep ==
  ASSUME TypeInv, StreamAligned, AllFielders, Playing, Settled, [Next]_vars, Playing'
  PROVE  Settled'
  <1> USE DEF umpireVars, bowlerVars, batsmanVars, fileVars
  <1>0. /\ stream \in Seq(Runs \cup {Fd}) /\ outs \in Nat /\ Fd \notin Catchable
        /\ Caught \in Nat /\ HowMany(stream, Catchable) \in Nat
        /\ Appeal \in {0, 1} /\ InHand \in {0, 1}
    BY SettledIs, WorthIs DEF TypeInv, TypeOK, Catchable, Appeal, InHand
  <1>1. ASSUME UNCHANGED box PROVE Caught' = Caught
    BY <1>1 DEF Caught, CatchesIn
  <1>2. ASSUME UNCHANGED <<stream, outs, box, Appeal, InHand>> PROVE Settled'
    BY <1>1, <1>2 DEF Settled
  <1>3. CASE UNCHANGED vars
    BY <1>2, <1>3 DEF vars, Appeal, InHand
  <1>4. CASE GiveBall \/ EnterSigwait \/ EnterSigtimedwait \/ Expire \/ Timeout
    BY <1>2, <1>4 DEF GiveBall, EnterSigwait, EnterSigtimedwait, Expire, Timeout, Appeal, InHand
  <1>5. CASE StopBatsman \/ StopBowler
    BY <1>5 DEF StopBatsman, StopBowler, Playing
  <1>6. CASE BowlerRecv \/ Mark \/ WriteBall \/ Rewind \/ PassBall
    BY <1>2, <1>6 DEF BowlerRecv, Mark, WriteBall, Rewind, PassBall, Appeal, InHand
  <1>7. CASE BowlerKill
    BY <1>2, <1>7 DEF BowlerKill, Appeal, InHand
  <1>8. CASE BatsmanRecv \/ Respond \/ ReadBall
    BY <1>2, <1>8 DEF BatsmanRecv, Respond, ReadBall, Appeal, InHand
  <1>9. CASE ReadRuns
    <2>1. /\ stream # <<>> /\ stream' = Tail(stream) /\ Head(stream) # Fd /\ umpire = "read"
          /\ umpire' = (IF Boundary(Head(stream)) THEN "recv" ELSE "appeal")
          /\ UNCHANGED <<outs, box, batsman, shot>>
      BY <1>9 DEF ReadRuns, StreamAligned
    <2>2. Head(stream) \in Runs /\ Tail(stream) \in Seq(Runs \cup {Fd})
      BY <1>0, <2>1, SeqTypes
    <2>3. HowMany(stream, Catchable) = HowMany(stream', Catchable) + Appeal'
      <3>1. Appeal' = IF Head(stream) \in Catchable THEN 1 ELSE 0
        BY <2>1, <2>2 DEF Appeal, Catchable
      <3>. QED
        BY <1>0, <2>1, <3>1, OneLess
    <2>4. Appeal = 0 /\ InHand' = InHand /\ Caught' = Caught
      BY <1>1, <2>1 DEF Appeal, InHand
    <2>. QED
      BY <1>0, <2>1, <2>3, <2>4 DEF Settled
  <1>10. CASE Wicket
    <2>1. /\ umpire = "appeal" /\ outs > 0 /\ outs' = outs - 1 /\ umpire' # "appeal"
          /\ UNCHANGED <<stream, box, batsman, shot>>
      BY <1>10 DEF Wicket
    <2>2. Appeal = 1 /\ Appeal' = 0 /\ InHand' = InHand /\ Caught' = Caught
      BY <1>1, <2>1 DEF Appeal, InHand
    <2>. QED
      BY <1>0, <2>1, <2>2 DEF Settled
  <1>11. CASE TakeBall
    <2>1. /\ stream # <<>> /\ stream' = Tail(stream) /\ Head(stream) = Fd
          /\ umpire = "recv" /\ umpire' = "give" /\ UNCHANGED <<outs, box, batsman, shot>>
      BY <1>11 DEF TakeBall, StreamAligned
    <2>2. Tail(stream) \in Seq(Runs \cup {Fd})
      BY <1>0, <2>1, SeqTypes
    <2>3. HowMany(stream', Catchable) = HowMany(stream, Catchable)
      <3>1. HowMany(Tail(stream), Catchable) \in Nat
        BY <2>2, Counted
      <3>. QED
        BY <1>0, <2>1, <3>1, OneLess
    <2>4. Appeal = 0 /\ Appeal' = 0 /\ InHand' = InHand
      BY <2>1 DEF Appeal, InHand
    <2>. QED
      BY <1>1, <2>1, <2>3, <2>4 DEF Settled
  <1>12. CASE WriteRuns
    <2>1. PICK r \in Runs : stream' = Append(stream, r) /\ shot' = r
      BY <1>12 DEF WriteRuns
    <2>2. batsman = "write" /\ batsman' = "field" /\ UNCHANGED <<outs, box, umpire>>
      BY <1>12 DEF WriteRuns
    <2>3. HowMany(stream', Catchable) = HowMany(stream, Catchable) + InHand'
      <3>1. InHand' = IF r \in Catchable THEN 1 ELSE 0
        BY <2>1, <2>2 DEF InHand, Catchable
      <3>. QED
        BY <1>0, <2>1, <3>1, OneMore
    <2>4. Appeal' = Appeal /\ InHand = 0 /\ InHand' \in {0, 1}
      BY <2>2 DEF Appeal, InHand
    <2>. QED
      BY <1>0, <1>1, <2>2, <2>3, <2>4 DEF Settled
  <1>13. CASE TellFielders
    <2>1. /\ batsman = "field" /\ batsman' = "send" /\ shot \in Runs
          /\ box' = [f \in Fielders |-> Append(box[f], shot)]
          /\ UNCHANGED <<outs, stream, umpire, shot>>
      BY <1>13 DEF TellFielders, TypeInv
    <2>2. Caught' = Caught + InHand
      <3>1. InHand = IF shot \in Catchable THEN 1 ELSE 0
        BY <2>1 DEF InHand
      <3>. QED
        BY <2>1, <3>1, OneCatchMore DEF Caught
    <2>3. InHand' = 0 /\ Appeal' = Appeal
      BY <2>1 DEF InHand, Appeal
    <2>. QED
      BY <1>0, <2>1, <2>2, <2>3 DEF Settled
  <1>14. CASE ReturnBall
    <2>1. /\ stream' = Append(stream, Fd) /\ batsman = "send" /\ batsman' = "recv"
          /\ UNCHANGED <<outs, box, umpire>>
      BY <1>14 DEF ReturnBall
    <2>2. HowMany(stream', Catchable) = HowMany(stream, Catchable)
      BY <1>0, <2>1, OneMore
    <2>3. InHand = 0 /\ InHand' = 0 /\ Appeal' = Appeal
      BY <2>1 DEF InHand, Appeal
    <2>. QED
      BY <1>1, <2>1, <2>2, <2>3 DEF Settled
  <1>15. ASSUME NEW f \in Fielders, Field(f) PROVE Settled'
    <2>1. UNCHANGED <<stream, umpire, batsman, shot>>
      BY <1>15 DEF Field
    <2>2. Appeal' = Appeal /\ InHand' = InHand
      BY <2>1 DEF Appeal, InHand
    <2>3. outs' + Caught' = outs + Caught
      <3>1. TypeInv'
        BY <1>15, FieldType
      <3>2. PICK a \in Nat, b \in Nat, c \in Nat, d \in Nat :
               a = CatchesIn(1) /\ b = CatchesIn(2) /\ c = CatchesIn(3) /\ d = CatchesIn(4)
        BY CatchesType
      <3>3. PICK v \in Nat, w \in Nat, x \in Nat, y \in Nat :
               v = CatchesIn(1)' /\ w = CatchesIn(2)' /\ x = CatchesIn(3)' /\ y = CatchesIn(4)'
        <4>1. \A n \in 1..4 : CatchesIn(n)' \in Nat
          BY <3>1, FieldersAre, Counted DEF CatchesIn, TypeInv, TypeOK
        <4>. QED
          BY <4>1
      <3>4. outs' + v + w + x + y = outs + a + b + c + d /\ outs' \in Nat
        BY <1>15, <3>1, <3>2, <3>3, OneCatchLess DEF TypeInv, TypeOK
      <3>5. Caught = a + b + c + d /\ Caught' = v + w + x + y
        BY <3>2, <3>3 DEF Caught
      <3>. QED
        <4>1. PICK o \in Nat, q \in Nat : o = outs /\ q = outs'
          BY <1>0, <3>4
        <4>2. q + v + w + x + y = o + a + b + c + d
          BY <3>4, <4>1
        <4>3. q + (v + w + x + y) = o + (a + b + c + d)
          BY <3>2, <3>3, <4>1, <4>2
        <4>. QED
          BY <3>5, <4>1, <4>3
    <2>. QED
      BY <2>1, <2>2, <2>3 DEF Settled
  <1>. QED
    BY <1>3, <1>4, <1>5, <1>6, <1>7, <1>8, <1>9, <1>10, <1>11, <1>12, <1>13, <1>14, <1>15
       DEF Next, Umpire, Bowler, Batsman

\* With the four fielders every shot that is no boundary has exactly one "out":
\* in the umpire's raw socket, with the one fielder that catches it, or about to
\* be, whatever waits expire and in whatever order fielders and umpire read
\* (fielder.c 107-135, umpire.c 361-380).
THEOREM OneOutPerCatchAlways == Spec => []OneOutPerCatch
  <1> DEFINE Inv == TypeOK /\ MatchInv
  <1>1. Init => OneOutPerCatch
    <2> SUFFICES ASSUME Init, AllFielders PROVE Settled
      BY InitType, SettledIs DEF OneOutPerCatch
    <2>1. stream = <<>> /\ outs = 0 /\ umpire = "give" /\ batsman = "recv"
          /\ box = [f \in Fielders |-> <<>>]
      BY DEF Init
    <2>2. \A A : HowMany(<<>>, A) = 0
      <3>1. \A A : {k \in 1..Len(<<>>) : <<>>[k] \in A} = {}
        OBVIOUS
      <3>. QED
        BY <3>1, FS_EmptySet DEF HowMany
    <2>3. \A n \in 1..4 : CatchesIn(n) = 0
      BY <2>1, <2>2, FieldersAre DEF CatchesIn
    <2>. QED
      BY <2>1, <2>2, <2>3 DEF Settled, Caught, Appeal, InHand
  <1>2. OneOutPerCatch /\ Inv /\ [Next]_vars => OneOutPerCatch'
    <2> SUFFICES ASSUME OneOutPerCatch, Inv, [Next]_vars, Playing', AllFielders PROVE Settled'
      <3>2. Inv /\ [Next]_vars => TypeInv'
        BY StepType DEF MatchInv, TypeInv
      <3>3. TypeInv' /\ AllFielders => (OneOutPerCatch' <=> (Playing' => Settled'))
        BY SettledNext
      <3>4. ~(Playing' /\ AllFielders) => OneOutPerCatch'
        BY DEF OneOutPerCatch
      <3>. QED
        BY <3>2, <3>3, <3>4
    <2>1. Playing
      BY DEF Next, Umpire, Bowler, Batsman, GiveBall, EnterSigwait, EnterSigtimedwait, Expire, Timeout,
             ReadRuns, Wicket, TakeBall, StopBatsman, StopBowler, BowlerRecv, Mark, WriteBall, Rewind,
             BowlerKill, PassBall, BatsmanRecv, Respond, ReadBall, WriteRuns, TellFielders, ReturnBall,
             Field, Playing, vars, umpireVars, bowlerVars, batsmanVars, fileVars
    <2>. QED
      BY <2>1, Aligned, SettledIs, SettledStep DEF MatchInv, TypeInv
  <1>3. Spec => []Inv
    BY MatchInvariant
  <1> HIDE DEF Inv
  <1>. QED
    BY <1>1, <1>2, <1>3, PTL DEF Spec
=============================================================================
