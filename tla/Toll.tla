-------------------------------- MODULE Toll --------------------------------
(***************************************************************************)
(* 04-03-22-Mid-solutions/q1: a toll plaza.  A vehicle (V.c) connects to a  *)
(* dispenser (D1.c to D3.c), which tells it a billing booth and passes its  *)
(* descriptor on to that booth (B1.c, B2.c).  The booth asks for an amount  *)
(* until it is not zero, adds it to its total and answers "exit".           *)
(*                                                                         *)
(* Nobody closes a descriptor, so a vehicle's connection ends only when the *)
(* dispenser and the booth that hold it have ended.  A write to a vehicle   *)
(* that is gone, or to a booth that is gone, ends the writer (SIGPIPE).     *)
(***************************************************************************)
EXTENDS Integers, Sequences, FiniteSetsExt

CONSTANTS Dispensers, \* D1 to D3
          Vehicles,
          Leavers,    \* vehicles whose user may end V at any time
          Amounts,    \* what users type: atoi makes 0 of what is no number
          NoVehicle,
          Ghost       \* a dispenser that ended before it reached the second booth

Booths == 1..2        \* B1.usd, B2.usd: the order in which a dispenser connects

ASSUME TollAssumption ==
    /\ IsFiniteSet(Dispensers) /\ Leavers \subseteq Vehicles /\ Amounts \subseteq Int
    /\ NoVehicle \notin Vehicles /\ Ghost \notin Dispensers

VARIABLES
    dispenser, \* "off", "up" or "dead"
    serving,   \* the vehicle a dispenser has accepted
    road,      \* connections a dispenser has not accepted yet
    booth,     \* what a booth is doing
    joined,    \* dispensers in the order they connected to a booth
    hungup,    \* dispensers whose entry in pfd is -1
    lane,      \* descriptors on their way from a dispenser to a booth
    atBooth,   \* the vehicle a booth serves
    took,      \* vehicles whose descriptors a booth holds
    total,     \* total_amount
    driver,    \* what a vehicle is doing
    via,       \* the dispenser it connected to
    mail,      \* records on their way to a vehicle
    reply,     \* the amount on its way from a vehicle: none or one
    spoiled,   \* a vehicle that left has been written to
    typed,     \* history: the amount a vehicle typed last
    told,      \* history: the booth it read
    billed     \* history: vehicles whose amounts a booth has added

dispenserVars == <<dispenser, serving, road>>
boothVars == <<booth, hungup, atBooth, took, total, billed>>
vehicleVars == <<driver, via, typed, told>>
tollVars == <<dispenserVars, boothVars, vehicleVars, joined, lane, mail, reply, spoiled>>

Message == [kind : {"go"}, booth : Booths] \cup [kind : {"amount", "exit"}]

TollTypeOK ==
    /\ dispenser \in [Dispensers -> {"off", "up", "dead"}]
    /\ serving \in [Dispensers -> Vehicles \cup {NoVehicle}]
    /\ road \in [Dispensers -> Seq(Vehicles)]
    /\ booth \in [Booths -> {"off", "opening", "idle", "asking", "reading", "closing",
                             "stuck", "dead"}]
    /\ joined \in [Booths -> Seq(Dispensers \cup {Ghost})]
    /\ hungup \in [Booths -> SUBSET Dispensers]
    /\ lane \in [Booths -> [Dispensers -> Seq(Vehicles)]]
    /\ atBooth \in [Booths -> Vehicles \cup {NoVehicle}]
    /\ took \in [Booths -> SUBSET Vehicles] /\ billed \in [Booths -> SUBSET Vehicles]
    /\ total \in [Booths -> Int]
    /\ driver \in [Vehicles -> {"home", "first", "reading", "typing", "done", "left", "lost"}]
    /\ via \in [Vehicles -> Dispensers \cup {Ghost}]
    /\ mail \in [Vehicles -> Seq(Message)] /\ reply \in [Vehicles -> Seq(Int)]
    /\ spoiled \in [Vehicles -> BOOLEAN] /\ typed \in [Vehicles -> Int]
    /\ told \in [Vehicles -> Booths \cup {0}]

TollInit ==
    /\ dispenser = [d \in Dispensers |-> "off"]
    /\ serving = [d \in Dispensers |-> NoVehicle] /\ road = [d \in Dispensers |-> <<>>]
    /\ booth = [b \in Booths |-> "off"] /\ joined = [b \in Booths |-> <<>>]
    /\ hungup = [b \in Booths |-> {}] /\ atBooth = [b \in Booths |-> NoVehicle]
    /\ lane = [b \in Booths |-> [d \in Dispensers |-> <<>>]]
    /\ took = [b \in Booths |-> {}] /\ billed = [b \in Booths |-> {}]
    /\ total = [b \in Booths |-> 0]
    /\ driver = [v \in Vehicles |-> "home"] /\ via = [v \in Vehicles |-> Ghost]
    /\ mail = [v \in Vehicles |-> <<>>] /\ reply = [v \in Vehicles |-> <<>>]
    /\ spoiled = [v \in Vehicles |-> FALSE] /\ typed = [v \in Vehicles |-> 0]
    /\ told = [v \in Vehicles |-> 0]

\* A record reaches the vehicle if there is still somebody to read it.
Write(v, m) ==
    /\ mail' = IF driver[v] = "left" THEN mail ELSE [mail EXCEPT ![v] = Append(@, m)]
    /\ spoiled' = [spoiled EXCEPT ![v] = driver[v] = "left"]

-----------------------------------------------------------------------------
(* Dispensers *)

Listening(b) == booth[b] \notin {"off", "dead"}

\* connectConctOrntdUSClient for B1, then for B2, either of which ends the
\* dispenser when it fails.  B1 does not learn that a dispenser that ended was
\* none; one such start is enough.
DispenserStarts(d) ==
    /\ dispenser[d] = "off" /\ Listening(1)
    /\ \/ /\ Listening(2) /\ dispenser' = [dispenser EXCEPT ![d] = "up"]
          /\ joined' = [b \in Booths |-> Append(joined[b], d)]
       \/ /\ ~Listening(2) /\ Ghost \notin {joined[1][k] : k \in 1..Len(joined[1])}
          /\ joined' = [joined EXCEPT ![1] = Append(@, Ghost)]
          /\ UNCHANGED dispenser
    /\ UNCHANGED <<serving, road, boothVars, vehicleVars, lane, mail, reply, spoiled>>

\* accept, then serve_vehicle, which sleeps.
DispenserTakes(d) ==
    /\ dispenser[d] = "up" /\ serving[d] = NoVehicle /\ road[d] # <<>>
    /\ serving' = [serving EXCEPT ![d] = Head(road[d])]
    /\ road' = [road EXCEPT ![d] = Tail(@)]
    /\ UNCHANGED <<dispenser, boothVars, vehicleVars, joined, lane, mail, reply, spoiled>>

\* Mutant: the booth is drawn again for the descriptor.
DispenserDrawsTwice(d) ==
    LET v == serving[d]
    IN  /\ v # NoVehicle
        /\ \E b, c \in Booths :
              /\ Write(v, [kind |-> "go", booth |-> c])
              /\ IF booth[b] = "dead"
                 THEN dispenser' = [dispenser EXCEPT ![d] = "dead"] /\ UNCHANGED lane
                 ELSE lane' = [lane EXCEPT ![b][d] = Append(@, v)] /\ UNCHANGED dispenser
        /\ serving' = [serving EXCEPT ![d] = NoVehicle]
        /\ UNCHANGED <<road, boothVars, vehicleVars, joined, reply>>

\* The booth is drawn, told to the vehicle, and gets the descriptor.
DispenserSends(d) ==
    LET v == serving[d]
    IN  /\ v # NoVehicle
        /\ \E b \in Booths :
              /\ Write(v, [kind |-> "go", booth |-> b])
              /\ IF booth[b] = "dead"
                 THEN dispenser' = [dispenser EXCEPT ![d] = "dead"] /\ UNCHANGED lane
                 ELSE lane' = [lane EXCEPT ![b][d] = Append(@, v)] /\ UNCHANGED dispenser
        /\ serving' = [serving EXCEPT ![d] = NoVehicle]
        /\ UNCHANGED <<road, boothVars, vehicleVars, joined, reply>>

Dispenser(d) == DispenserStarts(d) \/ DispenserTakes(d) \/ DispenserSends(d)

-----------------------------------------------------------------------------
(* Booths *)

BoothStarts(b) ==
    /\ booth[b] = "off" /\ booth' = [booth EXCEPT ![b] = "opening"]
    /\ UNCHANGED <<hungup, atBooth, took, total, billed, dispenserVars, vehicleVars,
                   joined, lane, mail, reply, spoiled>>

Accepted(b) == {joined[b][k] : k \in 1..Cardinality(Dispensers)}

\* As many connections are accepted as there are dispensers.
BoothOpens(b) ==
    /\ booth[b] = "opening" /\ Len(joined[b]) >= Cardinality(Dispensers)
    /\ booth' = [booth EXCEPT ![b] = "idle"]
    /\ UNCHANGED <<hungup, atBooth, took, total, billed, dispenserVars, vehicleVars,
                   joined, lane, mail, reply, spoiled>>

\* poll and recv_fd.  The end of a dispenser is POLLHUP beside POLLIN: after
\* the descriptor that was read the entry is dropped, with all that is still in
\* the lane, unless poll returned before the dispenser ended.
BoothTakes(b) ==
    /\ booth[b] = "idle"
    /\ \E d \in (Accepted(b) \cap Dispensers) \ hungup[b] :
          LET v == Head(lane[b][d])
          IN  /\ lane[b][d] # <<>>
              /\ lane' = [lane EXCEPT ![b][d] = Tail(@)]
              /\ atBooth' = [atBooth EXCEPT ![b] = v]
              /\ took' = [took EXCEPT ![b] = @ \cup {v}]
              /\ \/ UNCHANGED hungup
                 \/ /\ dispenser[d] = "dead"
                    /\ hungup' = [hungup EXCEPT ![b] = @ \cup {d}]
    /\ booth' = [booth EXCEPT ![b] = "asking"]
    /\ UNCHANGED <<total, billed, dispenserVars, vehicleVars, joined, mail, reply, spoiled>>

\* Nothing but the end of a dispenser: recv_fd returns -1, and serve_vehicle
\* asks descriptor -1 for ever.
BoothSticks(b) ==
    /\ booth[b] = "idle"
    /\ \/ Ghost \in Accepted(b)
       \/ \E d \in (Accepted(b) \cap Dispensers) \ hungup[b] :
             lane[b][d] = <<>> /\ dispenser[d] = "dead"
    /\ booth' = [booth EXCEPT ![b] = "stuck"]
    /\ UNCHANGED <<hungup, atBooth, took, total, billed, dispenserVars, vehicleVars,
                   joined, lane, mail, reply, spoiled>>

\* A write to the vehicle at the booth: the first after it has left may still
\* succeed, the second never does.
BoothWrites(b, m, next) ==
    LET v == atBooth[b]
    IN  \/ /\ ~spoiled[v] /\ Write(v, m) /\ booth' = [booth EXCEPT ![b] = next]
        \/ /\ driver[v] = "left" /\ booth' = [booth EXCEPT ![b] = "dead"]
           /\ UNCHANGED <<mail, spoiled>>

BoothAsks(b) ==
    /\ booth[b] = "asking" /\ BoothWrites(b, [kind |-> "amount"], "reading")
    /\ UNCHANGED <<hungup, atBooth, took, total, billed, dispenserVars, vehicleVars,
                   joined, lane, reply>>

\* read, atoi of what was read: 0 if the vehicle has left.
BoothReads(b) ==
    LET v == atBooth[b]
        amount == IF reply[v] = <<>> THEN 0 ELSE Head(reply[v])
    IN  /\ booth[b] = "reading" /\ (reply[v] # <<>> \/ driver[v] = "left")
        /\ total' = [total EXCEPT ![b] = @ + amount]
        /\ billed' = [billed EXCEPT ![b] = IF amount = 0 THEN @ ELSE @ \cup {v}]
        /\ booth' = [booth EXCEPT ![b] = IF amount = 0 THEN "asking" ELSE "closing"]
        /\ reply' = [reply EXCEPT ![v] = <<>>]
        /\ UNCHANGED <<hungup, atBooth, took, dispenserVars, vehicleVars, joined, lane,
                       mail, spoiled>>

\* Mutant: "exit" is not sent.
BoothClosesSilently(b) ==
    /\ booth[b] = "closing" /\ booth' = [booth EXCEPT ![b] = "idle"]
    /\ UNCHANGED <<hungup, atBooth, took, total, billed, dispenserVars, vehicleVars,
                   joined, lane, mail, reply, spoiled>>

BoothCloses(b) ==
    /\ booth[b] = "closing" /\ BoothWrites(b, [kind |-> "exit"], "idle")
    /\ UNCHANGED <<hungup, atBooth, took, total, billed, dispenserVars, vehicleVars,
                   joined, lane, reply>>

Booth(b) ==
    BoothOpens(b) \/ BoothTakes(b) \/ BoothSticks(b) \/ BoothAsks(b) \/ BoothReads(b)
    \/ BoothCloses(b)

-----------------------------------------------------------------------------
(* Vehicles *)

Arrives(v, d) ==
    /\ driver[v] = "home" /\ dispenser[d] = "up"
    /\ driver' = [driver EXCEPT ![v] = "first"] /\ via' = [via EXCEPT ![v] = d]
    /\ road' = [road EXCEPT ![d] = Append(@, v)]
    /\ UNCHANGED <<dispenser, serving, boothVars, typed, told, joined, lane, mail, reply,
                   spoiled>>

\* The other ends of the connection are all closed.
Closed(v) ==
    /\ dispenser[via[v]] = "dead"
    /\ \A b \in Booths :
          booth[b] # "dead" =>
             /\ v \notin took[b]
             /\ \A d \in Dispensers : \A k \in 1..Len(lane[b][d]) : lane[b][d][k] # v

\* The first record is printed; of the others "exit" ends V and the rest, the
\* empty one at the end of the connection too, are prompts.
DriverReads(v) ==
    /\ driver[v] \in {"first", "reading"} /\ (mail[v] # <<>> \/ Closed(v))
    /\ LET m == IF mail[v] = <<>> THEN [kind |-> "end"] ELSE Head(mail[v])
           next == IF driver[v] = "first" THEN "reading"
                   ELSE IF m.kind = "exit" THEN "done" ELSE "typing"
       IN  /\ driver' = [driver EXCEPT ![v] = next]
           /\ told' = [told EXCEPT ![v] = IF m.kind = "go" THEN m.booth ELSE @]
    /\ mail' = [mail EXCEPT ![v] = IF @ = <<>> THEN @ ELSE Tail(@)]
    /\ UNCHANGED <<dispenserVars, boothVars, via, typed, joined, lane, reply, spoiled>>

DriverTypes(v, amount) ==
    /\ driver[v] = "typing"
    /\ \/ /\ ~Closed(v) /\ driver' = [driver EXCEPT ![v] = "reading"]
          /\ reply' = [reply EXCEPT ![v] = Append(@, amount)]
          /\ typed' = [typed EXCEPT ![v] = amount]
       \/ /\ Closed(v) /\ \E s \in {"reading", "lost"} : driver' = [driver EXCEPT ![v] = s]
          /\ UNCHANGED <<reply, typed>>
    /\ UNCHANGED <<dispenserVars, boothVars, via, told, joined, lane, mail, spoiled>>

\* The user ends V; what was sent to it is lost.
Leaves(v) ==
    /\ v \in Leavers /\ driver[v] \in {"first", "reading", "typing"}
    /\ driver' = [driver EXCEPT ![v] = "left"] /\ mail' = [mail EXCEPT ![v] = <<>>]
    /\ UNCHANGED <<dispenserVars, boothVars, via, typed, told, joined, lane, reply, spoiled>>

Vehicle(v) ==
    \/ \E d \in Dispensers : Arrives(v, d)
    \/ DriverReads(v) \/ Leaves(v)
    \/ \E amount \in Amounts : DriverTypes(v, amount)

-----------------------------------------------------------------------------
TollNext ==
    \/ \E d \in Dispensers : Dispenser(d)
    \/ \E b \in Booths : BoothStarts(b) \/ Booth(b)
    \/ \E v \in Vehicles : Vehicle(v)

\* Programs that run go on.  A driver who is asked again and again pays in the
\* end: the code has no timeout, and a driver who never does holds the booth.
TollFairness ==
    /\ \A d \in Dispensers : WF_tollVars(DispenserTakes(d) \/ DispenserSends(d))
    /\ \A b \in Booths : WF_tollVars(Booth(b))
    /\ \A v \in Vehicles : WF_tollVars(DriverReads(v))
    /\ SF_tollVars(\E v \in Vehicles, amount \in Amounts \ {0} : DriverTypes(v, amount))

TollSpec == TollInit /\ [][TollNext]_tollVars /\ TollFairness

-----------------------------------------------------------------------------
(* Properties *)

\* What a booth has added up is what the vehicles it billed typed, each once,
\* and every one of them was told that booth (serve_vehicle of B1.c against
\* main of D1.c and V.c).
TotalsAddUp ==
    \A b \in Booths :
        /\ total[b] = SumFunctionOnSet(typed, billed[b])
        /\ \A v \in billed[b] : told[v] = b

\* What makes TotalsAddUp inductive.  A vehicle's descriptor is in one place:
\* not accepted, with its dispenser, on its way to a booth or with a booth.
Passed(v) ==
    \/ \E b \in Booths : v \in took[b]
    \/ \E b \in Booths, d \in Dispensers : \E k \in 1..Len(lane[b][d]) : lane[b][d][k] = v

Placed(v) ==
    /\ \A d \in Dispensers : \A k \in 1..Len(road[d]) : road[d][k] = v =>
          /\ via[v] = d /\ driver[v] # "home" /\ ~Passed(v)
          /\ \A e \in Dispensers : serving[e] # v
          /\ \A i \in 1..Len(road[d]) : road[d][i] = v => i = k
    /\ \A d \in Dispensers : serving[d] = v =>
          via[v] = d /\ driver[v] # "home" /\ ~Passed(v) /\ dispenser[d] = "up"
    /\ \A b \in Booths, d \in Dispensers : \A k \in 1..Len(lane[b][d]) : lane[b][d][k] = v =>
          /\ driver[v] # "home" /\ \A c \in Booths : v \notin took[c]
          /\ \A c \in Booths, e \in Dispensers : \A i \in 1..Len(lane[c][e]) :
                lane[c][e][i] = v => c = b /\ e = d /\ i = k
    /\ \A b, c \in Booths : v \in took[b] \cap took[c] => b = c
    /\ \A b \in Booths : v \in took[b] => driver[v] # "home"

Go(b) == [kind |-> "go", booth |-> b]
AmountPlease == [kind |-> "amount"]

\* How far vehicle v and booth b are: nothing was said; the vehicle was told
\* the booth; it was asked for an amount, at most once; it has paid.
Silent(v) == mail[v] = <<>> /\ reply[v] = <<>> /\ driver[v] \in {"first", "left"}

Directed(v, b) ==
    /\ reply[v] = <<>>
    /\ \/ driver[v] = "left" /\ mail[v] = <<>>
       \/ driver[v] = "first" /\ mail[v] = <<Go(b)>>
       \/ driver[v] = "reading" /\ mail[v] = <<>> /\ told[v] = b

Asked(v, b) ==
    \/ driver[v] = "first" /\ mail[v] = <<Go(b), AmountPlease>> /\ reply[v] = <<>>
    \/ driver[v] = "left" /\ mail[v] = <<>> /\ reply[v] = <<>>
    \/ /\ told[v] = b
       /\ \/ driver[v] = "reading" /\ mail[v] = <<AmountPlease>> /\ reply[v] = <<>>
          \/ driver[v] = "typing" /\ mail[v] = <<>> /\ reply[v] = <<>>
          \/ driver[v] \in {"reading", "left"} /\ mail[v] = <<>> /\ reply[v] = <<typed[v]>>

Paid(v, b) ==
    /\ told[v] = b /\ reply[v] = <<>> /\ (mail[v] = <<>> \/ mail[v] = <<[kind |-> "exit"]>>)
    /\ driver[v] \in {"reading", "typing", "done", "left", "lost"}
    /\ driver[v] = "typing" => booth[b] = "dead" /\ dispenser[via[v]] = "dead"

Conversation(v) ==
    /\ IF driver[v] = "home" THEN mail[v] = <<>> /\ reply[v] = <<>> ELSE via[v] \in Dispensers
    /\ \A d \in Dispensers : serving[d] = v => Silent(v)
    /\ \A d \in Dispensers : \A k \in 1..Len(road[d]) :
          road[d][k] = v /\ dispenser[d] # "dead" => Silent(v)
    /\ \A b \in Booths, d \in Dispensers : \A k \in 1..Len(lane[b][d]) :
          lane[b][d][k] = v /\ booth[b] # "dead" => Directed(v, b)
    /\ \A b \in Booths : v \in took[b] /\ v \notin billed[b] =>
          /\ v = atBooth[b]
          /\ \/ booth[b] = "asking" /\ Directed(v, b)
             \/ booth[b] = "reading" /\ Asked(v, b)
             \/ booth[b] = "dead"
    /\ \A b \in Booths : v \in billed[b] =>
          /\ v \in took[b] /\ Paid(v, b)
          /\ booth[b] = "closing" /\ v = atBooth[b] => mail[v] = <<>>

AtBooth(b) ==
    /\ booth[b] \in {"asking", "reading"} => atBooth[b] \in took[b] /\ atBooth[b] \notin billed[b]
    /\ booth[b] = "closing" => atBooth[b] \in billed[b]
    /\ IsFiniteSet(billed[b])

TollInv ==
    /\ TollTypeOK
    /\ \A v \in Vehicles : Placed(v) /\ Conversation(v)
    /\ \A b \in Booths : AtBooth(b)
    /\ TotalsAddUp

SomeoneLeft == \E v \in Vehicles : driver[v] = "left"

\* Once every dispenser has reached both booths, a vehicle that connects gets
\* away, unless some vehicle leaves without having paid (poll loop of B1.c,
\* accept loop of D1.c).
AllUp ==
    /\ \A d \in Dispensers : dispenser[d] = "up"
    /\ \A b \in Booths : Listening(b) /\ Accepted(b) = Dispensers

EveryVehicleGetsAway ==
    \A v \in Vehicles :
        (AllUp /\ driver[v] = "first") ~> (driver[v] = "done" \/ SomeoneLeft)
=============================================================================
