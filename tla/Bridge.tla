------------------------------- MODULE Bridge -------------------------------
(***************************************************************************)
(* Two agents share a bridge with room for one, round after round: the      *)
(* first turn is claimed or auctioned.  Proposals bind the roles of a rate  *)
(* to any accounts; the identity assets of the rate decide who may act.     *)
(***************************************************************************)
EXTENDS RateBook

CONSTANT BridgeRounds   \* numbers of rounds of the fixtures: 1, 2, 3

VARIABLE world          \* [rounds, balances]

Agents == {"A", "B"}
Bids   == 1 .. 2
Other(agent) == IF agent = "A" THEN "B" ELSE "A"

Identity(agent) == <<"identity", agent>>
west == <<"west">>
east == <<"east">>
right == <<"crossing right">>
credit == <<"credit">>
firstTurn == <<"first turn">>
secondTurn == <<"second turn">>
free == <<"capacity free">>
active == <<"active">>
benefit == <<"priority benefit">>
trip == <<"completed trip">>

Initial(rounds) ==
  Sparse(At("bridge", One(<<"bridge">>) @@ One(free) @@ One(firstTurn) @@ One(active)
                        @@ <<"rounds remaining">> :> rounds - 1)
    @@ [cell \in UNION {DOMAIN At(a, One(Identity(a)) @@ One(west) @@ One(<<"energy">>)
                                       @@ One(credit) @@ One(<<"can bid">>)) : a \in Agents} |->
          IF cell[2] = credit THEN 2 * rounds ELSE 1])

(* Every rate but the last needs the bridge to be active.                   *)
OpenBridge == At("bridge", One(<<"bridge">>) @@ One(active))

SubmitBid(agent, amount, traveler) ==
  Exchange(TRUE,
    At(traveler, One(<<"can bid">>) @@ credit :> amount),
    At(traveler, One(<<"submitted">>) @@ One(<<"bid", amount>>) @@ <<"escrow">> :> amount),
    At(traveler, One(Identity(agent))) @@ OpenBridge)

Claim(agent, turn, gains, traveler) ==
  Exchange(TRUE,
    At(traveler, One(<<"can bid">>)) @@ At("bridge", One(free) @@ One(turn)),
    At(traveler, One(right) @@ gains),
    At(traveler, One(Identity(agent))) @@ OpenBridge)

ClaimFirst(agent, traveler) == Claim(agent, firstTurn, One(benefit), traveler)
ClaimSecond(agent, traveler) == Claim(agent, secondTurn, NoGoods, traveler)

(* Mutant: whoever is bound as the traveller may take the second turn. *)
YieldToAnyone(agent, traveler) ==
  Exchange(TRUE,
    At(traveler, One(<<"waiting">>)) @@ At("bridge", One(free) @@ One(secondTurn)),
    At(traveler, One(right)),
    OpenBridge)

YieldToWaiting(agent, traveler) ==
  Exchange(TRUE,
    At(traveler, One(<<"waiting">>)) @@ At("bridge", One(free) @@ One(secondTurn)),
    At(traveler, One(right)),
    At(traveler, One(Identity(agent))) @@ OpenBridge)

(* Mutant: a crossing hands back the first turn. *)
CrossKeepingTheTurn(agent, traveler) ==
  Exchange(TRUE,
    At(traveler, One(right) @@ One(west) @@ One(<<"energy">>)),
    At(traveler, One(<<"crossed">>) @@ One(east) @@ One(<<"spent energy">>))
      @@ At("bridge", One(free) @@ One(firstTurn)),
    At(traveler, One(Identity(agent))) @@ OpenBridge)

Cross(agent, traveler) ==
  Exchange(TRUE,
    At(traveler, One(right) @@ One(west) @@ One(<<"energy">>)),
    At(traveler, One(<<"crossed">>) @@ One(east) @@ One(<<"spent energy">>))
      @@ At("bridge", One(free) @@ One(secondTurn)),
    At(traveler, One(Identity(agent))) @@ OpenBridge)

(* Mutant: both pay what they bid. *)
RefundForfeited(bid) == <<"spent credit">> :> bid

(* The loser's bid leaves escrow as credit. *)
Refund(bid) == credit :> bid

Submission(bid) == One(<<"submitted">>) @@ One(<<"bid", bid>>) @@ <<"escrow">> :> bid

Resolve(agent, won, lost, winner, loser) ==
  Exchange(TRUE,
    At(winner, Submission(won)) @@ At(loser, Submission(lost))
      @@ At("bridge", One(free) @@ One(firstTurn)),
    At(winner, One(right) @@ <<"spent credit">> :> won @@ One(benefit))
      @@ At(loser, One(<<"waiting">>) @@ Refund(lost)),
    At(winner, One(Identity(agent))) @@ At(loser, One(Identity(Other(agent)))) @@ OpenBridge)

(* Agent A wins a tie. *)
Resolutions ==
  {IF bids[1] >= bids[2] THEN <<"A", bids[1], bids[2]>> ELSE <<"B", bids[2], bids[1]>> :
     bids \in Bids \X Bids}

Returned(agent) == One(east) @@ One(<<"crossed">>) @@ One(<<"spent energy">>)
Ready == One(west) @@ One(<<"can bid">>) @@ One(trip) @@ One(<<"energy">>)

ResetRound(first, second) ==
  Exchange(TRUE,
    At(first, Returned("A")) @@ At(second, Returned("B"))
      @@ At("bridge", One(secondTurn) @@ One(<<"rounds remaining">>)),
    At(first, Ready) @@ At(second, Ready) @@ At("bridge", One(firstTurn)),
    At(first, One(Identity("A"))) @@ At(second, One(Identity("B"))) @@ OpenBridge)

Finish(rounds, first, second) ==
  LET done == One(<<"crossed">>) @@ trip :> rounds - 1
  IN  Exchange(TRUE, At("bridge", One(active)), At("bridge", One(<<"solved">>)),
        At(first, One(Identity("A")) @@ done) @@ At(second, One(Identity("B")) @@ done)
          @@ At("bridge", One(<<"bridge">>)))

(* Proposals that bind roles to the agents `bound` chooses; those of the    *)
(* problem itself bind each role to the agent the rate is for.              *)
ProposalsOf(rounds, bound) ==
  UNION { {SubmitBid(a, bid, bound[a]) : a \in Agents, bid \in Bids},
          {ClaimFirst(a, bound[a]) : a \in Agents}, {ClaimSecond(a, bound[a]) : a \in Agents},
          {YieldToWaiting(a, bound[a]) : a \in Agents}, {Cross(a, bound[a]) : a \in Agents},
          {Resolve(r[1], r[2], r[3], bound[r[1]], bound[Other(r[1])]) : r \in Resolutions},
          IF rounds > 1 THEN {ResetRound(bound["A"], bound["B"])} ELSE {},
          {Finish(rounds, bound["A"], bound["B"])} }

Candidates(rounds) == ProposalsOf(rounds, [a \in Agents |-> a])
Impersonations(rounds) == ProposalsOf(rounds, [a \in Agents |-> Other(a)])

(* The mechanisms that are offered as ready-made proposals.                 *)
FirstComeRound(first) ==
  LET second == Other(first)
  IN  <<ClaimFirst(first, first), Cross(first, first), ClaimSecond(second, second), Cross(second, second)>>

(* Mutant: the first to claim is also asked to take the second turn. *)
AuctionRoundForOne(bidA, bidB) ==
  LET winner == IF bidA >= bidB THEN "A" ELSE "B"
  IN  <<SubmitBid("A", bidA, "A"), SubmitBid("B", bidB, "B"),
        Resolve(winner, Max({bidA, bidB}), Min({bidA, bidB}), winner, Other(winner)),
        Cross(winner, winner), ClaimSecond(Other(winner), Other(winner)),
        Cross(Other(winner), Other(winner))>>

AuctionRound(bidA, bidB) ==
  LET winner == IF bidA >= bidB THEN "A" ELSE "B"
      loser  == Other(winner)
  IN  <<SubmitBid("A", bidA, "A"), SubmitBid("B", bidB, "B"),
        Resolve(winner, Max({bidA, bidB}), Min({bidA, bidB}), winner, loser),
        Cross(winner, winner), YieldToWaiting(loser, loser), Cross(loser, loser)>>

(* Rounds one after the other, with a reset between two, then the finish.   *)
Session(rounds) ==
  FlattenSeq([n \in DOMAIN rounds |->
                rounds[n] \o IF n < Len(rounds) THEN <<ResetRound("A", "B")>> ELSE <<>>])
    \o <<Finish(Len(rounds), "A", "B")>>

Mechanisms(rounds) ==
  {Session([n \in 1 .. rounds |-> FirstComeRound(first)]) : first \in Agents}
    \cup {Session([n \in 1 .. rounds |-> IF n % 2 = 1 THEN AuctionRound(2, 1) ELSE AuctionRound(1, 2)])}
    \cup IF rounds = 1
         THEN {Session(<<AuctionRound(bids[1], bids[2])>>) : bids \in Bids \X Bids}
         ELSE {}

Invariants ==
  { {"west", "east"}, {"can bid", "submitted", "crossing right", "waiting", "crossed"},
    {"active", "solved"}, {"capacity free", "crossing right"},
    {"first turn", "second turn", "crossing right"}, {"energy", "spent energy"},
    {"credit", "escrow", "spent credit"} }

-----------------------------------------------------------------------------
Init == \E rounds \in BridgeRounds : world = [rounds |-> rounds, balances |-> Initial(rounds)]

Next ==
  \E x \in Candidates(world.rounds) \cup Impersonations(world.rounds) :
    /\ Accepted(world.balances, x, Invariants)
    /\ world' = [world EXCEPT !.balances = Settled(@, x)]

-----------------------------------------------------------------------------
Holds(account, asset) == Amount(world.balances, <<account, asset>>)

(* Nobody acts for somebody else: a proposal that binds an agent to the     *)
(* other's role is refused in every state, not only in the two that are     *)
(* tested (bridge.rs:708, encoded_identity_rejects_...).                    *)
NoImpersonation ==
  \A x \in Impersonations(world.rounds) : ~Accepted(world.balances, x, Invariants)

(* Priority is handed out once a round, to one agent, and only the agent    *)
(* that has it can have paid for it (bridge.rs:265).                        *)
PriorityIsAllottedOnce ==
  /\ Holds("A", benefit) + Holds("B", benefit) + Holds("bridge", firstTurn)
       + Holds("bridge", <<"rounds remaining">>) = world.rounds
  /\ Holds("A", right) + Holds("B", right) <= 1
  /\ \A a \in Agents :
       /\ Holds(a, <<"spent credit">>) <= 2 * Holds(a, benefit)
       /\ Holds(a, credit) + Holds(a, <<"escrow">>) + Holds(a, <<"spent credit">>) = 2 * world.rounds
       /\ Holds(a, trip) = Holds(Other(a), trip)

(* The only way to get stuck before the goal is a bid for a first turn that *)
(* the other agent has claimed: the bidder can neither withdraw nor cross.  *)
OnlyOrphanedBidsBlock ==
  (\A x \in Candidates(world.rounds) : ~Accepted(world.balances, x, Invariants)) =>
    \/ Holds("bridge", <<"solved">>) = 1
    \/ \E a \in Agents : Holds(a, <<"submitted">>) = 1 /\ Holds("bridge", firstTurn) = 0

(* validated_trace_from: the replay must be accepted and reach the goal.    *)
Validated(run) == run.ok /\ Matches(run.world, At("bridge", One(<<"solved">>)))

(* Every ready-made mechanism, in every fixture it is offered for, is       *)
(* accepted to its end, finishes, and gives up no bid of a loser            *)
(* (bridge.rs:624, validated_trace_from gives no proposal otherwise).       *)
MechanismsFinish ==
  world.balances = Initial(world.rounds) =>
    \A trace \in Mechanisms(world.rounds) :
      LET run == Replay(world.balances, trace, Invariants)
      IN  /\ Validated(run)
          /\ \A a \in Agents : Amount(run.world, <<a, <<"escrow">>>>) = 0
          /\ MapThenSumSet(LAMBDA a : Amount(run.world, <<a, benefit>>), Agents) = world.rounds
=============================================================================
