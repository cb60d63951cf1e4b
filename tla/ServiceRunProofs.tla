-------------------------- MODULE ServiceRunProofs --------------------------
(***************************************************************************)
(* A run of the service keeps its word, whatever is asked of it, into how   *)
(* many chunks its solvers split their work, and whoever pauses, resumes or *)
(* cancels it when.                                                         *)
(*                                                                         *)
(* The script of an adapter is a list, and what is left of it, what was     *)
(* made of it and what was shown of it are tied together by the invariant   *)
(* ServiceInv.  Until the documents are assembled (Making), the documents   *)
(* left to make have names of their own and none of those made, what was    *)
(* asked for is either left to make or made, and the frames shown are those *)
(* that a document which is shown while it is made has had.  Afterwards     *)
(* (Showing) only its frames and a last report are left, and the frames     *)
(* left follow those shown.                                                 *)
(*                                                                         *)
(* EvidenceInv says whose the observations of a document are: what is left  *)
(* of the script keeps the planner's reports as soon as they were made, the *)
(* samples' after the reports about their front, and both before any        *)
(* document is replayed (Ordered).  So the sink still has the planner's     *)
(* when they are kept, however small it is, and a sample whenever it is     *)
(* larger than the reports that came after (Ready).                         *)
(***************************************************************************)
EXTENDS MCProblems, SequenceTheorems, TLAPS

(* The names of documents and phases, and what an adapter does with its     *)
(* sink.                                                                    *)
Labels ==
  {"breadth_first", "algorithm_x", "unsatisfiable", "minimum_waste",
   "pareto_waste", "pareto_time", "best_first", "bounded_optimizer",
   "pareto_job_one", "pareto_job_two", "infeasible_horizon",
   "observe_then_follow", "direct_north", "first_come_a", "first_come_b",
   "auction", "pareto_a", "pareto_b", "market_day", "no_whale",
   "thin_liquidity", "market_clearing", "pareto_buyers", "pareto_sellers",
   "outage", "pareto_inventory", "pareto_energy", "dijkstra", "a_star",
   "deadlock", "direct", "reliable", "mcts", "mcts_game", "coordinated",
   "mixed_field", "throughput_field", "sustainable_field", "prepare",
   "pareto_frontier", "monte_carlo", "pareto_sampling", "ismcts",
   "multi_agent_match", "artifact"}

Entry ==
  [do : {"report"}, phase : Labels, times : Nat \ {0}]
    \cup [do : {"keep"}, document : Labels, phase : Labels]
    \cup [do : {"replay"}, document : Labels, own : SUBSET Labels]
    \cup [do : {"perform", "frames"}, document : Labels, times : Nat \ {0}]
    \cup [do : {"assemble"}]

KeptType == UNION {[names -> SUBSET Labels] : names \in SUBSET Labels}

DocumentType == [strategy : Labels, solved : SUBSET Labels]

RunType ==
  [request : Service!Requests \cup Service!Wrong, at : {"begin", "script", "publish", "ensure"},
   script : Seq(Entry),
   error : {"none", "cancelled"}, observations : Seq(Labels),
   kept : KeptType, documents : Seq(DocumentType),
   frames : Seq([document : Labels, index : Int]), reports : Nat,
   result : {"none", "ok", "cancelled", "problem", "unknown problem", "unknown strategy", "unknown instance"},
   paused : BOOLEAN, cancelled : BOOLEAN, pauses : Nat, seen : Nat]

IsDocument(entry) == entry.do \in {"replay", "perform"}

(* The documents of a script have names of their own, and at most the one   *)
(* that was asked for is shown while it is made.                            *)
Distinct(script, asked) ==
  /\ script \in Seq(Entry)
  /\ \A n \in 1 .. Len(script) : script[n].do \in {"report", "keep", "replay", "perform"}
  /\ \A m, n \in 1 .. Len(script) :
       IsDocument(script[m]) /\ IsDocument(script[n]) /\ script[m].document = script[n].document => m = n
  /\ \A n \in 1 .. Len(script) :
       script[n].do = "perform" => script[n].document = asked /\ script[n].times = Replayed

Offers(script, asked) ==
  \E n \in 1 .. Len(script) : IsDocument(script[n]) /\ script[n].document = asked

(* While documents are made: what is left to make differs from what was     *)
(* made, what was asked for is one of the two, and the frames shown are     *)
(* those the one that is shown while it is made has had.                    *)
Making(script, documents, shown, asked) ==
  /\ script # <<>>
  /\ \A n \in 1 .. Len(script) : script[n].do = "assemble" <=> n = Len(script)
  /\ \A n \in 1 .. Len(script) : script[n].do # "frames"
  /\ \A m, n \in 1 .. Len(script) :
       IsDocument(script[m]) /\ IsDocument(script[n]) /\ script[m].document = script[n].document => m = n
  /\ \A n \in 1 .. Len(script), k \in 1 .. Len(documents) :
       IsDocument(script[n]) => script[n].document # documents[k].strategy
  /\ Offers(script, asked) \/ \E k \in 1 .. Len(documents) : documents[k].strategy = asked
  /\ \A n \in 1 .. Len(script) :
       script[n].do = "perform" => script[n].document = asked /\ shown = Replayed - script[n].times
  /\ (\A n \in 1 .. Len(script) : script[n].do # "perform") => shown \in {0, Replayed}

(* Once they are assembled: the frames that are left follow those shown. *)
Showing(script, shown, asked) ==
  /\ \A n \in 1 .. Len(script) : script[n].do \in {"frames", "report"}
  /\ \A n \in 1 .. Len(script) :
       script[n].do = "frames" => n = 1 /\ script[n].document = asked /\ shown = Replayed - script[n].times
  /\ (\A n \in 1 .. Len(script) : script[n].do # "frames") => shown = Replayed

FreshInv ==
  world.at = "begin" =>
    world.script = <<>> /\ world.documents = <<>> /\ world.frames = <<>> /\ world.result # "ok"

StageInv ==
  world.at # "begin" =>
    /\ Service!Selected \in Labels /\ Service!Exchanges(Service!Selected) = Replayed
    /\ \/ Making(world.script, world.documents, Len(world.frames), Service!Selected) /\ world.result # "ok"
       \/ Showing(world.script, Len(world.frames), Service!Selected)

FramesInv == \A n \in 1 .. Len(world.frames) : world.frames[n] = [document |-> Service!Selected, index |-> n]

NamesInv ==
  \A m, n \in 1 .. Len(world.documents) :
    world.documents[m].strategy = world.documents[n].strategy => m = n

(* A report that passed the control is published, one that did not ends it. *)
ReportInv ==
  /\ world.at = "publish" => world.script # <<>> /\ Head(world.script).do = "report"
  /\ world.at = "ensure" <=> world.error = "cancelled"
  /\ world.at = "ensure" => world.cancelled
  /\ world.result \in {"cancelled"} => world.cancelled
  /\ world.result = "ok" => world.script = <<>>
  /\ world.result # "problem"

CancelInv ==
  world.cancelled => world.reports <= world.seen + IF world.at = "publish" THEN 0 ELSE 1

ServiceInv ==
  /\ world \in RunType
  /\ FreshInv /\ StageInv /\ FramesInv /\ NamesInv /\ ReportInv /\ CancelInv

-----------------------------------------------------------------------------
LEMMA EntryFields ==
  ASSUME NEW entry \in Entry
  PROVE  /\ entry.do \in {"report", "keep", "replay", "perform", "frames", "assemble"}
         /\ entry.do \in {"report", "perform", "frames"} => entry.times \in Nat \ {0}
         /\ entry.do \in {"keep", "replay", "perform", "frames"} => entry.document \in Labels
         /\ entry.do \in {"report", "keep"} => entry.phase \in Labels
         /\ entry.do = "replay" => entry.own \in SUBSET Labels
  BY DEF Entry

LEMMA EntryOnceMore ==
  ASSUME NEW entry \in Entry, entry.do \in {"report", "perform", "frames"}, entry.times # 1
  PROVE  LET less == [entry EXCEPT !.times = @ - 1]
         IN  /\ less \in Entry /\ less.do = entry.do /\ less.times = entry.times - 1
             /\ entry.do # "report" => less.document = entry.document
             /\ entry.do = "report" => less.phase = entry.phase
<1>1. CASE entry.do = "report"
  <2>1. entry \in [do : {"report"}, phase : Labels, times : Nat \ {0}]
    BY <1>1 DEF Entry
  <2>2. entry.times - 1 \in Nat \ {0}
    BY <2>1
  <2> QED  BY <1>1, <2>1, <2>2 DEF Entry
<1>2. CASE entry.do \in {"perform", "frames"}
  <2>1. entry \in [do : {"perform", "frames"}, document : Labels, times : Nat \ {0}]
    BY <1>2 DEF Entry
  <2>2. entry.times - 1 \in Nat \ {0}
    BY <2>1
  <2> QED  BY <1>2, <2>1, <2>2 DEF Entry
<1> QED  BY <1>1, <1>2

(* What an adapter puts together. *)
LEMMA DistinctJoin ==
  ASSUME NEW asked, NEW left, NEW right, Distinct(left, asked), Distinct(right, asked),
         \A m \in 1 .. Len(left), n \in 1 .. Len(right) :
           IsDocument(left[m]) /\ IsDocument(right[n]) => left[m].document # right[n].document
  PROVE  /\ Distinct(left \o right, asked)
         /\ Offers(left, asked) \/ Offers(right, asked) => Offers(left \o right, asked)
<1> DEFINE both == left \o right
<1>1. left \in Seq(Entry) /\ right \in Seq(Entry)
  BY DEF Distinct
<1>2. both \in Seq(Entry) /\ Len(both) = Len(left) + Len(right)
  BY <1>1
<1>3. Len(left) \in Nat /\ Len(right) \in Nat
  BY <1>1
<1>4. \A n \in 1 .. Len(left) : both[n] = left[n]
  BY <1>1, <1>3
<1>5. \A n \in 1 .. Len(right) : both[Len(left) + n] = right[n]
  BY <1>1, <1>3
<1>6. ASSUME NEW n \in 1 .. Len(both), n \notin 1 .. Len(left)
      PROVE  n - Len(left) \in 1 .. Len(right) /\ both[n] = right[n - Len(left)]
  <2>1. n - Len(left) \in 1 .. Len(right)
    BY <1>2, <1>3, <1>6
  <2>2. n = Len(left) + (n - Len(left))
    BY <1>3
  <2> QED  BY <1>5, <2>1, <2>2
<1> HIDE DEF both
<1>7. \A n \in 1 .. Len(both) : both[n].do \in {"report", "keep", "replay", "perform"}
  BY <1>4, <1>6 DEF Distinct
<1>8. \A n \in 1 .. Len(both) :
        both[n].do = "perform" => both[n].document = asked /\ both[n].times = Replayed
  <2> TAKE n \in 1 .. Len(both)
  <2>1. CASE n \in 1 .. Len(left)
    BY <1>4, <2>1 DEF Distinct
  <2>2. CASE n \notin 1 .. Len(left)
    <3>1. n - Len(left) \in 1 .. Len(right) /\ both[n] = right[n - Len(left)]
      BY <1>6, <2>2
    <3> QED  BY <3>1 DEF Distinct
  <2> QED  BY <2>1, <2>2
<1>9. ASSUME NEW m \in 1 .. Len(both), NEW n \in 1 .. Len(both),
             IsDocument(both[m]), IsDocument(both[n]), both[m].document = both[n].document
      PROVE  m = n
  <2>1. CASE m \in 1 .. Len(left) /\ n \in 1 .. Len(left)
    BY <1>4, <1>9, <2>1 DEF Distinct
  <2>2. CASE m \in 1 .. Len(left) /\ n \notin 1 .. Len(left)
    BY <1>4, <1>6, <1>9, <2>2
  <2>3. CASE m \notin 1 .. Len(left) /\ n \in 1 .. Len(left)
    BY <1>4, <1>6, <1>9, <2>3
  <2>4. CASE m \notin 1 .. Len(left) /\ n \notin 1 .. Len(left)
    <3>1. /\ m - Len(left) \in 1 .. Len(right) /\ both[m] = right[m - Len(left)]
          /\ n - Len(left) \in 1 .. Len(right) /\ both[n] = right[n - Len(left)]
      BY <1>6, <2>4
    <3>2. /\ IsDocument(right[m - Len(left)]) /\ IsDocument(right[n - Len(left)])
          /\ right[m - Len(left)].document = right[n - Len(left)].document
      BY <1>9, <3>1
    <3>3. m - Len(left) = n - Len(left)
      BY <3>1, <3>2 DEF Distinct
    <3> QED  BY <1>3, <3>3
  <2> QED  BY <2>1, <2>2, <2>3, <2>4
<1>10. Distinct(both, asked)
  BY <1>2, <1>7, <1>8, <1>9 DEF Distinct
<1>11. Offers(left, asked) => Offers(both, asked)
  BY <1>2, <1>3, <1>4 DEF Offers
<1>12. ASSUME NEW n \in 1 .. Len(right), IsDocument(right[n]), right[n].document = asked
       PROVE  Offers(both, asked)
  <2>1. Len(left) + n \in 1 .. Len(both)
    BY <1>2, <1>3
  <2> QED  BY <1>5, <1>12, <2>1 DEF Offers
<1> QED  BY <1>10, <1>11, <1>12 DEF both, Offers

LEMMA ReplaysAreDistinct ==
  ASSUME NEW names \in Seq(Labels), NEW asked,
         \A m, n \in 1 .. Len(names) : names[m] = names[n] => m = n
  PROVE  /\ Distinct(Service!Replays(names), asked)
         /\ Len(Service!Replays(names)) = Len(names)
         /\ \A n \in 1 .. Len(names) : Service!Replays(names)[n] = Service!Replay(names[n], {})
         /\ (\E n \in 1 .. Len(names) : names[n] = asked) => Offers(Service!Replays(names), asked)
<1>1. DOMAIN names = 1 .. Len(names) /\ Len(names) \in Nat
  OBVIOUS
<1>2. \A n \in 1 .. Len(names) : names[n] \in Labels
  OBVIOUS
<1>3. \A n \in 1 .. Len(names) : Service!Replay(names[n], {}) \in Entry
  BY <1>2 DEF Service!Replay, Entry
<1> DEFINE parts == [n \in 1 .. Len(names) |-> Service!Replay(names[n], {})]
<1>4. Service!Replays(names) = parts
  BY <1>1 DEF Service!Replays
<1>5. parts \in Seq(Entry) /\ Len(parts) = Len(names)
  BY <1>1, <1>3
<1>6. \A n \in 1 .. Len(names) :
        /\ parts[n] = Service!Replay(names[n], {}) /\ parts[n].do = "replay" /\ parts[n].document = names[n]
  BY DEF Service!Replay
<1> HIDE DEF parts
<1> QED  BY <1>1, <1>4, <1>5, <1>6 DEF Distinct, Offers, IsDocument

LEMMA ReportsAreDistinct ==
  ASSUME NEW phase \in Labels, NEW times \in Nat \ {0}, NEW asked
  PROVE  /\ Distinct(<<Service!Report(phase, times)>>, asked)
         /\ Len(<<Service!Report(phase, times)>>) = 1
         /\ \A n \in 1 .. Len(<<Service!Report(phase, times)>>) : ~IsDocument(<<Service!Report(phase, times)>>[n])
<1>1. Service!Report(phase, times) \in Entry /\ Service!Report(phase, times).do = "report"
  BY DEF Service!Report, Entry
<1> QED  BY <1>1 DEF Distinct, IsDocument

LEMMA TwoReportsAreDistinct ==
  ASSUME NEW one \in Labels, NEW some \in Nat \ {0}, NEW other \in Labels, NEW more \in Nat \ {0}, NEW asked
  PROVE  /\ Distinct(<<Service!Report(one, some), Service!Report(other, more)>>, asked)
         /\ Len(<<Service!Report(one, some), Service!Report(other, more)>>) = 2
         /\ \A n \in 1 .. Len(<<Service!Report(one, some), Service!Report(other, more)>>) :
              ~IsDocument(<<Service!Report(one, some), Service!Report(other, more)>>[n])
<1>1. /\ Service!Report(one, some) \in Entry /\ Service!Report(one, some).do = "report"
      /\ Service!Report(other, more) \in Entry /\ Service!Report(other, more).do = "report"
  BY DEF Service!Report, Entry
<1> DEFINE a == Service!Report(one, some)
           b == Service!Report(other, more)
<1> HIDE DEF a, b
<1>2. /\ <<a, b>> \in Seq(Entry) /\ Len(<<a, b>>) = 2
      /\ \A n \in 1 .. 2 : <<a, b>>[n].do = "report"
  BY <1>1 DEF a, b
<1>3. Distinct(<<a, b>>, asked) /\ \A n \in 1 .. Len(<<a, b>>) : ~IsDocument(<<a, b>>[n])
  BY <1>2 DEF Distinct, IsDocument
<1> QED  BY <1>2, <1>3 DEF a, b

-----------------------------------------------------------------------------
(* What was asked for is in the catalogue, and is made once. *)
LEMMA NamesOf2 ==
  ASSUME NEW a \in Labels, NEW b \in Labels,
         a # b
  PROVE  LET names == <<a, b>>
         IN  /\ names \in Seq(Labels)
             /\ \A m, n \in 1 .. Len(names) : names[m] = names[n] => m = n
             /\ \A name \in {a, b} : \E n \in 1 .. Len(names) : names[n] = name
<1> DEFINE names == <<a, b>>
<1>1. /\ names \in Seq(Labels) /\ Len(names) = 2
      /\ names[1] = a /\ names[2] = b
  OBVIOUS
<1> HIDE DEF names
<1>2. \A n \in 1 .. 2 : n = 1 \/ n = 2
  OBVIOUS
<1>3. \A m, n \in 1 .. Len(names) : names[m] = names[n] => m = n
  BY <1>1, <1>2
<1>4. \A name \in {a, b} : \E n \in 1 .. Len(names) : names[n] = name
  <2>1. 1 \in 1 .. Len(names) /\ 2 \in 1 .. Len(names)
    BY <1>1
  <2> QED  BY <1>1, <2>1
<1> QED  BY <1>1, <1>3, <1>4 DEF names

LEMMA NamesOf3 ==
  ASSUME NEW a \in Labels, NEW b \in Labels, NEW c \in Labels,
         a # b, a # c, b # c
  PROVE  LET names == <<a, b, c>>
         IN  /\ names \in Seq(Labels)
             /\ \A m, n \in 1 .. Len(names) : names[m] = names[n] => m = n
             /\ \A name \in {a, b, c} : \E n \in 1 .. Len(names) : names[n] = name
<1> DEFINE names == <<a, b, c>>
<1>1. /\ names \in Seq(Labels) /\ Len(names) = 3
      /\ names[1] = a /\ names[2] = b /\ names[3] = c
  OBVIOUS
<1> HIDE DEF names
<1>2. \A n \in 1 .. 3 : n = 1 \/ n = 2 \/ n = 3
  OBVIOUS
<1>3. \A m, n \in 1 .. Len(names) : names[m] = names[n] => m = n
  BY <1>1, <1>2
<1>4. \A name \in {a, b, c} : \E n \in 1 .. Len(names) : names[n] = name
  <2>1. 1 \in 1 .. Len(names) /\ 2 \in 1 .. Len(names) /\ 3 \in 1 .. Len(names)
    BY <1>1
  <2> QED  BY <1>1, <2>1
<1> QED  BY <1>1, <1>3, <1>4 DEF names

LEMMA NamesOf4 ==
  ASSUME NEW a \in Labels, NEW b \in Labels, NEW c \in Labels, NEW d \in Labels,
         a # b, a # c, a # d, b # c, b # d, c # d
  PROVE  LET names == <<a, b, c, d>>
         IN  /\ names \in Seq(Labels)
             /\ \A m, n \in 1 .. Len(names) : names[m] = names[n] => m = n
             /\ \A name \in {a, b, c, d} : \E n \in 1 .. Len(names) : names[n] = name
<1> DEFINE names == <<a, b, c, d>>
<1>1. /\ names \in Seq(Labels) /\ Len(names) = 4
      /\ names[1] = a /\ names[2] = b /\ names[3] = c /\ names[4] = d
  OBVIOUS
<1> HIDE DEF names
<1>2. \A n \in 1 .. 4 : n = 1 \/ n = 2 \/ n = 3 \/ n = 4
  OBVIOUS
<1>3. \A m, n \in 1 .. Len(names) : names[m] = names[n] => m = n
  BY <1>1, <1>2
<1>4. \A name \in {a, b, c, d} : \E n \in 1 .. Len(names) : names[n] = name
  <2>1. 1 \in 1 .. Len(names) /\ 2 \in 1 .. Len(names) /\ 3 \in 1 .. Len(names) /\ 4 \in 1 .. Len(names)
    BY <1>1
  <2> QED  BY <1>1, <2>1
<1> QED  BY <1>1, <1>3, <1>4 DEF names

LEMMA NamesOf5 ==
  ASSUME NEW a \in Labels, NEW b \in Labels, NEW c \in Labels, NEW d \in Labels, NEW e \in Labels,
         a # b, a # c, a # d, a # e, b # c, b # d, b # e, c # d, c # e, d # e
  PROVE  LET names == <<a, b, c, d, e>>
         IN  /\ names \in Seq(Labels)
             /\ \A m, n \in 1 .. Len(names) : names[m] = names[n] => m = n
             /\ \A name \in {a, b, c, d, e} : \E n \in 1 .. Len(names) : names[n] = name
<1> DEFINE names == <<a, b, c, d, e>>
<1>1. /\ names \in Seq(Labels) /\ Len(names) = 5
      /\ names[1] = a /\ names[2] = b /\ names[3] = c /\ names[4] = d /\ names[5] = e
  OBVIOUS
<1> HIDE DEF names
<1>2. \A n \in 1 .. 5 : n = 1 \/ n = 2 \/ n = 3 \/ n = 4 \/ n = 5
  OBVIOUS
<1>3. \A m, n \in 1 .. Len(names) : names[m] = names[n] => m = n
  BY <1>1, <1>2
<1>4. \A name \in {a, b, c, d, e} : \E n \in 1 .. Len(names) : names[n] = name
  <2>1. /\ 1 \in 1 .. Len(names) /\ 2 \in 1 .. Len(names) /\ 3 \in 1 .. Len(names)
        /\ 4 \in 1 .. Len(names) /\ 5 \in 1 .. Len(names)
    BY <1>1
  <2> QED  BY <1>1, <2>1
<1> QED  BY <1>1, <1>3, <1>4 DEF names

LEMMA NamesOf6 ==
  ASSUME NEW a \in Labels, NEW b \in Labels, NEW c \in Labels,
         NEW d \in Labels, NEW e \in Labels, NEW f \in Labels,
         a # b, a # c, a # d, a # e, a # f, b # c, b # d, b # e, b # f, c # d, c # e, c # f, d # e, d # f, e # f
  PROVE  LET names == <<a, b, c, d, e, f>>
         IN  /\ names \in Seq(Labels)
             /\ \A m, n \in 1 .. Len(names) : names[m] = names[n] => m = n
             /\ \A name \in {a, b, c, d, e, f} : \E n \in 1 .. Len(names) : names[n] = name
<1> DEFINE names == <<a, b, c, d, e, f>>
<1>1. /\ names \in Seq(Labels) /\ Len(names) = 6
      /\ names[1] = a /\ names[2] = b /\ names[3] = c /\ names[4] = d /\ names[5] = e /\ names[6] = f
  OBVIOUS
<1> HIDE DEF names
<1>2. \A n \in 1 .. 6 : n = 1 \/ n = 2 \/ n = 3 \/ n = 4 \/ n = 5 \/ n = 6
  OBVIOUS
<1>3. \A m, n \in 1 .. Len(names) : names[m] = names[n] => m = n
  BY <1>1, <1>2
<1>4. \A name \in {a, b, c, d, e, f} : \E n \in 1 .. Len(names) : names[n] = name
  <2>1. /\ 1 \in 1 .. Len(names) /\ 2 \in 1 .. Len(names) /\ 3 \in 1 .. Len(names)
        /\ 4 \in 1 .. Len(names) /\ 5 \in 1 .. Len(names) /\ 6 \in 1 .. Len(names)
    BY <1>1
  <2> QED  BY <1>1, <2>1
<1> QED  BY <1>1, <1>3, <1>4 DEF names

LEMMA SilentIsDistinct ==
  ASSUME NEW problem \in DOMAIN Service!Silent, NEW asked
  PROVE  /\ Distinct(Service!Replays(Service!Silent[problem]), asked)
         /\ asked \in Service!Catalog[problem] => Offers(Service!Replays(Service!Silent[problem]), asked)
<1> DEFINE names == Service!Silent[problem]
<1>1. /\ names \in Seq(Labels)
      /\ \A m, n \in 1 .. Len(names) : names[m] = names[n] => m = n
      /\ asked \in Service!Catalog[problem] => \E n \in 1 .. Len(names) : names[n] = asked
  <2>1. problem \in {"exact_cover", "workshop", "scheduling", "rescue", "bridge", "amm", "marketplace",
                     "perishables"}
    BY DEF Service!Silent
  <2>2. CASE problem = "exact_cover"
    <3>1. names = <<"breadth_first", "algorithm_x", "unsatisfiable">>
      BY <2>2 DEF Service!Silent
    <3>2. Service!Catalog[problem] = {"breadth_first", "algorithm_x"}
      BY <2>2 DEF Service!Catalog
    <3>3. Service!Catalog[problem] \subseteq Labels /\ \A n \in 1 .. 3 : names[n] \in Labels
      BY <3>1, <3>2 DEF Labels
    <3> QED  BY <3>1, <3>2, <3>3, NamesOf3
  <2>3. CASE problem = "workshop"
    <3>1. names = <<"breadth_first", "minimum_waste", "pareto_waste", "pareto_time">>
      BY <2>3 DEF Service!Silent
    <3>2. Service!Catalog[problem] = {"breadth_first", "minimum_waste", "pareto_waste", "pareto_time"}
      BY <2>3 DEF Service!Catalog
    <3>3. Service!Catalog[problem] \subseteq Labels /\ \A n \in 1 .. 4 : names[n] \in Labels
      BY <3>1, <3>2 DEF Labels
    <3> QED  BY <3>1, <3>2, <3>3, NamesOf4
  <2>4. CASE problem = "scheduling"
    <3>1. names = <<"best_first", "bounded_optimizer", "pareto_job_one", "pareto_job_two", "infeasible_horizon">>
      BY <2>4 DEF Service!Silent
    <3>2. Service!Catalog[problem] = {"best_first", "bounded_optimizer", "pareto_job_one", "pareto_job_two"}
      BY <2>4 DEF Service!Catalog
    <3>3. Service!Catalog[problem] \subseteq Labels /\ \A n \in 1 .. 5 : names[n] \in Labels
      BY <3>1, <3>2 DEF Labels
    <3> QED  BY <3>1, <3>2, <3>3, NamesOf5
  <2>5. CASE problem = "rescue"
    <3>1. names = <<"observe_then_follow", "direct_north">>
      BY <2>5 DEF Service!Silent
    <3>2. Service!Catalog[problem] = {"observe_then_follow", "direct_north"}
      BY <2>5 DEF Service!Catalog
    <3>3. Service!Catalog[problem] \subseteq Labels /\ \A n \in 1 .. 2 : names[n] \in Labels
      BY <3>1, <3>2 DEF Labels
    <3> QED  BY <3>1, <3>2, <3>3, NamesOf2
  <2>6. CASE problem = "bridge"
    <3>1. names = <<"breadth_first", "first_come_a", "first_come_b", "auction", "pareto_a", "pareto_b">>
      BY <2>6 DEF Service!Silent
    <3>2. Service!Catalog[problem] = {"breadth_first", "first_come_a", "first_come_b", "auction",
                              "pareto_a", "pareto_b"}
      BY <2>6 DEF Service!Catalog
    <3>3. Service!Catalog[problem] \subseteq Labels /\ \A n \in 1 .. 6 : names[n] \in Labels
      BY <3>1, <3>2 DEF Labels
    <3> QED  BY <3>1, <3>2, <3>3, NamesOf6
  <2>7. CASE problem = "amm"
    <3>1. names = <<"market_day", "no_whale", "thin_liquidity">>
      BY <2>7 DEF Service!Silent
    <3>2. Service!Catalog[problem] = {"market_day", "no_whale", "thin_liquidity"}
      BY <2>7 DEF Service!Catalog
    <3>3. Service!Catalog[problem] \subseteq Labels /\ \A n \in 1 .. 3 : names[n] \in Labels
      BY <3>1, <3>2 DEF Labels
    <3> QED  BY <3>1, <3>2, <3>3, NamesOf3
  <2>8. CASE problem = "marketplace"
    <3>1. names = <<"market_clearing", "pareto_buyers", "pareto_sellers">>
      BY <2>8 DEF Service!Silent
    <3>2. Service!Catalog[problem] = {"market_clearing", "pareto_buyers", "pareto_sellers"}
      BY <2>8 DEF Service!Catalog
    <3>3. Service!Catalog[problem] \subseteq Labels /\ \A n \in 1 .. 3 : names[n] \in Labels
      BY <3>1, <3>2 DEF Labels
    <3> QED  BY <3>1, <3>2, <3>3, NamesOf3
  <2>9. CASE problem = "perishables"
    <3>1. names = <<"outage", "pareto_inventory", "pareto_energy">>
      BY <2>9 DEF Service!Silent
    <3>2. Service!Catalog[problem] = {"outage", "pareto_inventory", "pareto_energy"}
      BY <2>9 DEF Service!Catalog
    <3>3. Service!Catalog[problem] \subseteq Labels /\ \A n \in 1 .. 3 : names[n] \in Labels
      BY <3>1, <3>2 DEF Labels
    <3> QED  BY <3>1, <3>2, <3>3, NamesOf3
  <2> QED  BY <2>1, <2>2, <2>3, <2>4, <2>5, <2>6, <2>7, <2>8, <2>9
<1> HIDE DEF names
<1>2. /\ Distinct(Service!Replays(names), asked)
      /\ (\E n \in 1 .. Len(names) : names[n] = asked) => Offers(Service!Replays(names), asked)
  BY <1>1, ReplaysAreDistinct
<1> QED  BY <1>1, <1>2 DEF names

LEMMA MazeIsDistinct ==
  ASSUME NEW strategy \in Service!Catalog["maze"], NEW work \in Nat \ {0}
  PROVE  /\ Distinct(Service!Maze(strategy, work), strategy)
         /\ Offers(Service!Maze(strategy, work), strategy)
<1> DEFINE reports == IF strategy \in {"pareto_energy", "pareto_time"} THEN <<Service!Report("pareto_frontier", 1)>>
                      ELSE Service!MazeSearch(strategy, work)
           a == Service!MazeOwn("breadth_first")
           b == Service!MazeOwn("dijkstra")
           c == Service!MazeOwn("a_star")
           d == Service!Replay("pareto_energy", {"pareto_frontier"})
           e == Service!Replay("pareto_time", {"pareto_frontier"})
<1>1. strategy \in {"breadth_first", "dijkstra", "a_star", "pareto_energy", "pareto_time"}
  BY DEF Service!Catalog
<1>2. Distinct(reports, strategy) /\ \A n \in 1 .. Len(reports) : ~IsDocument(reports[n])
  <2>1. CASE strategy \in {"pareto_energy", "pareto_time"}
    <3>1. reports = <<Service!Report("pareto_frontier", 1)>>
      BY <2>1
    <3>2. "pareto_frontier" \in Labels
      BY DEF Labels
    <3> QED  BY <3>1, <3>2, ReportsAreDistinct
  <2>2. CASE strategy \notin {"pareto_energy", "pareto_time"}
    <3>1. reports = <<Service!Report(strategy, work), Service!Report(strategy, 1)>>
      BY <2>2 DEF Service!MazeSearch
    <3>2. {"breadth_first", "dijkstra", "a_star", "pareto_energy", "pareto_time"} \subseteq Labels
      BY DEF Labels
    <3>3. strategy \in Labels
      BY <1>1, <3>2
    <3> DEFINE two == <<Service!Report(strategy, work), Service!Report(strategy, 1)>>
    <3>4. Distinct(two, strategy) /\ \A n \in 1 .. Len(two) : ~IsDocument(two[n])
      BY <3>3, TwoReportsAreDistinct
    <3> HIDE DEF two
    <3>5. reports = two
      BY <3>1 DEF two
    <3> HIDE DEF reports
    <3> QED  BY <3>4, <3>5
  <2> QED  BY <2>1, <2>2
<1>3. /\ a \in Entry /\ a.do = "replay" /\ a.document = "breadth_first"
      /\ b \in Entry /\ b.do = "replay" /\ b.document = "dijkstra"
      /\ c \in Entry /\ c.do = "replay" /\ c.document = "a_star"
      /\ d \in Entry /\ d.do = "replay" /\ d.document = "pareto_energy"
      /\ e \in Entry /\ e.do = "replay" /\ e.document = "pareto_time"
  <2>1. \A name, own : Service!Replay(name, own).do = "replay" /\ Service!Replay(name, own).document = name
    BY DEF Service!Replay
  <2>2. \A name \in Labels, own \in SUBSET Labels : Service!Replay(name, own) \in Entry
    BY DEF Service!Replay, Entry
  <2>3. /\ {"breadth_first", "dijkstra", "a_star", "pareto_energy", "pareto_time"} \subseteq Labels
        /\ "pareto_frontier" \in Labels
    BY DEF Labels
  <2> QED  BY <2>1, <2>2, <2>3 DEF Service!MazeOwn
<1>4. Service!Maze(strategy, work) = reports \o <<a, b, c, d, e>>
  BY DEF Service!Maze
<1> HIDE DEF reports, a, b, c, d, e
<1>5. Distinct(<<a, b, c, d, e>>, strategy) /\ Offers(<<a, b, c, d, e>>, strategy)
  <2> DEFINE five == <<a, b, c, d, e>>
  <2>1. /\ five \in Seq(Entry) /\ Len(five) = 5
        /\ five[1] = a /\ five[2] = b /\ five[3] = c /\ five[4] = d /\ five[5] = e
    BY <1>3
  <2> HIDE DEF five
  <2>2. \A n \in 1 .. 5 : n = 1 \/ n = 2 \/ n = 3 \/ n = 4 \/ n = 5
    OBVIOUS
  <2>3. Distinct(five, strategy)
    BY <1>3, <2>1, <2>2 DEF Distinct
  <2>4. Offers(five, strategy)
    BY <1>1, <1>3, <2>1 DEF Offers, IsDocument
  <2> QED  BY <2>3, <2>4 DEF five
<1> QED  BY <1>2, <1>4, <1>5, DistinctJoin

LEMMA SokobanIsDistinct ==
  ASSUME NEW strategy \in Service!Catalog["sokoban"], NEW work \in Nat \ {0}, NEW deadlock \in BOOLEAN
  PROVE  /\ Distinct(Service!Sokoban(strategy, work, deadlock), strategy)
         /\ Offers(Service!Sokoban(strategy, work, deadlock), strategy)
<1> DEFINE a == Service!Report(strategy, work)
           b == Service!Replay(strategy, {})
           c == Service!Replay("deadlock", {})
<1> Service!Catalog["sokoban"] = {"a_star", "breadth_first"}
  BY DEF Service!Catalog
<1>1. strategy \in Labels /\ strategy # "deadlock" /\ "deadlock" \in Labels
  BY DEF Labels
<1>2. /\ a \in Entry /\ a.do = "report"
      /\ b \in Entry /\ b.do = "replay" /\ b.document = strategy
      /\ c \in Entry /\ c.do = "replay" /\ c.document = "deadlock"
  <2>1. \A name, own : Service!Replay(name, own).do = "replay" /\ Service!Replay(name, own).document = name
    BY DEF Service!Replay
  <2>2. \A name \in Labels, own \in SUBSET Labels : Service!Replay(name, own) \in Entry
    BY DEF Service!Replay, Entry
  <2>3. Service!Report(strategy, work) \in Entry /\ Service!Report(strategy, work).do = "report"
    BY <1>1 DEF Service!Report, Entry
  <2> QED  BY <1>1, <2>1, <2>2, <2>3
<1>3. Service!Sokoban(strategy, work, deadlock) = <<a, b>> \o IF deadlock THEN <<c>> ELSE <<>>
  BY DEF Service!Sokoban
<1> HIDE DEF a, b, c
<1>4. Distinct(<<a, b>>, strategy) /\ Offers(<<a, b>>, strategy)
  BY <1>2 DEF Distinct, Offers, IsDocument
<1>5. Distinct(<<c>>, strategy) /\ Distinct(<<>>, strategy)
  BY <1>2 DEF Distinct, IsDocument
<1>6. \A m \in 1 .. Len(<<a, b>>), n \in 1 .. Len(<<c>>) :
        IsDocument(<<a, b>>[m]) /\ IsDocument(<<c>>[n]) => <<a, b>>[m].document # <<c>>[n].document
  BY <1>1, <1>2 DEF IsDocument
<1>7. CASE deadlock
  BY <1>3, <1>4, <1>5, <1>6, <1>7, DistinctJoin
<1>8. CASE ~deadlock
  BY <1>3, <1>4, <1>5, <1>8, DistinctJoin
<1> QED  BY <1>7, <1>8

LEMMA SampledIsDistinct ==
  ASSUME NEW work \in Nat \ {0}, NEW asked
  PROVE  /\ Distinct(Service!Sampled(work), asked)
         /\ \A n \in 1 .. Len(Service!Sampled(work)) : ~IsDocument(Service!Sampled(work)[n])
<1>1. "monte_carlo" \in Labels /\ "pareto_sampling" \in Labels /\ 2 * work \in Nat \ {0}
  BY DEF Labels
<1> QED  BY <1>1, TwoReportsAreDistinct DEF Service!Sampled

LEMMA LogisticsIsDistinct ==
  ASSUME NEW strategy \in Service!Catalog["logistics"], NEW work \in Nat \ {0}
  PROVE  Distinct(Service!Logistics(work), strategy) /\ Offers(Service!Logistics(work), strategy)
<1> DEFINE first == Service!Sampled(work)
           two == Service!Replays(<<"direct", "reliable">>)
           a == Service!Report("mcts", work)
           b == Service!Replay("mcts", {})
<1>1. strategy \in {"direct", "reliable", "mcts"}
  BY DEF Service!Catalog
<1>2. "direct" \in Labels /\ "reliable" \in Labels /\ "mcts" \in Labels
  BY DEF Labels
<1>3. /\ Distinct(two, strategy) /\ Len(two) = 2
      /\ \A n \in 1 .. 2 : two[n] = Service!Replay(<<"direct", "reliable">>[n], {})
      /\ strategy \in {"direct", "reliable"} => Offers(two, strategy)
  <2> DEFINE names == <<"direct", "reliable">>
  <2>1. /\ names \in Seq(Labels) /\ Len(names) = 2
        /\ \A m, n \in 1 .. Len(names) : names[m] = names[n] => m = n
        /\ \A name \in {"direct", "reliable"} : \E n \in 1 .. Len(names) : names[n] = name
    BY <1>2, NamesOf2
  <2> HIDE DEF names
  <2>2. /\ Distinct(Service!Replays(names), strategy) /\ Len(Service!Replays(names)) = Len(names)
        /\ \A n \in 1 .. Len(names) : Service!Replays(names)[n] = Service!Replay(names[n], {})
        /\ (\E n \in 1 .. Len(names) : names[n] = strategy) => Offers(Service!Replays(names), strategy)
    BY <2>1, ReplaysAreDistinct
  <2> QED  BY <2>1, <2>2 DEF names
<1>4. \A n \in 1 .. 2 : two[n].document \in {"direct", "reliable"}
  <2>1. \A name, own : Service!Replay(name, own).document = name
    BY DEF Service!Replay
  <2> QED  BY <1>3, <2>1
<1>5. Distinct(first, strategy) /\ \A n \in 1 .. Len(first) : ~IsDocument(first[n])
  BY SampledIsDistinct
<1>6. a \in Entry /\ a.do = "report" /\ b \in Entry /\ b.do = "replay" /\ b.document = "mcts"
  BY <1>2 DEF Service!Report, Service!Replay, Entry
<1>7. Service!Logistics(work) = first \o two \o <<a, b>>
  BY DEF Service!Logistics
<1> HIDE DEF first, two, a, b
<1>8. /\ Distinct(<<a, b>>, strategy) /\ (strategy = "mcts" => Offers(<<a, b>>, strategy))
      /\ \A n \in 1 .. Len(<<a, b>>) : IsDocument(<<a, b>>[n]) => <<a, b>>[n].document = "mcts"
  BY <1>6 DEF Distinct, Offers, IsDocument
<1>9. first \in Seq(Entry) /\ two \in Seq(Entry) /\ <<a, b>> \in Seq(Entry)
  BY <1>3, <1>5, <1>6 DEF Distinct
<1>10. Service!Logistics(work) = first \o (two \o <<a, b>>)
  BY <1>7, <1>9
<1>11. Distinct(two \o <<a, b>>, strategy) /\ Offers(two \o <<a, b>>, strategy)
  BY <1>1, <1>3, <1>4, <1>8, DistinctJoin
<1> QED  BY <1>5, <1>10, <1>11, DistinctJoin

LEMMA ConnectFourIsDistinct ==
  ASSUME NEW strategy \in Service!Catalog["connect_four"], NEW work \in Nat \ {0}
  PROVE  Distinct(Service!ConnectFour(work), strategy) /\ Offers(Service!ConnectFour(work), strategy)
<1> DEFINE a == Service!Report("mcts_game", work)
           b == Service!Replay("mcts_game", {})
<1>1. strategy = "mcts_game"
  BY DEF Service!Catalog
<1>2. "mcts_game" \in Labels
  BY DEF Labels
<1>3. a \in Entry /\ a.do = "report" /\ b \in Entry /\ b.do = "replay" /\ b.document = "mcts_game"
  BY <1>2 DEF Service!Report, Service!Replay, Entry
<1>4. Service!ConnectFour(work) = <<a, b>>
  BY DEF Service!ConnectFour
<1> HIDE DEF a, b
<1> QED  BY <1>1, <1>3, <1>4 DEF Distinct, Offers, IsDocument

LEMMA MissionIsDistinct ==
  ASSUME NEW strategy \in Service!Catalog["mission"], NEW work \in Nat \ {0}
  PROVE  Distinct(Service!Mission(work), strategy) /\ Offers(Service!Mission(work), strategy)
<1> DEFINE first == Service!Sampled(work)
           a == Service!Keep("direct_north", "monte_carlo")
           b == Service!Report("ismcts", 2 * work)
           c == Service!Keep("coordinated", "ismcts")
           names == <<"coordinated", "direct_north">>
           two == Service!Replays(names)
<1>1. strategy \in {"coordinated", "direct_north"}
  BY DEF Service!Catalog
<1>2. /\ "direct_north" \in Labels /\ "coordinated" \in Labels
      /\ "monte_carlo" \in Labels /\ "ismcts" \in Labels /\ 2 * work \in Nat \ {0}
  BY DEF Labels
<1>3. /\ names \in Seq(Labels) /\ Len(names) = 2
      /\ \A m, n \in 1 .. Len(names) : names[m] = names[n] => m = n
      /\ \A name \in {"coordinated", "direct_north"} : \E n \in 1 .. Len(names) : names[n] = name
  BY <1>2, NamesOf2
<1>4. Service!Mission(work) = first \o <<a, b, c>> \o two
  BY DEF Service!Mission
<1>5. a \in Entry /\ a.do = "keep" /\ b \in Entry /\ b.do = "report" /\ c \in Entry /\ c.do = "keep"
  BY <1>2 DEF Service!Report, Service!Keep, Entry
<1> HIDE DEF a, b, c, names, first
<1>6. Distinct(two, strategy) /\ Offers(two, strategy)
  BY <1>1, <1>3, ReplaysAreDistinct
<1>7. Distinct(first, strategy) /\ \A n \in 1 .. Len(first) : ~IsDocument(first[n])
  BY SampledIsDistinct DEF first
<1>8. Distinct(<<a, b, c>>, strategy) /\ \A n \in 1 .. Len(<<a, b, c>>) : ~IsDocument(<<a, b, c>>[n])
  <2>1. /\ <<a, b, c>> \in Seq(Entry) /\ Len(<<a, b, c>>) = 3
        /\ <<a, b, c>>[1] = a /\ <<a, b, c>>[2] = b /\ <<a, b, c>>[3] = c
    BY <1>5
  <2>2. \A n \in 1 .. 3 : n = 1 \/ n = 2 \/ n = 3
    OBVIOUS
  <2> QED  BY <1>5, <2>1, <2>2 DEF Distinct, IsDocument
<1> HIDE DEF two
<1>9. first \in Seq(Entry) /\ two \in Seq(Entry) /\ <<a, b, c>> \in Seq(Entry)
  BY <1>6, <1>7, <1>8 DEF Distinct
<1>10. Service!Mission(work) = first \o (<<a, b, c>> \o two)
  BY <1>4, <1>9
<1>11. Distinct(<<a, b, c>> \o two, strategy) /\ Offers(<<a, b, c>> \o two, strategy)
  BY <1>6, <1>8, DistinctJoin
<1> QED  BY <1>7, <1>10, <1>11, DistinctJoin

LEMMA WorkLeagueIsDistinct ==
  ASSUME NEW strategy \in Service!Catalog["work_league"],
         Service!Exchanges(strategy) = Replayed, Replayed \in Nat \ {0}
  PROVE  /\ Distinct(Service!WorkLeague(strategy), strategy)
         /\ Offers(Service!WorkLeague(strategy), strategy)
<1> DEFINE Match(field) ==
             <<IF field = strategy THEN Service!Perform(field) ELSE Service!Replay(field, {}),
               Service!Report("multi_agent_match", 1)>>
           x == Match("mixed_field")
           y == Match("throughput_field")
           z == Match("sustainable_field")
<1>1. strategy \in {"mixed_field", "throughput_field", "sustainable_field"}
  BY DEF Service!Catalog
<1>2. {"mixed_field", "throughput_field", "sustainable_field", "multi_agent_match"} \subseteq Labels
  BY DEF Labels
<1>3. ASSUME NEW field \in Labels
      PROVE  /\ Distinct(Match(field), strategy) /\ (field = strategy => Offers(Match(field), strategy))
             /\ \A n \in 1 .. Len(Match(field)) : IsDocument(Match(field)[n]) => Match(field)[n].document = field
  <2> DEFINE a == IF field = strategy THEN Service!Perform(field) ELSE Service!Replay(field, {})
             b == Service!Report("multi_agent_match", 1)
  <2>1. /\ a \in Entry /\ a.do \in {"perform", "replay"} /\ a.document = field
        /\ a.do = "perform" => field = strategy /\ a.times = Replayed
    <3>1. CASE field = strategy
      BY <3>1 DEF Service!Perform, Entry
    <3>2. CASE field # strategy
      BY <3>2 DEF Service!Replay, Entry
    <3> QED  BY <3>1, <3>2
  <2>2. b \in Entry /\ b.do = "report"
    BY <1>2 DEF Service!Report, Entry
  <2>3. Match(field) = <<a, b>>
    OBVIOUS
  <2> HIDE DEF a, b, Match
  <2>4. /\ <<a, b>> \in Seq(Entry) /\ Len(<<a, b>>) = 2 /\ <<a, b>>[1] = a /\ <<a, b>>[2] = b
        /\ \A n \in 1 .. 2 : n = 1 \/ n = 2
    BY <2>1, <2>2
  <2> DEFINE pair == <<a, b>>
  <2> HIDE DEF pair
  <2>5. Distinct(pair, strategy)
    BY <2>1, <2>2, <2>4 DEF pair, Distinct, IsDocument
  <2>6. /\ field = strategy => Offers(pair, strategy)
        /\ \A n \in 1 .. Len(pair) : IsDocument(pair[n]) => pair[n].document = field
    BY <2>1, <2>2, <2>4 DEF pair, Offers, IsDocument
  <2> QED  BY <2>3, <2>5, <2>6 DEF pair
<1>4. Service!WorkLeague(strategy) = x \o y \o z
  BY DEF Service!WorkLeague
<1> HIDE DEF Match
<1>5. /\ Distinct(x, strategy) /\ (strategy = "mixed_field" => Offers(x, strategy))
      /\ \A n \in 1 .. Len(x) : IsDocument(x[n]) => x[n].document = "mixed_field"
  BY <1>2, <1>3
<1>6. /\ Distinct(y, strategy) /\ (strategy = "throughput_field" => Offers(y, strategy))
      /\ \A n \in 1 .. Len(y) : IsDocument(y[n]) => y[n].document = "throughput_field"
  BY <1>2, <1>3
<1>7. /\ Distinct(z, strategy) /\ (strategy = "sustainable_field" => Offers(z, strategy))
      /\ \A n \in 1 .. Len(z) : IsDocument(z[n]) => z[n].document = "sustainable_field"
  BY <1>2, <1>3
<1> HIDE DEF x, y, z
<1>8. x \in Seq(Entry) /\ y \in Seq(Entry) /\ z \in Seq(Entry)
  BY <1>5, <1>6, <1>7 DEF Distinct
<1>9. Service!WorkLeague(strategy) = x \o (y \o z)
  BY <1>4, <1>8
<1>10. /\ Distinct(y \o z, strategy)
       /\ strategy \in {"throughput_field", "sustainable_field"} => Offers(y \o z, strategy)
  BY <1>6, <1>7, DistinctJoin
<1>11. \A n \in 1 .. Len(y \o z) : IsDocument((y \o z)[n]) => (y \o z)[n].document # "mixed_field"
  <2> DEFINE both == y \o z
  <2>1. /\ Len(y) \in Nat /\ Len(z) \in Nat /\ Len(both) = Len(y) + Len(z)
        /\ \A n \in 1 .. Len(y) : both[n] = y[n]
        /\ \A n \in 1 .. Len(both) : n > Len(y) => both[n] = z[n - Len(y)] /\ n - Len(y) \in 1 .. Len(z)
    BY <1>8
  <2> HIDE DEF both
  <2>2. \A n \in 1 .. Len(both) : n \in 1 .. Len(y) \/ n > Len(y)
    BY <2>1
  <2>3. \A n \in 1 .. Len(both) : IsDocument(both[n]) => both[n].document # "mixed_field"
    BY <1>6, <1>7, <2>1, <2>2
  <2> QED  BY <2>3 DEF both
<1> QED  BY <1>1, <1>5, <1>9, <1>10, <1>11, DistinctJoin

LEMMA CatalogIsLabelled ==
  ASSUME NEW problem \in DOMAIN Service!Catalog
  PROVE  Service!Catalog[problem] \subseteq Labels \ {"unsatisfiable", "infeasible_horizon"}
<1>1. problem \in {"maze", "sokoban", "exact_cover", "workshop", "scheduling", "rescue", "bridge",
                   "amm", "marketplace", "logistics", "connect_four", "mission", "perishables", "work_league"}
  BY DEF Service!Catalog
<1>2. CASE problem = "maze"
  BY <1>2 DEF Service!Catalog, Labels
<1>3. CASE problem = "sokoban"
  BY <1>3 DEF Service!Catalog, Labels
<1>4. CASE problem = "exact_cover"
  BY <1>4 DEF Service!Catalog, Labels
<1>5. CASE problem = "workshop"
  BY <1>5 DEF Service!Catalog, Labels
<1>6. CASE problem = "scheduling"
  BY <1>6 DEF Service!Catalog, Labels
<1>7. CASE problem = "rescue"
  BY <1>7 DEF Service!Catalog, Labels
<1>8. CASE problem = "bridge"
  BY <1>8 DEF Service!Catalog, Labels
<1>9. CASE problem = "amm"
  BY <1>9 DEF Service!Catalog, Labels
<1>10. CASE problem = "marketplace"
  BY <1>10 DEF Service!Catalog, Labels
<1>11. CASE problem = "logistics"
  BY <1>11 DEF Service!Catalog, Labels
<1>12. CASE problem = "connect_four"
  BY <1>12 DEF Service!Catalog, Labels
<1>13. CASE problem = "mission"
  BY <1>13 DEF Service!Catalog, Labels
<1>14. CASE problem = "perishables"
  BY <1>14 DEF Service!Catalog, Labels
<1>15. CASE problem = "work_league"
  BY <1>15 DEF Service!Catalog, Labels
<1> QED
  BY <1>1, <1>2, <1>3, <1>4, <1>5, <1>6, <1>7, <1>8, <1>9, <1>10, <1>11, <1>12, <1>13, <1>14, <1>15

LEMMA RequestsAreTyped ==
  ASSUME NEW request \in Service!Requests \cup Service!Wrong
  PROVE  request.work \in Nat \ {0} /\ request.deadlock \in BOOLEAN
<1>1. CASE request \in Service!Requests
  <2>1. PICK problem \in DOMAIN Service!Catalog :
          \E strategy \in Service!Catalog[problem] \cup {Service!Unnamed, "deadlock"},
             work \in IF problem \in DOMAIN Service!Silent \cup {"work_league"} THEN {1} ELSE Works,
             deadlock \in {FALSE, problem = "sokoban"} :
            request = [problem |-> problem, strategy |-> strategy, instance |-> Service!Unnamed, work |-> work,
                       deadlock |-> deadlock]
    BY <1>1 DEF Service!Requests
  <2>2. PICK strategy \in Service!Catalog[problem] \cup {Service!Unnamed, "deadlock"},
             work \in IF problem \in DOMAIN Service!Silent \cup {"work_league"} THEN {1} ELSE Works,
             deadlock \in {FALSE, problem = "sokoban"} :
            request = [problem |-> problem, strategy |-> strategy, instance |-> Service!Unnamed, work |-> work,
                       deadlock |-> deadlock]
    BY <2>1
  <2>3. work \in Nat \ {0}
    <3>1. work \in {1} \/ work \in Works
      BY <2>2
    <3> QED  BY <3>1, ServiceAssumption
  <2>4. deadlock \in BOOLEAN
    BY <2>2
  <2> QED  BY <2>2, <2>3, <2>4
<1>2. CASE request \in Service!Wrong
  <2>1. request.work = 1 /\ request.deadlock = FALSE
    BY <1>2 DEF Service!Wrong
  <2>2. request.work \in Nat \ {0}
    BY <2>1
  <2>3. request.deadlock \in BOOLEAN
    BY <2>1
  <2> QED  BY <2>2, <2>3
<1> QED  BY <1>1, <1>2

(* An adapter that is asked for what the catalogue offers makes it, once. *)
LEMMA BuildIsDistinct ==
  ASSUME NEW request \in Service!Requests \cup Service!Wrong, Service!Rejection(request) = "none"
  PROVE  /\ Distinct(Service!Build(request), Service!Named(request))
         /\ Offers(Service!Build(request), Service!Named(request))
         /\ Service!Exchanges(Service!Named(request)) = Replayed /\ Service!Named(request) \in Labels
<1> DEFINE asked == Service!Named(request)
           problem == request.problem
<1>1. problem \in DOMAIN Service!Catalog /\ asked \in Service!Catalog[problem]
  BY DEF Service!Rejection
<1>2. request.work \in Nat \ {0} /\ request.deadlock \in BOOLEAN
  BY RequestsAreTyped
<1>3. asked \in Labels /\ asked \notin {"unsatisfiable", "infeasible_horizon"}
  BY <1>1, CatalogIsLabelled
<1>4. Service!Exchanges(asked) = Replayed
  BY <1>3 DEF Service!Exchanges
<1> HIDE DEF asked
<1>5. Distinct(Service!Build(request), asked) /\ Offers(Service!Build(request), asked)
  <2>1. CASE problem = "maze"
    <3>1. Service!Build(request) = Service!Maze(asked, request.work)
      BY <2>1 DEF Service!Build, asked
    <3> QED  BY <1>1, <1>2, <2>1, <3>1, MazeIsDistinct
  <2>2. CASE problem = "sokoban"
    <3>1. Service!Build(request) = Service!Sokoban(asked, request.work, request.deadlock)
      BY <2>2 DEF Service!Build, asked
    <3> QED  BY <1>1, <1>2, <2>2, <3>1, SokobanIsDistinct
  <2>3. CASE problem = "logistics"
    <3>1. Service!Build(request) = Service!Logistics(request.work)
      BY <2>3 DEF Service!Build
    <3> QED  BY <1>1, <1>2, <2>3, <3>1, LogisticsIsDistinct
  <2>4. CASE problem = "connect_four"
    <3>1. Service!Build(request) = Service!ConnectFour(request.work)
      BY <2>4 DEF Service!Build
    <3> QED  BY <1>1, <1>2, <2>4, <3>1, ConnectFourIsDistinct
  <2>5. CASE problem = "mission"
    <3>1. Service!Build(request) = Service!Mission(request.work)
      BY <2>5 DEF Service!Build
    <3> QED  BY <1>1, <1>2, <2>5, <3>1, MissionIsDistinct
  <2>6. CASE problem = "work_league"
    <3>1. Service!Build(request) = Service!WorkLeague(asked)
      BY <2>6 DEF Service!Build, asked
    <3> QED  BY <1>1, <1>4, <2>6, <3>1, WorkLeagueIsDistinct, ServiceAssumption
  <2>7. CASE problem \notin {"maze", "sokoban", "logistics", "connect_four", "mission", "work_league"}
    <3>1. Service!Build(request) = Service!Replays(Service!Silent[problem])
      BY <2>7 DEF Service!Build
    <3>2. problem \in DOMAIN Service!Silent
      BY <1>1, <2>7 DEF Service!Catalog, Service!Silent
    <3> QED  BY <1>1, <3>1, <3>2, SilentIsDistinct
  <2> QED  BY <2>1, <2>2, <2>3, <2>4, <2>5, <2>6, <2>7
<1> QED  BY <1>3, <1>4, <1>5 DEF asked

(* Between the preparation and the assembly. *)
LEMMA BeginIsMaking ==
  ASSUME NEW build, NEW asked, Distinct(build, asked), Offers(build, asked)
  PROVE  LET script == <<Service!Report("prepare", 1)>> \o build \o <<[do |-> "assemble"]>>
         IN  script \in Seq(Entry) /\ Making(script, <<>>, 0, asked)
<1> DEFINE a == Service!Report("prepare", 1)
           z == [do |-> "assemble"]
           s == <<a>> \o build \o <<z>>
<1>1. a \in Entry /\ a.do = "report" /\ z \in Entry /\ z.do = "assemble"
  <2>1. "prepare" \in Labels
    BY DEF Labels
  <2> QED  BY <2>1 DEF Service!Report, Entry
<1> HIDE DEF a, z
<1>2. build \in Seq(Entry) /\ Len(build) \in Nat
  BY DEF Distinct
<1>3. s \in Seq(Entry) /\ Len(s) = Len(build) + 2
  BY <1>1, <1>2
<1>4. s[1] = a /\ s[Len(s)] = z
  BY <1>1, <1>2, <1>3
<1>5. \A n \in 1 .. Len(build) : s[n + 1] = build[n]
  BY <1>1, <1>2, <1>3
<1>6. \A n \in 1 .. Len(s) : n = 1 \/ n = Len(s) \/ (n - 1 \in 1 .. Len(build) /\ n = (n - 1) + 1)
  BY <1>2, <1>3
<1> HIDE DEF s
<1>7. \A n \in 1 .. Len(s) : n = 1 \/ n = Len(s) \/ (n - 1 \in 1 .. Len(build) /\ s[n] = build[n - 1])
  BY <1>5, <1>6
<1>8. \A n \in 1 .. Len(s) : s[n].do = "assemble" <=> n = Len(s)
  <2>1. 1 # Len(s)
    BY <1>2, <1>3
  <2>2. \A n \in 1 .. Len(s) : n - 1 \in 1 .. Len(build) => n # Len(s)
    BY <1>2, <1>3
  <2> QED  BY <1>1, <1>4, <1>7, <2>1, <2>2 DEF Distinct
<1>9. \A n \in 1 .. Len(s) : IsDocument(s[n]) \/ s[n].do = "perform" =>
        n - 1 \in 1 .. Len(build) /\ s[n] = build[n - 1]
  BY <1>1, <1>4, <1>7 DEF IsDocument
<1>10. \A m, n \in 1 .. Len(s) :
         IsDocument(s[m]) /\ IsDocument(s[n]) /\ s[m].document = s[n].document => m = n
  <2> SUFFICES ASSUME NEW m \in 1 .. Len(s), NEW n \in 1 .. Len(s),
                      IsDocument(s[m]), IsDocument(s[n]), s[m].document = s[n].document
               PROVE  m = n
    OBVIOUS
  <2>1. /\ m - 1 \in 1 .. Len(build) /\ s[m] = build[m - 1]
        /\ n - 1 \in 1 .. Len(build) /\ s[n] = build[n - 1]
    BY <1>9
  <2>2. m - 1 = n - 1
    BY <2>1 DEF Distinct
  <2> QED  BY <1>2, <1>3, <2>2
<1>11. \A n \in 1 .. Len(s) : s[n].do = "perform" => s[n].document = asked /\ 0 = Replayed - s[n].times
  BY <1>9, ServiceAssumption DEF Distinct
<1>12. Offers(s, asked)
  <2>1. PICK n \in 1 .. Len(build) : IsDocument(build[n]) /\ build[n].document = asked
    BY DEF Offers
  <2>2. n + 1 \in 1 .. Len(s) /\ s[n + 1] = build[n]
    BY <1>2, <1>3, <1>5
  <2> QED  BY <2>1, <2>2 DEF Offers
<1>13. \A n \in 1 .. Len(s) : s[n].do # "frames"
  BY <1>1, <1>4, <1>7 DEF Distinct
<1>14. s # <<>>
  BY <1>2, <1>3
<1>15. Making(s, <<>>, 0, asked)
  BY <1>8, <1>10, <1>11, <1>12, <1>13, <1>14 DEF Making
<1> QED  BY <1>3, <1>15 DEF s, a, z

-----------------------------------------------------------------------------
(* What is left once the entry at work was done once more. *)
LEMMA TailOf ==
  ASSUME NEW script \in Seq(Entry), script # <<>>
  PROVE  /\ Head(script) = script[1] /\ script[1] \in Entry /\ Len(script) \in Nat \ {0}
         /\ Tail(script) \in Seq(Entry) /\ Len(Tail(script)) = Len(script) - 1
         /\ \A n \in 1 .. Len(Tail(script)) : n + 1 \in 1 .. Len(script) /\ Tail(script)[n] = script[n + 1]
         /\ \A n \in 1 .. Len(script) : n = 1 \/ n - 1 \in 1 .. Len(Tail(script))
  OBVIOUS

LEMMA RestOf ==
  ASSUME world.script \in Seq(Entry), world.script # <<>>,
         Head(world.script).do \in {"report", "perform", "frames"}
  PROVE  /\ Head(world.script).times = 1 => Service!Rest = Tail(world.script)
         /\ Head(world.script).times # 1 =>
              /\ Service!Rest \in Seq(Entry) /\ Len(Service!Rest) = Len(world.script)
              /\ \A n \in 1 .. Len(Service!Rest) : n # 1 => Service!Rest[n] = world.script[n]
              /\ Service!Rest[1].do = world.script[1].do
              /\ Service!Rest[1].times = world.script[1].times - 1
              /\ world.script[1].do # "report" => Service!Rest[1].document = world.script[1].document
              /\ world.script[1].do = "report" => Service!Rest[1].phase = world.script[1].phase
<1> DEFINE s == world.script
           less == [s[1] EXCEPT !.times = @ - 1]
           t == [s EXCEPT ![1] = less]
<1>1. Head(s) = s[1] /\ s[1] \in Entry /\ Len(s) \in Nat \ {0}
  BY TailOf
<1>2. Head(s).times = 1 => Service!Rest = Tail(s)
  BY DEF Service!Rest
<1>3. ASSUME Head(s).times # 1
      PROVE  /\ Service!Rest \in Seq(Entry) /\ Len(Service!Rest) = Len(s)
             /\ \A n \in 1 .. Len(Service!Rest) : n # 1 => Service!Rest[n] = s[n]
             /\ Service!Rest[1].do = s[1].do
             /\ Service!Rest[1].times = s[1].times - 1
             /\ s[1].do # "report" => Service!Rest[1].document = s[1].document
             /\ s[1].do = "report" => Service!Rest[1].phase = s[1].phase
  <2>1. /\ less \in Entry /\ less.do = s[1].do /\ less.times = s[1].times - 1
        /\ s[1].do # "report" => less.document = s[1].document
        /\ s[1].do = "report" => less.phase = s[1].phase
    BY <1>1, <1>3, EntryOnceMore
  <2>2. Service!Rest = t
    BY <1>3 DEF Service!Rest
  <2> HIDE DEF less
  <2>3. t \in Seq(Entry) /\ Len(t) = Len(s) /\ t[1] = less /\ \A n \in 1 .. Len(t) : n # 1 => t[n] = s[n]
    BY <1>1, <2>1
  <2> QED  BY <2>1, <2>2, <2>3
<1> QED  BY <1>2, <1>3

(* One of the work that is not a document is done, or done once more. *)
LEMMA MakingGoesOn ==
  ASSUME NEW script \in Seq(Entry), NEW documents, NEW shown, NEW asked,
         Making(script, documents, shown, asked), script[1].do \in {"report", "keep"}
  PROVE  Making(Tail(script), documents, shown, asked)
<1> DEFINE t == Tail(script)
<1>1. /\ script # <<>> /\ Len(script) \in Nat \ {0} /\ t \in Seq(Entry) /\ Len(t) = Len(script) - 1
      /\ \A n \in 1 .. Len(t) : n + 1 \in 1 .. Len(script) /\ t[n] = script[n + 1]
      /\ \A n \in 1 .. Len(script) : n = 1 \/ n - 1 \in 1 .. Len(t)
  BY TailOf DEF Making
<1> HIDE DEF t
<1>2. Len(script) # 1
  BY <1>1 DEF Making
<1>3. t # <<>>
  BY <1>1, <1>2
<1>4. \A n \in 1 .. Len(t) : t[n].do = "assemble" <=> n = Len(t)
  <2>1. \A n \in 1 .. Len(t) : n = Len(t) <=> n + 1 = Len(script)
    BY <1>1
  <2> QED  BY <1>1, <2>1 DEF Making
<1>5. \A n \in 1 .. Len(t) : t[n].do # "frames"
  BY <1>1 DEF Making
<1>6. \A m, n \in 1 .. Len(t) :
        IsDocument(t[m]) /\ IsDocument(t[n]) /\ t[m].document = t[n].document => m = n
  <2> SUFFICES ASSUME NEW m \in 1 .. Len(t), NEW n \in 1 .. Len(t),
                      IsDocument(t[m]), IsDocument(t[n]), t[m].document = t[n].document
               PROVE  m = n
    OBVIOUS
  <2>1. /\ m + 1 \in 1 .. Len(script) /\ script[m + 1] = t[m]
        /\ n + 1 \in 1 .. Len(script) /\ script[n + 1] = t[n]
    BY <1>1
  <2>2. m + 1 = n + 1
    BY <2>1 DEF Making
  <2> QED  BY <1>1, <2>2
<1>7. \A n \in 1 .. Len(t), k \in 1 .. Len(documents) :
        IsDocument(t[n]) => t[n].document # documents[k].strategy
  <2> SUFFICES ASSUME NEW n \in 1 .. Len(t), NEW k \in 1 .. Len(documents), IsDocument(t[n])
               PROVE  t[n].document # documents[k].strategy
    OBVIOUS
  <2>1. n + 1 \in 1 .. Len(script) /\ script[n + 1] = t[n]
    BY <1>1
  <2> QED  BY <2>1 DEF Making
<1>8. Offers(script, asked) => Offers(t, asked)
  <2> SUFFICES ASSUME NEW n \in 1 .. Len(script), IsDocument(script[n]), script[n].document = asked
               PROVE  Offers(t, asked)
    BY DEF Offers
  <2>1. n # 1
    BY DEF IsDocument
  <2>2. n - 1 \in 1 .. Len(t) /\ t[n - 1] = script[n]
    <3>1. n - 1 \in 1 .. Len(t) /\ n = (n - 1) + 1
      BY <1>1, <2>1
    <3> QED  BY <1>1, <3>1
  <2> QED  BY <2>2 DEF Offers
<1>9. \A n \in 1 .. Len(t) :
        t[n].do = "perform" => t[n].document = asked /\ shown = Replayed - t[n].times
  BY <1>1 DEF Making
<1>10. (\A n \in 1 .. Len(t) : t[n].do # "perform") => shown \in {0, Replayed}
  <2> SUFFICES ASSUME \A n \in 1 .. Len(t) : t[n].do # "perform"
               PROVE  \A n \in 1 .. Len(script) : script[n].do # "perform"
    BY DEF Making
  <2> TAKE n \in 1 .. Len(script)
  <2>1. CASE n = 1
    BY <2>1
  <2>2. CASE n # 1
    <3>1. n - 1 \in 1 .. Len(t) /\ n = (n - 1) + 1
      BY <1>1, <2>2
    <3> QED  BY <1>1, <3>1
  <2> QED  BY <2>1, <2>2
<1> QED  BY <1>3, <1>4, <1>5, <1>6, <1>7, <1>8, <1>9, <1>10 DEF Making, t

(* A document is done, and was shown in full if it was shown. *)
LEMMA MakingOneMore ==
  ASSUME NEW script \in Seq(Entry), NEW asked, NEW documents, NEW shown, NEW now,
         NEW Kind, documents \in Seq(Kind), NEW document \in Kind, document.strategy = script[1].document,
         Making(script, documents, shown, asked), IsDocument(script[1]),
         now = IF script[1].do = "perform" THEN Replayed ELSE shown
  PROVE  Making(Tail(script), Append(documents, document), now, asked)
<1> DEFINE t == Tail(script)
           made == Append(documents, document)
<1>1. /\ script # <<>> /\ Len(script) \in Nat \ {0} /\ t \in Seq(Entry) /\ Len(t) = Len(script) - 1
      /\ \A n \in 1 .. Len(t) : n + 1 \in 1 .. Len(script) /\ t[n] = script[n + 1]
      /\ \A n \in 1 .. Len(script) : n = 1 \/ n - 1 \in 1 .. Len(t)
  BY TailOf DEF Making
<1>2. /\ Len(documents) \in Nat /\ Len(made) = Len(documents) + 1 /\ made[Len(made)] = document
      /\ \A k \in 1 .. Len(documents) : k \in 1 .. Len(made) /\ made[k] = documents[k]
      /\ \A k \in 1 .. Len(made) : k = Len(made) \/ k \in 1 .. Len(documents)
  OBVIOUS
<1> HIDE DEF t, made
<1>3. Len(script) # 1
  BY <1>1 DEF Making, IsDocument
<1>4. t # <<>>
  BY <1>1, <1>3
<1>5. \A n \in 1 .. Len(t) : t[n].do = "assemble" <=> n = Len(t)
  <2>1. \A n \in 1 .. Len(t) : n = Len(t) <=> n + 1 = Len(script)
    BY <1>1
  <2> QED  BY <1>1, <2>1 DEF Making
<1>6. \A n \in 1 .. Len(t) : t[n].do # "frames"
  BY <1>1 DEF Making
<1>7. \A m, n \in 1 .. Len(t) :
        IsDocument(t[m]) /\ IsDocument(t[n]) /\ t[m].document = t[n].document => m = n
  <2> SUFFICES ASSUME NEW m \in 1 .. Len(t), NEW n \in 1 .. Len(t),
                      IsDocument(t[m]), IsDocument(t[n]), t[m].document = t[n].document
               PROVE  m = n
    OBVIOUS
  <2>1. /\ m + 1 \in 1 .. Len(script) /\ script[m + 1] = t[m]
        /\ n + 1 \in 1 .. Len(script) /\ script[n + 1] = t[n]
    BY <1>1
  <2>2. m + 1 = n + 1
    BY <2>1 DEF Making
  <2> QED  BY <1>1, <2>2
<1>8. \A n \in 1 .. Len(t) : IsDocument(t[n]) => t[n].document # document.strategy
  <2> SUFFICES ASSUME NEW n \in 1 .. Len(t), IsDocument(t[n]), t[n].document = document.strategy
               PROVE  FALSE
    OBVIOUS
  <2>1. n + 1 \in 1 .. Len(script) /\ script[n + 1] = t[n] /\ 1 \in 1 .. Len(script)
    BY <1>1
  <2>2. n + 1 = 1
    BY <2>1 DEF Making
  <2> QED  BY <2>2
<1>9. \A n \in 1 .. Len(t), k \in 1 .. Len(made) : IsDocument(t[n]) => t[n].document # made[k].strategy
  <2> SUFFICES ASSUME NEW n \in 1 .. Len(t), NEW k \in 1 .. Len(made), IsDocument(t[n])
               PROVE  t[n].document # made[k].strategy
    OBVIOUS
  <2>1. CASE k = Len(made)
    BY <1>2, <1>8, <2>1
  <2>2. CASE k \in 1 .. Len(documents)
    <3>1. n + 1 \in 1 .. Len(script) /\ script[n + 1] = t[n] /\ made[k] = documents[k]
      BY <1>1, <1>2, <2>2
    <3> QED  BY <2>2, <3>1 DEF Making
  <2> QED  BY <1>2, <2>1, <2>2
<1>10. Offers(t, asked) \/ \E k \in 1 .. Len(made) : made[k].strategy = asked
  <2>1. CASE \E k \in 1 .. Len(documents) : documents[k].strategy = asked
    BY <1>2, <2>1
  <2>2. CASE Offers(script, asked)
    <3>1. PICK n \in 1 .. Len(script) : IsDocument(script[n]) /\ script[n].document = asked
      BY <2>2 DEF Offers
    <3>2. CASE n = 1
      <4>1. Len(made) \in 1 .. Len(made)
        BY <1>2
      <4> QED  BY <1>2, <3>1, <3>2, <4>1
    <3>3. CASE n # 1
      <4>1. n - 1 \in 1 .. Len(t) /\ n = (n - 1) + 1
        BY <1>1, <3>3
      <4>2. t[n - 1] = script[n]
        BY <1>1, <4>1
      <4> QED  BY <3>1, <4>1, <4>2 DEF Offers
    <3> QED  BY <3>2, <3>3
  <2> QED  BY <2>1, <2>2 DEF Making
<1>11. CASE script[1].do = "perform"
  <2>1. script[1].document = asked /\ now = Replayed
    BY <1>1, <1>11 DEF Making
  <2>2. \A n \in 1 .. Len(t) : t[n].do # "perform"
    <3> SUFFICES ASSUME NEW n \in 1 .. Len(t), t[n].do = "perform"
                 PROVE  FALSE
      OBVIOUS
    <3>1. n + 1 \in 1 .. Len(script) /\ script[n + 1] = t[n]
      BY <1>1
    <3>2. t[n].document = asked
      BY <3>1 DEF Making
    <3> QED  BY <1>8, <2>1, <3>2 DEF IsDocument
  <2> QED  BY <1>4, <1>5, <1>6, <1>7, <1>9, <1>10, <2>1, <2>2 DEF Making, t, made
<1>12. CASE script[1].do # "perform"
  <2>1. now = shown
    BY <1>12
  <2>2. \A n \in 1 .. Len(t) :
          t[n].do = "perform" => t[n].document = asked /\ shown = Replayed - t[n].times
    BY <1>1 DEF Making
  <2>3. (\A n \in 1 .. Len(t) : t[n].do # "perform") => shown \in {0, Replayed}
    <3> SUFFICES ASSUME \A n \in 1 .. Len(t) : t[n].do # "perform"
                 PROVE  \A n \in 1 .. Len(script) : script[n].do # "perform"
      BY DEF Making
    <3> TAKE n \in 1 .. Len(script)
    <3>1. CASE n # 1
      <4>1. n - 1 \in 1 .. Len(t) /\ n = (n - 1) + 1
        BY <1>1, <3>1
      <4> QED  BY <1>1, <4>1
    <3> QED  BY <1>12, <3>1
  <2> QED  BY <1>4, <1>5, <1>6, <1>7, <1>9, <1>10, <2>1, <2>2, <2>3 DEF Making, t, made
<1> QED  BY <1>11, <1>12

(* One entry is left, to be done less often. *)
LEMMA MakingLess ==
  ASSUME NEW script \in Seq(Entry), NEW left \in Seq(Entry), NEW documents, NEW shown \in Nat, NEW asked,
         NEW now, Making(script, documents, shown, asked), Len(left) = Len(script),
         \A n \in 1 .. Len(left) : n # 1 => left[n] = script[n],
         left[1].do = script[1].do, left[1].times = script[1].times - 1,
         script[1].do # "report" => left[1].document = script[1].document,
         script[1].do \in {"report", "perform"},
         now = IF script[1].do = "perform" THEN shown + 1 ELSE shown
  PROVE  Making(left, documents, now, asked)
<1>1. 1 \in 1 .. Len(script) /\ left # <<>>
  BY TailOf DEF Making
<1>2. \A n \in 1 .. Len(left) : n \in 1 .. Len(script) /\ left[n].do = script[n].do
  OBVIOUS
<1>3. \A n \in 1 .. Len(left) : left[n].do # "report" => left[n].document = script[n].document
  BY <1>2
<1>4. \A n \in 1 .. Len(left) : left[n].do = "assemble" <=> n = Len(left)
  BY <1>2 DEF Making
<1>5. \A n \in 1 .. Len(left) : left[n].do # "frames"
  BY <1>2 DEF Making
<1>6. \A n \in 1 .. Len(left) :
        IsDocument(left[n]) <=> IsDocument(script[n])
  BY <1>2 DEF IsDocument
<1>7. \A n \in 1 .. Len(left) : IsDocument(left[n]) => left[n].document = script[n].document
  BY <1>2, <1>3 DEF IsDocument
<1>8. \A m, n \in 1 .. Len(left) :
        IsDocument(left[m]) /\ IsDocument(left[n]) /\ left[m].document = left[n].document => m = n
  BY <1>2, <1>6, <1>7 DEF Making
<1>9. \A n \in 1 .. Len(left), k \in 1 .. Len(documents) :
        IsDocument(left[n]) => left[n].document # documents[k].strategy
  BY <1>2, <1>6, <1>7 DEF Making
<1>10. Offers(script, asked) => Offers(left, asked)
  BY <1>6, <1>7 DEF Offers
<1>11. Offers(left, asked) \/ \E k \in 1 .. Len(documents) : documents[k].strategy = asked
  BY <1>10 DEF Making
<1>12. CASE script[1].do = "report"
  <2>1. \A n \in 1 .. Len(left) : left[n].do = "perform" => left[n] = script[n]
    BY <1>2, <1>12
  <2>2. \A n \in 1 .. Len(left) :
          left[n].do = "perform" => left[n].document = asked /\ now = Replayed - left[n].times
    BY <1>2, <1>12, <2>1 DEF Making
  <2>3. (\A n \in 1 .. Len(left) : left[n].do # "perform") => now \in {0, Replayed}
    BY <1>2, <1>12 DEF Making
  <2> QED  BY <1>1, <1>4, <1>5, <1>8, <1>9, <1>11, <2>2, <2>3 DEF Making
<1>13. CASE script[1].do = "perform"
  <2>1. script[1].document = asked /\ shown = Replayed - script[1].times
    BY <1>1, <1>13 DEF Making
  <2>2. \A n \in 1 .. Len(left) : left[n].do = "perform" => n = 1
    <3> SUFFICES ASSUME NEW n \in 1 .. Len(left), left[n].do = "perform"
                 PROVE  n = 1
      OBVIOUS
    <3>1. script[n].do = "perform" /\ script[n].document = asked
      BY <1>2 DEF Making
    <3> QED  BY <1>1, <1>2, <1>13, <2>1, <3>1 DEF Making, IsDocument
  <2>3. script[1].times \in Nat \ {0}
    BY <1>1, <1>13, EntryFields
  <2>4. now = Replayed - left[1].times
    BY <1>13, <2>1, <2>3, ServiceAssumption
  <2>5. left[1].document = asked
    BY <1>13, <2>1
  <2>6. \A n \in 1 .. Len(left) :
          left[n].do = "perform" => left[n].document = asked /\ now = Replayed - left[n].times
    BY <2>2, <2>4, <2>5
  <2>7. left[1].do = "perform" /\ 1 \in 1 .. Len(left)
    BY <1>1, <1>13
  <2> QED  BY <1>1, <1>4, <1>5, <1>8, <1>9, <1>11, <2>6, <2>7 DEF Making
<1> QED  BY <1>12, <1>13

LEMMA ShowingLess ==
  ASSUME NEW script \in Seq(Entry), NEW left \in Seq(Entry), NEW shown \in Nat, NEW asked, NEW now,
         Showing(script, shown, asked), script # <<>>, Len(left) = Len(script),
         \A n \in 1 .. Len(left) : n # 1 => left[n] = script[n],
         left[1].do = script[1].do, left[1].times = script[1].times - 1,
         script[1].do # "report" => left[1].document = script[1].document,
         now = IF script[1].do = "frames" THEN shown + 1 ELSE shown
  PROVE  Showing(left, now, asked)
<1>1. 1 \in 1 .. Len(script) /\ 1 \in 1 .. Len(left)
  BY TailOf
<1>2. \A n \in 1 .. Len(left) : n \in 1 .. Len(script) /\ left[n].do = script[n].do
  OBVIOUS
<1>3. \A n \in 1 .. Len(left) : left[n].do \in {"frames", "report"}
  BY <1>2 DEF Showing
<1>4. \A n \in 1 .. Len(left) : left[n].do = "frames" => n = 1
  BY <1>2 DEF Showing
<1>5. CASE script[1].do = "frames"
  <2>1. script[1].document = asked /\ shown = Replayed - script[1].times
    BY <1>1, <1>5 DEF Showing
  <2>2. script[1].times \in Nat \ {0}
    BY <1>1, <1>5, EntryFields
  <2>3. now = Replayed - left[1].times
    BY <1>5, <2>1, <2>2, ServiceAssumption
  <2>4. left[1].document = asked
    BY <1>5, <2>1
  <2> QED  BY <1>1, <1>3, <1>4, <1>5, <2>3, <2>4 DEF Showing
<1>6. CASE script[1].do # "frames"
  <2>1. \A n \in 1 .. Len(left) : left[n].do # "frames"
    BY <1>4, <1>6
  <2>2. now = Replayed
    BY <1>2, <1>6, <2>1 DEF Showing
  <2> QED  BY <1>3, <2>1, <2>2 DEF Showing
<1> QED  BY <1>5, <1>6

LEMMA ShowingGoesOn ==
  ASSUME NEW script \in Seq(Entry), NEW shown, NEW asked, NEW now,
         Showing(script, shown, asked), script # <<>>,
         now = IF script[1].do = "frames" THEN Replayed ELSE shown
  PROVE  Showing(Tail(script), now, asked)
<1> DEFINE t == Tail(script)
<1>1. /\ Len(script) \in Nat \ {0} /\ t \in Seq(Entry) /\ Len(t) = Len(script) - 1
      /\ \A n \in 1 .. Len(t) : n + 1 \in 1 .. Len(script) /\ t[n] = script[n + 1]
  BY TailOf
<1> HIDE DEF t
<1>2. \A n \in 1 .. Len(t) : t[n].do = "report"
  <2> SUFFICES ASSUME NEW n \in 1 .. Len(t) PROVE t[n].do = "report"
    OBVIOUS
  <2>1. n + 1 \in 1 .. Len(script) /\ t[n] = script[n + 1] /\ n + 1 # 1
    BY <1>1
  <2> QED  BY <2>1 DEF Showing
<1>3. now = Replayed
  <2>1. CASE script[1].do = "frames"
    BY <2>1
  <2>2. CASE script[1].do # "frames"
    <3>1. \A n \in 1 .. Len(script) : script[n].do # "frames"
      BY <2>2 DEF Showing
    <3> QED  BY <2>2, <3>1 DEF Showing
  <2> QED  BY <2>1, <2>2
<1> QED  BY <1>2, <1>3 DEF Showing, t

-----------------------------------------------------------------------------
(* What an invariant says of the parts of the state. *)
LEMMA StepTypes ==
  ASSUME ServiceInv
  PROVE  /\ world.script \in Seq(Entry) /\ world.observations \in Seq(Labels)
         /\ world.documents \in Seq(DocumentType) /\ world.kept \in KeptType
         /\ world.frames \in Seq([document : Labels, index : Int]) /\ Len(world.frames) \in Nat
         /\ world.request \in Service!Requests \cup Service!Wrong
         /\ world.reports \in Nat /\ world.seen \in Nat /\ world.pauses \in Nat
         /\ world.paused \in BOOLEAN /\ world.cancelled \in BOOLEAN
<1>1. /\ world.script \in Seq(Entry) /\ world.observations \in Seq(Labels)
      /\ world.documents \in Seq(DocumentType) /\ world.kept \in KeptType
      /\ world.frames \in Seq([document : Labels, index : Int])
  BY DEF ServiceInv, RunType
<1>2. Len(world.frames) \in Nat
  BY <1>1
<1>3. world.request \in Service!Requests \cup Service!Wrong
  BY DEF ServiceInv, RunType
<1>4. world.reports \in Nat /\ world.seen \in Nat /\ world.pauses \in Nat
  BY DEF ServiceInv, RunType
<1>5. world.paused \in BOOLEAN /\ world.cancelled \in BOOLEAN
  BY Zenon DEF ServiceInv, RunType
<1> QED  BY <1>1, <1>2, <1>3, <1>4, <1>5

LEMMA ServiceStarts ==
  ASSUME Service!Init
  PROVE  ServiceInv
<1>1. PICK request \in Service!Requests \cup Service!Wrong :
        world = [request |-> request, at |-> "begin", script |-> <<>>, error |-> "none",
                 observations |-> <<>>, kept |-> [d \in {} |-> {}], documents |-> <<>>, frames |-> <<>>,
                 reports |-> 0, result |-> "none", paused |-> FALSE, cancelled |-> FALSE, pauses |-> 0,
                 seen |-> 0]
  BY DEF Service!Init
<1>2. [d \in {} |-> {}] \in KeptType
  <2>1. [d \in {} |-> {}] \in [{} -> SUBSET Labels] /\ {} \in SUBSET Labels
    OBVIOUS
  <2> QED  BY <2>1 DEF KeptType
<1>3. world \in RunType
  BY <1>1, <1>2 DEF RunType
<1>4. FreshInv /\ StageInv
  BY <1>1 DEF FreshInv, StageInv
<1>5. FramesInv /\ NamesInv
  BY <1>1 DEF FramesInv, NamesInv
<1>6. ReportInv /\ CancelInv
  BY <1>1 DEF ReportInv, CancelInv
<1> QED  BY <1>3, <1>4, <1>5, <1>6 DEF ServiceInv

(* A step that moves no frame, document or script moves nothing they say.   *)
LEMMA TurnKeeps ==
  ASSUME ServiceInv, Service!Turn
  PROVE  ServiceInv'
<1>1. world' = [world EXCEPT !.result = "cancelled"] /\ world.at = "begin" /\ world.cancelled
  BY DEF Service!Turn, Service!At, Service!Stopped
<1>2. world' \in RunType
  BY <1>1 DEF ServiceInv, RunType
<1>3. /\ world'.at = world.at /\ world'.script = world.script /\ world'.documents = world.documents
      /\ world'.frames = world.frames /\ world'.request = world.request /\ world'.error = world.error
      /\ world'.reports = world.reports /\ world'.seen = world.seen /\ world'.cancelled = world.cancelled
      /\ world'.result = "cancelled"
  BY <1>1 DEF ServiceInv, RunType
<1>4. FreshInv' /\ StageInv'
  BY <1>1, <1>3 DEF ServiceInv, FreshInv, StageInv
<1>5. FramesInv' /\ NamesInv'
  BY <1>3 DEF ServiceInv, FramesInv, NamesInv, Service!Selected
<1>6. ReportInv' /\ CancelInv'
  BY <1>1, <1>3 DEF ServiceInv, ReportInv, CancelInv
<1> QED  BY <1>2, <1>4, <1>5, <1>6 DEF ServiceInv

LEMMA BeginKeeps ==
  ASSUME ServiceInv, Service!Begin
  PROVE  ServiceInv'
<1>1. world.at = "begin" /\ ~world.cancelled /\ world.result = "none"
  BY DEF Service!Begin, Service!At, Service!Running, Service!Passed
<1>2. world.request \in Service!Requests \cup Service!Wrong /\ world.documents = <<>> /\ world.frames = <<>>
  BY <1>1, StepTypes DEF ServiceInv, FreshInv
<1>3. CASE Service!Rejection(world.request) # "none"
  <2>1. world' = [world EXCEPT !.result = Service!Rejection(world.request)]
    BY <1>3 DEF Service!Begin
  <2>2. Service!Rejection(world.request) \in {"unknown problem", "unknown strategy", "unknown instance"}
    BY <1>3 DEF Service!Rejection
  <2>3. world' \in RunType
    BY <2>1, <2>2 DEF ServiceInv, RunType
  <2>4. /\ world'.at = world.at /\ world'.script = world.script /\ world'.documents = world.documents
        /\ world'.frames = world.frames /\ world'.request = world.request /\ world'.error = world.error
        /\ world'.reports = world.reports /\ world'.seen = world.seen /\ world'.cancelled = world.cancelled
        /\ world'.result \in {"unknown problem", "unknown strategy", "unknown instance"}
    BY <2>1, <2>2 DEF ServiceInv, RunType
  <2>5. FreshInv' /\ StageInv'
    BY <1>1, <2>4 DEF ServiceInv, FreshInv, StageInv
  <2>6. FramesInv' /\ NamesInv'
    BY <2>4 DEF ServiceInv, FramesInv, NamesInv, Service!Selected
  <2>7. ReportInv' /\ CancelInv'
    BY <1>1, <2>4 DEF ServiceInv, ReportInv, CancelInv
  <2> QED  BY <2>3, <2>5, <2>6, <2>7 DEF ServiceInv
<1>4. CASE Service!Rejection(world.request) = "none"
  <2> DEFINE script ==
        <<Service!Report("prepare", 1)>> \o Service!Build(world.request) \o <<[do |-> "assemble"]>>
  <2>1. world' = [world EXCEPT !.at = "script", !.script = script]
    BY <1>4 DEF Service!Begin
  <2>2. /\ script \in Seq(Entry) /\ Making(script, <<>>, 0, Service!Selected)
        /\ Service!Selected \in Labels /\ Service!Exchanges(Service!Selected) = Replayed
    BY <1>2, <1>4, BuildIsDistinct, BeginIsMaking DEF Service!Selected
  <2> HIDE DEF script
  <2>3. world' \in RunType
    BY <2>1, <2>2 DEF ServiceInv, RunType
  <2>4. /\ world'.at = "script" /\ world'.script = script /\ world'.documents = <<>>
        /\ world'.frames = <<>> /\ world'.request = world.request /\ world'.error = world.error
        /\ world'.cancelled = world.cancelled /\ world'.result = "none"
    BY <1>1, <1>2, <2>1 DEF ServiceInv, RunType
  <2>5. FreshInv' /\ StageInv'
    BY <2>2, <2>4 DEF FreshInv, StageInv, Service!Selected
  <2>6. FramesInv' /\ NamesInv'
    BY <2>4 DEF FramesInv, NamesInv
  <2>7. ReportInv' /\ CancelInv'
    BY <1>1, <2>4 DEF ServiceInv, ReportInv, CancelInv
  <2> QED  BY <2>3, <2>5, <2>6, <2>7 DEF ServiceInv
<1> QED  BY <1>3, <1>4

LEMMA CheckpointKeeps ==
  ASSUME ServiceInv, Service!Checkpoint
  PROVE  ServiceInv'
<1>1. /\ world.at = "script" /\ world.result = "none" /\ world.script # <<>>
      /\ Head(world.script).do = "report"
  BY DEF Service!Checkpoint, Service!Doing, Service!At, Service!Running
<1>2. CASE world.cancelled
  <2>1. world' = [world EXCEPT !.error = "cancelled", !.at = "ensure"]
    BY <1>2 DEF Service!Checkpoint, Service!Stopped
  <2>2. world' \in RunType
    BY <2>1 DEF ServiceInv, RunType
  <2>3. /\ world'.at = "ensure" /\ world'.script = world.script /\ world'.documents = world.documents
        /\ world'.frames = world.frames /\ world'.request = world.request /\ world'.error = "cancelled"
        /\ world'.reports = world.reports /\ world'.seen = world.seen /\ world'.cancelled = world.cancelled
        /\ world'.result = world.result
    BY <2>1 DEF ServiceInv, RunType
  <2>4. FreshInv' /\ StageInv'
    BY <1>1, <2>3 DEF ServiceInv, FreshInv, StageInv, Service!Selected
  <2>5. FramesInv' /\ NamesInv'
    BY <2>3 DEF ServiceInv, FramesInv, NamesInv, Service!Selected
  <2>6. ReportInv' /\ CancelInv'
    BY <1>1, <1>2, <2>3 DEF ServiceInv, ReportInv, CancelInv
  <2> QED  BY <2>2, <2>4, <2>5, <2>6 DEF ServiceInv
<1>3. CASE ~world.cancelled
  <2>1. world' = [world EXCEPT !.at = "publish"]
    BY <1>3 DEF Service!Checkpoint, Service!Stopped
  <2>2. world' \in RunType
    BY <2>1 DEF ServiceInv, RunType
  <2>3. /\ world'.at = "publish" /\ world'.script = world.script /\ world'.documents = world.documents
        /\ world'.frames = world.frames /\ world'.request = world.request /\ world'.error = world.error
        /\ world'.cancelled = world.cancelled /\ world'.result = world.result
    BY <2>1 DEF ServiceInv, RunType
  <2>4. FreshInv' /\ StageInv'
    BY <1>1, <2>3 DEF ServiceInv, FreshInv, StageInv, Service!Selected
  <2>5. FramesInv' /\ NamesInv'
    BY <2>3 DEF ServiceInv, FramesInv, NamesInv, Service!Selected
  <2>6. ReportInv' /\ CancelInv'
    BY <1>1, <1>3, <2>3 DEF ServiceInv, ReportInv, CancelInv
  <2> QED  BY <2>2, <2>4, <2>5, <2>6 DEF ServiceInv
<1> QED  BY <1>2, <1>3

LEMMA EnsureKeeps ==
  ASSUME ServiceInv, Service!Ensure
  PROVE  ServiceInv'
<1>1. /\ world' = [world EXCEPT !.result = world.error] /\ world.at = "ensure" /\ world.result = "none"
      /\ world.error = "cancelled" /\ world.cancelled
  BY DEF Service!Ensure, Service!At, Service!Running, ServiceInv, ReportInv
<1>2. world' \in RunType
  BY <1>1 DEF ServiceInv, RunType
<1>3. /\ world'.at = world.at /\ world'.script = world.script /\ world'.documents = world.documents
      /\ world'.frames = world.frames /\ world'.request = world.request /\ world'.error = world.error
      /\ world'.reports = world.reports /\ world'.seen = world.seen /\ world'.cancelled = world.cancelled
      /\ world'.result = "cancelled"
  BY <1>1 DEF ServiceInv, RunType
<1>4. FreshInv' /\ StageInv'
  BY <1>1, <1>3 DEF ServiceInv, FreshInv, StageInv, Service!Selected
<1>5. FramesInv' /\ NamesInv'
  BY <1>3 DEF ServiceInv, FramesInv, NamesInv, Service!Selected
<1>6. ReportInv' /\ CancelInv'
  BY <1>1, <1>3 DEF ServiceInv, ReportInv, CancelInv
<1> QED  BY <1>2, <1>4, <1>5, <1>6 DEF ServiceInv

(* The other party. *)
LEMMA ControlKeeps ==
  ASSUME ServiceInv, Service!Pause \/ Service!Resume \/ Service!Cancel
  PROVE  ServiceInv'
<1>1. /\ world' \in RunType
      /\ world'.at = world.at /\ world'.script = world.script /\ world'.documents = world.documents
      /\ world'.frames = world.frames /\ world'.request = world.request /\ world'.error = world.error
      /\ world'.reports = world.reports /\ world'.result = world.result
      /\ \/ world'.seen = world.seen /\ world'.cancelled = world.cancelled
         \/ world'.seen = world.reports /\ world'.cancelled = TRUE
  <2>1. CASE Service!Pause
    <3>1. world' = [world EXCEPT !.paused = TRUE, !.pauses = @ + 1]
      BY <2>1 DEF Service!Pause
    <3>2. world' \in RunType
      <4>1. world.pauses + 1 \in Nat
        BY StepTypes
      <4> QED  BY <3>1, <4>1 DEF ServiceInv, RunType
    <3>3. /\ world'.at = world.at /\ world'.script = world.script /\ world'.documents = world.documents
          /\ world'.frames = world.frames /\ world'.request = world.request /\ world'.error = world.error
          /\ world'.reports = world.reports /\ world'.result = world.result
          /\ world'.seen = world.seen /\ world'.cancelled = world.cancelled
      BY <3>1 DEF ServiceInv, RunType
    <3> QED  BY <3>2, <3>3
  <2>2. CASE Service!Resume
    BY <2>2 DEF Service!Resume, ServiceInv, RunType
  <2>3. CASE Service!Cancel
    BY <2>3 DEF Service!Cancel, ServiceInv, RunType
  <2> QED  BY <2>1, <2>2, <2>3
<1>2. world.reports \in Nat
  BY StepTypes
<1>3. FreshInv' /\ StageInv'
  BY <1>1 DEF ServiceInv, FreshInv, StageInv, Service!Selected
<1>4. FramesInv' /\ NamesInv'
  BY <1>1 DEF ServiceInv, FramesInv, NamesInv, Service!Selected
<1>5. ReportInv' /\ CancelInv'
  BY <1>1, <1>2 DEF ServiceInv, ReportInv, CancelInv
<1> QED  BY <1>1, <1>3, <1>4, <1>5 DEF ServiceInv

-----------------------------------------------------------------------------
(* A step that does more than look at the control. *)
LEMMA ReportsGoOn ==
  ASSUME ServiceInv, world.script # <<>>, Head(world.script).do = "report"
  PROVE  /\ Service!Rest \in Seq(Entry)
         /\ \A documents, asked : \A shown \in Nat :
              /\ Making(world.script, documents, shown, asked) => Making(Service!Rest, documents, shown, asked)
              /\ Showing(world.script, shown, asked) => Showing(Service!Rest, shown, asked)
<1> DEFINE s == world.script
<1>1. s \in Seq(Entry) /\ s # <<>> /\ s[1] = Head(s) /\ Tail(s) \in Seq(Entry) /\ s[1].do = "report"
  BY StepTypes, TailOf
<1>2. CASE Head(s).times = 1
  <2>1. Service!Rest = Tail(s)
    BY <1>1, <1>2, RestOf
  <2>2. ASSUME NEW documents, NEW shown \in Nat, NEW asked
        PROVE  /\ Making(s, documents, shown, asked) => Making(Service!Rest, documents, shown, asked)
               /\ Showing(s, shown, asked) => Showing(Service!Rest, shown, asked)
    <3>1. Making(s, documents, shown, asked) => Making(Service!Rest, documents, shown, asked)
      BY <1>1, <2>1, MakingGoesOn
    <3>2. Showing(s, shown, asked) => Showing(Service!Rest, shown, asked)
      <4>1. s[1].do # "frames"
        BY <1>1
      <4> HIDE DEF s
      <4> QED  BY <1>1, <2>1, <4>1, ShowingGoesOn
    <3> QED  BY <3>1, <3>2
  <2> QED  BY <1>1, <2>1, <2>2
<1>3. CASE Head(s).times # 1
  <2>1. /\ Service!Rest \in Seq(Entry) /\ Len(Service!Rest) = Len(s)
        /\ \A n \in 1 .. Len(Service!Rest) : n # 1 => Service!Rest[n] = s[n]
        /\ Service!Rest[1].do = s[1].do /\ Service!Rest[1].times = s[1].times - 1
        /\ s[1].do # "report" => Service!Rest[1].document = s[1].document
    BY <1>1, <1>3, RestOf
  <2> DEFINE left == Service!Rest
  <2>2. left \in Seq(Entry)
    BY <2>1
  <2>3. ASSUME NEW documents, NEW shown \in Nat, NEW asked
        PROVE  /\ Making(s, documents, shown, asked) => Making(left, documents, shown, asked)
               /\ Showing(s, shown, asked) => Showing(left, shown, asked)
    <3>1. s[1].do # "perform" /\ s[1].do # "frames"
      BY <1>1
    <3> HIDE DEF s, left
    <3>2. Making(s, documents, shown, asked) => Making(left, documents, shown, asked)
      BY <1>1, <2>1, <2>2, <3>1, MakingLess DEF left
    <3>3. Showing(s, shown, asked) => Showing(left, shown, asked)
      BY <1>1, <2>1, <2>2, <3>1, ShowingLess DEF left
    <3> QED  BY <3>2, <3>3
  <2> QED  BY <2>1, <2>3
<1> QED  BY <1>2, <1>3

LEMMA PublishKeeps ==
  ASSUME ServiceInv, Service!Publish
  PROVE  ServiceInv'
<1> DEFINE full == Len(world.observations) = Kept
           before == IF full THEN Tail(world.observations) ELSE world.observations
           now == Append(before, Head(world.script).phase)
<1>1. /\ world.at = "publish" /\ world.result = "none" /\ world.script # <<>>
      /\ Head(world.script).do = "report"
  BY DEF Service!Publish, Service!At, Service!Running, ServiceInv, ReportInv
<1>2. world' = [world EXCEPT !.observations = now, !.reports = @ + 1, !.script = Service!Rest,
                             !.at = "script"]
  BY DEF Service!Publish
<1>3. now \in Seq(Labels)
  <2>1. world.observations \in Seq(Labels) /\ Head(world.script).phase \in Labels
    BY <1>1, StepTypes, TailOf, EntryFields
  <2>2. before \in Seq(Labels)
    <3>1. CASE full
      <4>1. world.observations # <<>>
        BY <2>1, <3>1, ServiceAssumption
      <4> QED  BY <2>1, <3>1, <4>1
    <3>2. CASE ~full
      BY <2>1, <3>2
    <3> QED  BY <3>1, <3>2
  <2> HIDE DEF before
  <2> QED  BY <2>1, <2>2
<1> HIDE DEF now
<1>4. Service!Rest \in Seq(Entry)
  BY <1>1, ReportsGoOn
<1> DEFINE rest == Service!Rest
<1>5. world' = [world EXCEPT !.observations = now, !.reports = world.reports + 1, !.script = rest,
                             !.at = "script"]
  BY <1>2
<1> HIDE DEF rest
<1>6. world.reports + 1 \in Nat /\ rest \in Seq(Entry)
  BY <1>4, StepTypes DEF rest
<1>7. world' \in RunType
  BY <1>3, <1>5, <1>6 DEF ServiceInv, RunType
<1>8. /\ world'.at = "script" /\ world'.script = rest /\ world'.documents = world.documents
      /\ world'.frames = world.frames /\ world'.request = world.request /\ world'.error = world.error
      /\ world'.reports = world.reports + 1 /\ world'.seen = world.seen
      /\ world'.cancelled = world.cancelled /\ world'.result = "none"
  BY <1>1, <1>5 DEF ServiceInv, RunType
<1>9. FreshInv' /\ StageInv'
  <2>1. FreshInv'
    BY <1>8 DEF FreshInv
  <2>2. Service!Selected' = Service!Selected
    BY <1>8 DEF Service!Selected
  <2>3. Len(world.frames) \in Nat
    BY StepTypes
  <2>4. Service!Selected \in Labels /\ Service!Exchanges(Service!Selected) = Replayed
    BY <1>1 DEF ServiceInv, StageInv
  <2>5. \/ Making(world.script, world.documents, Len(world.frames), Service!Selected)
        \/ Showing(world.script, Len(world.frames), Service!Selected)
    BY <1>1 DEF ServiceInv, StageInv
  <2>6. \/ Making(rest, world.documents, Len(world.frames), Service!Selected)
        \/ Showing(rest, Len(world.frames), Service!Selected)
    BY <1>1, <2>3, <2>5, ReportsGoOn DEF rest
  <2>7. \/ Making(world'.script, world'.documents, Len(world'.frames), Service!Selected') /\ world'.result # "ok"
        \/ Showing(world'.script, Len(world'.frames), Service!Selected')
    BY <1>8, <2>2, <2>6
  <2>8. Service!Selected' \in Labels /\ Service!Exchanges(Service!Selected') = Replayed
    BY <2>2, <2>4
  <2> QED  BY <2>1, <2>7, <2>8 DEF StageInv, Service!Exchanges
<1>10. FramesInv' /\ NamesInv'
  BY <1>8 DEF ServiceInv, FramesInv, NamesInv, Service!Selected
<1>11. ReportInv'
  BY <1>1, <1>8 DEF ServiceInv, ReportInv
<1>12. CancelInv'
  BY <1>1, <1>8, StepTypes DEF ServiceInv, CancelInv
<1> QED  BY <1>7, <1>9, <1>10, <1>11, <1>12 DEF ServiceInv

LEMMA KeepObservationsKeeps ==
  ASSUME ServiceInv, Service!KeepObservations
  PROVE  ServiceInv'
<1> DEFINE entry == Head(world.script)
           found == {entry.phase} \cap Service!Range(world.observations)
           names == DOMAIN world.kept \cup {entry.document}
           now == [d \in names |-> IF d = entry.document THEN found ELSE world.kept[d]]
           rest == Tail(world.script)
<1>1. /\ world.at = "script" /\ world.result = "none" /\ world.script # <<>> /\ entry.do = "keep"
  BY DEF Service!KeepObservations, Service!Doing, Service!At, Service!Running
<1>2. world' = [world EXCEPT !.script = rest, !.kept = now]
  BY DEF Service!KeepObservations
<1>3. entry \in Entry /\ world.script[1] = entry /\ rest \in Seq(Entry)
  BY <1>1, StepTypes, TailOf
<1>4. now \in KeptType
  <2>1. entry.document \in Labels /\ entry.phase \in Labels
    BY <1>1, <1>3, EntryFields
  <2>2. found \in SUBSET Labels
    BY <2>1
  <2>3. PICK old \in SUBSET Labels : world.kept \in [old -> SUBSET Labels]
    BY StepTypes DEF KeptType
  <2> HIDE DEF found, entry
  <2>4. names \in SUBSET Labels /\ now \in [names -> SUBSET Labels]
    BY <2>1, <2>2, <2>3
  <2> QED  BY <2>4 DEF KeptType
<1> HIDE DEF now, rest
<1>5. world' \in RunType
  BY <1>2, <1>3, <1>4 DEF ServiceInv, RunType
<1>6. /\ world'.at = "script" /\ world'.script = rest /\ world'.documents = world.documents
      /\ world'.frames = world.frames /\ world'.request = world.request /\ world'.error = world.error
      /\ world'.reports = world.reports /\ world'.seen = world.seen
      /\ world'.cancelled = world.cancelled /\ world'.result = "none"
  BY <1>1, <1>2 DEF ServiceInv, RunType
<1>7. FreshInv' /\ StageInv'
  <2>1. FreshInv'
    BY <1>6 DEF FreshInv
  <2>2. Service!Selected' = Service!Selected
    BY <1>6 DEF Service!Selected
  <2>3. Service!Selected \in Labels /\ Service!Exchanges(Service!Selected) = Replayed
    BY <1>1 DEF ServiceInv, StageInv
  <2>4. Making(world.script, world.documents, Len(world.frames), Service!Selected)
    <3>1. 1 \in 1 .. Len(world.script) /\ world.script[1].do = "keep"
      BY <1>1, <1>3, StepTypes, TailOf
    <3>2. ~Showing(world.script, Len(world.frames), Service!Selected)
      BY <3>1 DEF Showing
    <3> QED  BY <1>1, <3>2 DEF ServiceInv, StageInv
  <2>5. Making(rest, world.documents, Len(world.frames), Service!Selected)
    <3>1. world.script \in Seq(Entry) /\ world.script[1].do \in {"report", "keep"}
      BY <1>1, <1>3, StepTypes
    <3> QED  BY <2>4, <3>1, MakingGoesOn DEF rest
  <2>6. Making(world'.script, world'.documents, Len(world'.frames), Service!Selected') /\ world'.result # "ok"
    BY <1>6, <2>2, <2>5
  <2>7. Service!Selected' \in Labels /\ Service!Exchanges(Service!Selected') = Replayed
    BY <2>2, <2>3
  <2> QED  BY <2>1, <2>6, <2>7 DEF StageInv, Service!Exchanges
<1>8. FramesInv' /\ NamesInv'
  BY <1>6 DEF ServiceInv, FramesInv, NamesInv, Service!Selected
<1>9. ReportInv'
  BY <1>1, <1>6 DEF ServiceInv, ReportInv
<1>10. CancelInv'
  BY <1>1, <1>6 DEF ServiceInv, CancelInv
<1> QED  BY <1>5, <1>7, <1>8, <1>9, <1>10 DEF ServiceInv

(* One more document, with a name of its own. *)
LEMMA OneMoreName ==
  ASSUME NEW documents \in Seq(DocumentType), NEW document \in DocumentType,
         \A m, n \in 1 .. Len(documents) : documents[m].strategy = documents[n].strategy => m = n,
         \A n \in 1 .. Len(documents) : documents[n].strategy # document.strategy
  PROVE  LET now == Append(documents, document)
         IN  /\ now \in Seq(DocumentType)
             /\ \A m, n \in 1 .. Len(now) : now[m].strategy = now[n].strategy => m = n
<1> DEFINE now == Append(documents, document)
<1>1. /\ now \in Seq(DocumentType) /\ now[Len(now)] = document
      /\ \A n \in 1 .. Len(now) : n = Len(now) \/ (n \in 1 .. Len(documents) /\ now[n] = documents[n])
  OBVIOUS
<1> HIDE DEF now
<1>2. \A m, n \in 1 .. Len(now) : now[m].strategy = now[n].strategy => m = n
  BY <1>1
<1> QED  BY <1>1, <1>2 DEF now

(* The document an adapter is at is a new one. *)
LEMMA HeadIsNew ==
  ASSUME ServiceInv, world.at = "script", world.script # <<>>, IsDocument(Head(world.script))
  PROVE  /\ Making(world.script, world.documents, Len(world.frames), Service!Selected)
         /\ Head(world.script).document \in Labels
         /\ \A n \in 1 .. Len(world.documents) : world.documents[n].strategy # Head(world.script).document
         /\ world.result # "ok"
<1>1. world.script[1] = Head(world.script) /\ 1 \in 1 .. Len(world.script) /\ Head(world.script) \in Entry
  BY StepTypes, TailOf
<1>2. ~Showing(world.script, Len(world.frames), Service!Selected)
  BY <1>1 DEF Showing, IsDocument
<1>3. Making(world.script, world.documents, Len(world.frames), Service!Selected) /\ world.result # "ok"
  BY <1>2 DEF ServiceInv, StageInv
<1>4. Head(world.script).document \in Labels
  BY <1>1, EntryFields DEF IsDocument
<1>5. \A n \in 1 .. Len(world.documents) : world.documents[n].strategy # Head(world.script).document
  BY <1>1, <1>3 DEF Making
<1> QED  BY <1>3, <1>4, <1>5

LEMMA DocumentIsTyped ==
  ASSUME ServiceInv, NEW strategy \in Labels, NEW own \in SUBSET Labels
  PROVE  /\ Service!Document(strategy, own) \in DocumentType
         /\ Service!Document(strategy, own).strategy = strategy
<1>1. PICK names \in SUBSET Labels : world.kept \in [names -> SUBSET Labels]
  BY StepTypes DEF KeptType
<1>2. (IF strategy \in DOMAIN world.kept THEN world.kept[strategy] ELSE own) \in SUBSET Labels
  BY <1>1
<1> QED  BY <1>2 DEF Service!Document, DocumentType

LEMMA ReplayDocumentKeeps ==
  ASSUME ServiceInv, Service!ReplayDocument
  PROVE  ServiceInv'
<1> DEFINE entry == Head(world.script)
           document == Service!Document(entry.document, entry.own)
           now == Append(world.documents, document)
           rest == Tail(world.script)
<1>1. /\ world.at = "script" /\ world.result = "none" /\ world.script # <<>> /\ entry.do = "replay"
  BY DEF Service!ReplayDocument, Service!Doing, Service!At, Service!Running
<1>2. world' = [world EXCEPT !.script = rest, !.documents = now]
  BY DEF Service!ReplayDocument
<1>3. entry \in Entry /\ world.script[1] = entry /\ rest \in Seq(Entry) /\ entry.own \in SUBSET Labels
  BY <1>1, StepTypes, TailOf, EntryFields
<1>4. /\ Making(world.script, world.documents, Len(world.frames), Service!Selected)
      /\ entry.document \in Labels
      /\ \A n \in 1 .. Len(world.documents) : world.documents[n].strategy # entry.document
  BY <1>1, HeadIsNew DEF IsDocument
<1>5. document \in DocumentType /\ document.strategy = entry.document
  BY <1>3, <1>4, DocumentIsTyped
<1> HIDE DEF document
<1>6. /\ now \in Seq(DocumentType)
      /\ \A m, n \in 1 .. Len(now) : now[m].strategy = now[n].strategy => m = n
  BY <1>4, <1>5, OneMoreName, StepTypes DEF ServiceInv, NamesInv
<1>7. Making(rest, now, Len(world.frames), Service!Selected)
  <2>1. /\ world.script \in Seq(Entry) /\ IsDocument(world.script[1]) /\ world.script[1].do # "perform"
        /\ document.strategy = world.script[1].document /\ world.documents \in Seq(DocumentType)
    BY <1>1, <1>3, <1>5, StepTypes DEF IsDocument
  <2> QED  BY <1>4, <1>5, <2>1, MakingOneMore
<1> HIDE DEF now, rest
<1>8. world' \in RunType
  BY <1>2, <1>3, <1>6 DEF ServiceInv, RunType
<1>9. /\ world'.at = "script" /\ world'.script = rest /\ world'.documents = now
      /\ world'.frames = world.frames /\ world'.request = world.request /\ world'.error = world.error
      /\ world'.reports = world.reports /\ world'.seen = world.seen
      /\ world'.cancelled = world.cancelled /\ world'.result = "none"
  BY <1>1, <1>2 DEF ServiceInv, RunType
<1>10. FreshInv' /\ StageInv'
  <2>1. FreshInv'
    BY <1>9 DEF FreshInv
  <2>2. Service!Selected' = Service!Selected
    BY <1>9 DEF Service!Selected
  <2>3. Service!Selected' \in Labels /\ Service!Exchanges(Service!Selected') = Replayed
    BY <1>1, <2>2 DEF ServiceInv, StageInv
  <2>4. Making(world'.script, world'.documents, Len(world'.frames), Service!Selected') /\ world'.result # "ok"
    BY <1>7, <1>9, <2>2
  <2> QED  BY <2>1, <2>3, <2>4 DEF StageInv, Service!Exchanges
<1>11. FramesInv' /\ NamesInv'
  BY <1>6, <1>9 DEF ServiceInv, FramesInv, NamesInv, Service!Selected
<1>12. ReportInv'
  BY <1>1, <1>9 DEF ServiceInv, ReportInv
<1>13. CancelInv'
  BY <1>1, <1>9 DEF ServiceInv, CancelInv
<1> QED  BY <1>8, <1>10, <1>11, <1>12, <1>13 DEF ServiceInv

(* A sequence that grew by one element. *)
LEMMA OneMore ==
  ASSUME NEW S, NEW seq \in Seq(S), NEW e \in S
  PROVE  LET now == Append(seq, e)
         IN  /\ now \in Seq(S) /\ Len(now) = Len(seq) + 1 /\ now[Len(now)] = e
             /\ \A n \in 1 .. Len(now) : n = Len(now) \/ (n \in 1 .. Len(seq) /\ now[n] = seq[n])
  OBVIOUS

(* The frame that is shown is the next one of the replay that was asked for. *)
LEMMA FrameIsNext ==
  ASSUME ServiceInv, world.at = "script", world.script # <<>>,
         Head(world.script).do \in {"perform", "frames"}
  PROVE  LET entry == Head(world.script)
             now == Append(world.frames, Service!Frame(entry))
         IN  /\ entry.document = Service!Selected /\ Service!Selected \in Labels
             /\ entry.times \in Nat \ {0} /\ Len(world.frames) = Replayed - entry.times
             /\ now \in Seq([document : Labels, index : Int]) /\ Len(now) = Len(world.frames) + 1
             /\ \A n \in 1 .. Len(now) : now[n] = [document |-> Service!Selected, index |-> n]
<1> DEFINE entry == Head(world.script)
           frame == Service!Frame(entry)
           now == Append(world.frames, frame)
<1>1. world.script[1] = entry /\ 1 \in 1 .. Len(world.script) /\ entry \in Entry
  BY StepTypes, TailOf
<1>2. entry.times \in Nat \ {0}
  BY <1>1, EntryFields
<1>3. entry.document = Service!Selected /\ Len(world.frames) = Replayed - entry.times
  <2>1. CASE Making(world.script, world.documents, Len(world.frames), Service!Selected)
    BY <1>1, <2>1 DEF Making
  <2>2. CASE Showing(world.script, Len(world.frames), Service!Selected)
    BY <1>1, <2>2 DEF Showing
  <2> QED  BY <2>1, <2>2 DEF ServiceInv, StageInv
<1>4. Service!Selected \in Labels /\ Service!Exchanges(Service!Selected) = Replayed
  BY DEF ServiceInv, StageInv
<1>5. Len(world.frames) \in Nat /\ world.frames \in Seq([document : Labels, index : Int])
  BY StepTypes
<1>6. frame = [document |-> Service!Selected, index |-> Len(world.frames) + 1]
  <2>1. Service!Exchanges(entry.document) - entry.times + 1 = Len(world.frames) + 1
    BY <1>2, <1>3, <1>4, <1>5, ServiceAssumption
  <2> QED  BY <1>3, <2>1 DEF Service!Frame
<1>7. frame \in [document : Labels, index : Int]
  BY <1>4, <1>5, <1>6
<1> HIDE DEF frame
<1>8. /\ now \in Seq([document : Labels, index : Int]) /\ Len(now) = Len(world.frames) + 1
      /\ now[Len(now)] = frame
      /\ \A n \in 1 .. Len(now) :
           n = Len(now) \/ (n \in 1 .. Len(world.frames) /\ now[n] = world.frames[n])
  BY <1>5, <1>7, OneMore
<1> HIDE DEF now
<1>9. \A n \in 1 .. Len(now) : now[n] = [document |-> Service!Selected, index |-> n]
  <2> TAKE n \in 1 .. Len(now)
  <2>1. CASE n = Len(now)
    BY <1>6, <1>8, <2>1
  <2>2. CASE n \in 1 .. Len(world.frames) /\ now[n] = world.frames[n]
    BY <2>2 DEF ServiceInv, FramesInv
  <2> QED  BY <1>8, <2>1, <2>2
<1> QED  BY <1>2, <1>3, <1>4, <1>8, <1>9 DEF now, frame

LEMMA PerformExchangeKeeps ==
  ASSUME ServiceInv, Service!PerformExchange
  PROVE  ServiceInv'
<1> DEFINE entry == Head(world.script)
           shown == Append(world.frames, Service!Frame(entry))
           document == Service!Document(entry.document, {})
           made == IF entry.times = 1 THEN Append(world.documents, document) ELSE world.documents
           rest == Service!Rest
<1>1. /\ world.at = "script" /\ world.result = "none" /\ world.script # <<>> /\ entry.do = "perform"
  BY DEF Service!PerformExchange, Service!Doing, Service!At, Service!Running
<1>2. world' = [world EXCEPT !.frames = shown, !.script = rest, !.documents = made]
  BY DEF Service!PerformExchange
<1>3. /\ entry.document = Service!Selected /\ Service!Selected \in Labels
      /\ entry.times \in Nat \ {0} /\ Len(world.frames) = Replayed - entry.times
      /\ shown \in Seq([document : Labels, index : Int]) /\ Len(shown) = Len(world.frames) + 1
      /\ \A n \in 1 .. Len(shown) : shown[n] = [document |-> Service!Selected, index |-> n]
  BY <1>1, FrameIsNext
<1>4. /\ Making(world.script, world.documents, Len(world.frames), Service!Selected)
      /\ \A n \in 1 .. Len(world.documents) : world.documents[n].strategy # entry.document
  BY <1>1, HeadIsNew DEF IsDocument
<1>5. document \in DocumentType /\ document.strategy = entry.document
  BY <1>3, DocumentIsTyped
<1> HIDE DEF document, shown
<1>6. /\ world.script \in Seq(Entry) /\ world.script[1] = entry /\ world.documents \in Seq(DocumentType)
      /\ Len(world.frames) \in Nat /\ Tail(world.script) \in Seq(Entry)
  BY <1>1, StepTypes, TailOf
<1>7. /\ made \in Seq(DocumentType)
      /\ \A m, n \in 1 .. Len(made) : made[m].strategy = made[n].strategy => m = n
      /\ rest \in Seq(Entry)
      /\ Making(rest, made, Len(shown), Service!Selected)
  <2>1. CASE entry.times = 1
    <3>1. made = Append(world.documents, document) /\ rest = Tail(world.script)
      BY <1>1, <1>6, <2>1, RestOf
    <3>2. /\ made \in Seq(DocumentType)
          /\ \A m, n \in 1 .. Len(made) : made[m].strategy = made[n].strategy => m = n
      BY <1>4, <1>5, <1>6, <3>1, OneMoreName DEF ServiceInv, NamesInv
    <3>3. IsDocument(world.script[1]) /\ Len(shown) = Replayed /\ world.script[1].do = "perform"
      BY <1>1, <1>3, <1>6, <2>1, ServiceAssumption DEF IsDocument
    <3> HIDE DEF made, rest
    <3>4. Making(rest, made, Len(shown), Service!Selected)
      BY <1>4, <1>5, <1>6, <3>1, <3>3, MakingOneMore
    <3> QED  BY <1>6, <3>1, <3>2, <3>4
  <2>2. CASE entry.times # 1
    <3>1. made = world.documents
      BY <2>2
    <3>2. /\ rest \in Seq(Entry) /\ Len(rest) = Len(world.script)
          /\ \A n \in 1 .. Len(rest) : n # 1 => rest[n] = world.script[n]
          /\ rest[1].do = world.script[1].do /\ rest[1].times = world.script[1].times - 1
          /\ world.script[1].do # "report" => rest[1].document = world.script[1].document
      BY <1>1, <1>6, <2>2, RestOf
    <3> HIDE DEF made, rest
    <3>3. world.script[1].do = "perform" /\ Len(shown) = Len(world.frames) + 1
      BY <1>1, <1>3, <1>6
    <3>4. Making(rest, world.documents, Len(shown), Service!Selected)
      BY <1>4, <1>6, <3>2, <3>3, MakingLess
    <3> QED  BY <1>6, <3>1, <3>2, <3>4 DEF ServiceInv, NamesInv
  <2> QED  BY <2>1, <2>2
<1> HIDE DEF made, rest
<1>8. world' \in RunType
  BY <1>2, <1>3, <1>7 DEF ServiceInv, RunType
<1>9. /\ world'.at = "script" /\ world'.script = rest /\ world'.documents = made
      /\ world'.frames = shown /\ world'.request = world.request /\ world'.error = world.error
      /\ world'.reports = world.reports /\ world'.seen = world.seen
      /\ world'.cancelled = world.cancelled /\ world'.result = "none"
  BY <1>1, <1>2 DEF ServiceInv, RunType
<1>10. FreshInv' /\ StageInv'
  <2>1. FreshInv'
    BY <1>9 DEF FreshInv
  <2>2. Service!Selected' = Service!Selected
    BY <1>9 DEF Service!Selected
  <2>3. Service!Selected' \in Labels /\ Service!Exchanges(Service!Selected') = Replayed
    BY <1>1, <2>2 DEF ServiceInv, StageInv
  <2>4. Making(world'.script, world'.documents, Len(world'.frames), Service!Selected') /\ world'.result # "ok"
    BY <1>7, <1>9, <2>2
  <2> QED  BY <2>1, <2>3, <2>4 DEF StageInv, Service!Exchanges
<1>11. FramesInv' /\ NamesInv'
  BY <1>3, <1>7, <1>9 DEF FramesInv, NamesInv, Service!Selected
<1>12. ReportInv'
  BY <1>1, <1>9 DEF ServiceInv, ReportInv
<1>13. CancelInv'
  BY <1>1, <1>9 DEF ServiceInv, CancelInv
<1> QED  BY <1>8, <1>10, <1>11, <1>12, <1>13 DEF ServiceInv

LEMMA ShowFrameKeeps ==
  ASSUME ServiceInv, Service!ShowFrame
  PROVE  ServiceInv'
<1> DEFINE entry == Head(world.script)
           shown == Append(world.frames, Service!Frame(entry))
           rest == Service!Rest
<1>1. /\ world.at = "script" /\ world.result = "none" /\ world.script # <<>> /\ entry.do = "frames"
  BY DEF Service!ShowFrame, Service!Doing, Service!At, Service!Running
<1>2. world' = [world EXCEPT !.frames = shown, !.script = rest]
  BY DEF Service!ShowFrame
<1>3. /\ entry.document = Service!Selected /\ Service!Selected \in Labels
      /\ entry.times \in Nat \ {0} /\ Len(world.frames) = Replayed - entry.times
      /\ shown \in Seq([document : Labels, index : Int]) /\ Len(shown) = Len(world.frames) + 1
      /\ \A n \in 1 .. Len(shown) : shown[n] = [document |-> Service!Selected, index |-> n]
  BY <1>1, FrameIsNext
<1> HIDE DEF shown
<1>4. /\ world.script \in Seq(Entry) /\ world.script[1] = entry /\ 1 \in 1 .. Len(world.script)
      /\ Len(world.frames) \in Nat /\ Tail(world.script) \in Seq(Entry)
  BY <1>1, StepTypes, TailOf
<1>5. Showing(world.script, Len(world.frames), Service!Selected)
  <2>1. ~Making(world.script, world.documents, Len(world.frames), Service!Selected)
    BY <1>1, <1>4 DEF Making
  <2> QED  BY <1>1, <2>1 DEF ServiceInv, StageInv
<1>6. rest \in Seq(Entry) /\ Showing(rest, Len(shown), Service!Selected)
  <2>1. CASE entry.times = 1
    <3>1. rest = Tail(world.script)
      BY <1>1, <1>4, <2>1, RestOf
    <3>2. Len(shown) = Replayed /\ world.script[1].do = "frames"
      BY <1>1, <1>3, <1>4, <2>1, ServiceAssumption
    <3> HIDE DEF rest
    <3> QED  BY <1>1, <1>4, <1>5, <3>1, <3>2, ShowingGoesOn
  <2>2. CASE entry.times # 1
    <3>1. /\ rest \in Seq(Entry) /\ Len(rest) = Len(world.script)
          /\ \A n \in 1 .. Len(rest) : n # 1 => rest[n] = world.script[n]
          /\ rest[1].do = world.script[1].do /\ rest[1].times = world.script[1].times - 1
          /\ world.script[1].do # "report" => rest[1].document = world.script[1].document
      BY <1>1, <1>4, <2>2, RestOf
    <3> HIDE DEF rest
    <3>2. world.script[1].do = "frames" /\ Len(shown) = Len(world.frames) + 1
      BY <1>1, <1>3, <1>4
    <3> QED  BY <1>1, <1>4, <1>5, <3>1, <3>2, ShowingLess
  <2> QED  BY <2>1, <2>2
<1> HIDE DEF rest
<1>7. world' \in RunType
  BY <1>2, <1>3, <1>6 DEF ServiceInv, RunType
<1>8. /\ world'.at = "script" /\ world'.script = rest /\ world'.documents = world.documents
      /\ world'.frames = shown /\ world'.request = world.request /\ world'.error = world.error
      /\ world'.reports = world.reports /\ world'.seen = world.seen
      /\ world'.cancelled = world.cancelled /\ world'.result = "none"
  BY <1>1, <1>2 DEF ServiceInv, RunType
<1>9. FreshInv' /\ StageInv'
  <2>1. FreshInv'
    BY <1>8 DEF FreshInv
  <2>2. Service!Selected' = Service!Selected
    BY <1>8 DEF Service!Selected
  <2>3. Service!Selected' \in Labels /\ Service!Exchanges(Service!Selected') = Replayed
    BY <1>1, <2>2 DEF ServiceInv, StageInv
  <2>4. Showing(world'.script, Len(world'.frames), Service!Selected')
    BY <1>6, <1>8, <2>2
  <2> QED  BY <2>1, <2>3, <2>4 DEF StageInv, Service!Exchanges
<1>10. FramesInv' /\ NamesInv'
  BY <1>3, <1>8 DEF ServiceInv, FramesInv, NamesInv, Service!Selected
<1>11. ReportInv'
  BY <1>1, <1>8 DEF ServiceInv, ReportInv
<1>12. CancelInv'
  BY <1>1, <1>8 DEF ServiceInv, CancelInv
<1> QED  BY <1>7, <1>9, <1>10, <1>11, <1>12 DEF ServiceInv

(* What was asked for is among the documents, and has been shown if any     *)
(* frame was.                                                               *)
LEMMA AssembleKeeps ==
  ASSUME ServiceInv, Service!Assemble
  PROVE  ServiceInv'
<1> DEFINE shows == \E n \in DOMAIN world.frames : world.frames[n].document = Service!Selected
           report == Service!Report("artifact", Len(world.documents))
           rest == (IF shows THEN <<>> ELSE <<Service!Frames(Service!Selected)>>) \o <<report>>
<1>1. /\ world.at = "script" /\ world.result = "none" /\ world.script # <<>>
      /\ Head(world.script).do = "assemble"
  BY DEF Service!Assemble, Service!Doing, Service!At, Service!Running
<1>2. /\ world.script[1].do = "assemble" /\ 1 \in 1 .. Len(world.script) /\ Len(world.script) \in Nat \ {0}
      /\ Len(world.frames) \in Nat /\ world.documents \in Seq(DocumentType)
      /\ world.frames \in Seq([document : Labels, index : Int])
  BY <1>1, StepTypes, TailOf
<1>3. Making(world.script, world.documents, Len(world.frames), Service!Selected)
  <2>1. ~Showing(world.script, Len(world.frames), Service!Selected)
    BY <1>2 DEF Showing
  <2> QED  BY <1>1, <2>1 DEF ServiceInv, StageInv
<1>4. Len(world.script) = 1
  BY <1>2, <1>3 DEF Making
<1>5. \A n \in 1 .. Len(world.script) : world.script[n].do = "assemble"
  BY <1>2, <1>4
<1>6. Len(world.frames) \in {0, Replayed}
  BY <1>3, <1>5 DEF Making
<1>7. \E k \in 1 .. Len(world.documents) : world.documents[k].strategy = Service!Selected
  BY <1>3, <1>5 DEF Making, Offers, IsDocument
<1>8. world' = [world EXCEPT !.script = rest]
  <2>1. ~(\A n \in DOMAIN world.documents : world.documents[n].strategy # Service!Selected)
    BY <1>2, <1>7
  <2> HIDE DEF rest
  <2> QED  BY <2>1 DEF Service!Assemble, rest
<1>9. Service!Selected \in Labels /\ Service!Exchanges(Service!Selected) = Replayed
  BY <1>1 DEF ServiceInv, StageInv
<1>10. report \in Entry /\ report.do = "report"
  <2>1. Len(world.documents) \in Nat \ {0}
    BY <1>2, <1>7
  <2> QED  BY <2>1 DEF Service!Report, Entry, Labels
<1>11. /\ Service!Frames(Service!Selected) \in Entry /\ Service!Frames(Service!Selected).do = "frames"
       /\ Service!Frames(Service!Selected).document = Service!Selected
      /\ Service!Frames(Service!Selected).times = Replayed
  BY <1>9, ServiceAssumption DEF Service!Frames, Entry
<1> HIDE DEF report
<1>12. rest \in Seq(Entry) /\ Showing(rest, Len(world.frames), Service!Selected)
  <2>1. CASE shows
    <3>1. rest \in Seq(Entry) /\ Len(rest) = 1 /\ rest[1] = report
      BY <1>10, <2>1
    <3>2. Len(world.frames) = Replayed
      BY <1>2, <1>6, <2>1
    <3> HIDE DEF rest
    <3> QED  BY <1>10, <3>1, <3>2 DEF Showing
  <2>2. CASE ~shows
    <3>1. rest \in Seq(Entry) /\ Len(rest) = 2 /\ rest[1] = Service!Frames(Service!Selected) /\ rest[2] = report
      BY <1>10, <1>11, <2>2
    <3>2. Len(world.frames) = 0
      <4> SUFFICES ASSUME Len(world.frames) # 0
                   PROVE  FALSE
        OBVIOUS
      <4>1. 1 \in 1 .. Len(world.frames) /\ 1 \in DOMAIN world.frames
        BY <1>2
      <4>2. world.frames[1] = [document |-> Service!Selected, index |-> 1]
        BY <4>1 DEF ServiceInv, FramesInv
      <4> QED  BY <2>2, <4>1, <4>2
    <3> HIDE DEF rest
    <3>3. \A n \in 1 .. Len(rest) : n = 1 \/ n = 2
      BY <3>1
    <3>4. Len(world.frames) = Replayed - rest[1].times
      BY <1>11, <3>1, <3>2, ServiceAssumption
    <3> QED  BY <1>10, <1>11, <3>1, <3>3, <3>4 DEF Showing
  <2> QED  BY <2>1, <2>2
<1> HIDE DEF rest
<1>13. world' \in RunType
  BY <1>8, <1>12 DEF ServiceInv, RunType
<1>14. /\ world'.at = "script" /\ world'.script = rest /\ world'.documents = world.documents
       /\ world'.frames = world.frames /\ world'.request = world.request /\ world'.error = world.error
       /\ world'.reports = world.reports /\ world'.seen = world.seen
       /\ world'.cancelled = world.cancelled /\ world'.result = "none"
  BY <1>1, <1>8 DEF ServiceInv, RunType
<1>15. FreshInv' /\ StageInv'
  <2>1. FreshInv'
    BY <1>14 DEF FreshInv
  <2>2. Service!Selected' = Service!Selected
    BY <1>14 DEF Service!Selected
  <2>3. Service!Selected' \in Labels /\ Service!Exchanges(Service!Selected') = Replayed
    BY <1>9, <2>2
  <2>4. Showing(world'.script, Len(world'.frames), Service!Selected')
    BY <1>12, <1>14, <2>2
  <2> QED  BY <2>1, <2>3, <2>4 DEF StageInv, Service!Exchanges
<1>16. FramesInv' /\ NamesInv'
  BY <1>14 DEF ServiceInv, FramesInv, NamesInv, Service!Selected
<1>17. ReportInv'
  BY <1>1, <1>14 DEF ServiceInv, ReportInv
<1>18. CancelInv'
  BY <1>1, <1>14 DEF ServiceInv, CancelInv
<1> QED  BY <1>13, <1>15, <1>16, <1>17, <1>18 DEF ServiceInv

LEMMA FinishKeeps ==
  ASSUME ServiceInv, Service!Finish
  PROVE  ServiceInv'
<1> DEFINE old == world.documents
           now == [n \in DOMAIN old |-> IF old[n].solved # {} THEN old[n]
                                        ELSE [old[n] EXCEPT !.solved = Service!Range(world.observations)]]
<1>1. world.at = "script" /\ world.result = "none" /\ world.script = <<>>
  BY DEF Service!Finish, Service!At, Service!Running
<1>2. world' = [world EXCEPT !.result = "ok", !.documents = now]
  BY DEF Service!Finish
<1>3. old \in Seq(DocumentType) /\ world.observations \in Seq(Labels)
  BY StepTypes
<1>4. Service!Range(world.observations) \in SUBSET Labels
  BY <1>3 DEF Service!Range
<1> HIDE DEF old
<1>5. \A n \in 1 .. Len(old) : now[n] \in DocumentType /\ now[n].strategy = old[n].strategy
  <2> TAKE n \in 1 .. Len(old)
  <2>1. old[n] \in DocumentType /\ n \in DOMAIN old
    BY <1>3
  <2> QED  BY <1>4, <2>1 DEF DocumentType
<1>6. now \in Seq(DocumentType) /\ Len(now) = Len(old)
  <2>1. Len(old) \in Nat /\ DOMAIN old = 1 .. Len(old)
    BY <1>3
  <2>2. now \in [1 .. Len(old) -> DocumentType]
    BY <1>5, <2>1
  <2> HIDE DEF now
  <2>3. DOMAIN now = 1 .. Len(old) /\ \A n \in 1 .. Len(old) : now[n] \in DocumentType
    BY <2>2
  <2>4. now \in Seq(DocumentType)
    BY <2>1, <2>2
  <2> QED  BY <2>1, <2>3, <2>4
<1> HIDE DEF now
<1>7. world' \in RunType
  BY <1>2, <1>6 DEF ServiceInv, RunType
<1>8. /\ world'.at = "script" /\ world'.script = <<>> /\ world'.documents = now
      /\ world'.frames = world.frames /\ world'.request = world.request /\ world'.error = world.error
      /\ world'.reports = world.reports /\ world'.seen = world.seen
      /\ world'.cancelled = world.cancelled /\ world'.result = "ok"
  BY <1>1, <1>2 DEF ServiceInv, RunType
<1>9. FreshInv' /\ StageInv'
  <2>1. FreshInv'
    BY <1>8 DEF FreshInv
  <2>2. Service!Selected' = Service!Selected
    BY <1>8 DEF Service!Selected
  <2>3. Service!Selected' \in Labels /\ Service!Exchanges(Service!Selected') = Replayed
    BY <1>1, <2>2 DEF ServiceInv, StageInv
  <2>4. Showing(<<>>, Len(world.frames), Service!Selected)
    BY <1>1 DEF ServiceInv, StageInv, Making
  <2>5. Showing(world'.script, Len(world'.frames), Service!Selected')
    BY <1>8, <2>2, <2>4
  <2> QED  BY <2>1, <2>3, <2>5 DEF StageInv, Service!Exchanges
<1>10. FramesInv' /\ NamesInv'
  <2>1. FramesInv'
    BY <1>8 DEF ServiceInv, FramesInv, Service!Selected
  <2>2. \A m, n \in 1 .. Len(old) : old[m].strategy = old[n].strategy => m = n
    BY DEF ServiceInv, NamesInv, old
  <2>3. \A m, n \in 1 .. Len(now) : now[m].strategy = now[n].strategy => m = n
    BY <1>5, <1>6, <2>2
  <2> QED  BY <1>8, <2>1, <2>3 DEF NamesInv
<1>11. ReportInv'
  BY <1>1, <1>8 DEF ServiceInv, ReportInv
<1>12. CancelInv'
  BY <1>1, <1>8 DEF ServiceInv, CancelInv
<1> QED  BY <1>7, <1>9, <1>10, <1>11, <1>12 DEF ServiceInv

LEMMA ServiceSteps ==
  ASSUME ServiceInv, Service!Next
  PROVE  ServiceInv'
<1>1. CASE Service!Turn \/ Service!Begin \/ Service!Checkpoint \/ Service!Ensure
  BY <1>1, TurnKeeps, BeginKeeps, CheckpointKeeps, EnsureKeeps
<1>2. CASE Service!Publish \/ Service!KeepObservations \/ Service!ReplayDocument \/ Service!PerformExchange
  BY <1>2, PublishKeeps, KeepObservationsKeeps, ReplayDocumentKeeps, PerformExchangeKeeps
<1>3. CASE Service!ShowFrame \/ Service!Assemble \/ Service!Finish
  BY <1>3, ShowFrameKeeps, AssembleKeeps, FinishKeeps
<1>4. CASE Service!Pause \/ Service!Resume \/ Service!Cancel
  BY <1>4, ControlKeeps
<1> QED  BY <1>1, <1>2, <1>3, <1>4 DEF Service!Next, Service!Run

LEMMA ServiceRests ==
  ASSUME ServiceInv, UNCHANGED world
  PROVE  ServiceInv'
<1>1. Service!Selected' = Service!Selected
  BY DEF Service!Selected
<1>2. FreshInv' /\ FramesInv' /\ NamesInv' /\ ReportInv' /\ CancelInv' /\ world' \in RunType
  BY <1>1 DEF ServiceInv, FreshInv, FramesInv, NamesInv, ReportInv, CancelInv
<1>3. StageInv'
  BY <1>1 DEF ServiceInv, StageInv
<1> QED  BY <1>2, <1>3 DEF ServiceInv

LEMMA ServiceHolds ==
  ASSUME ServiceInv
  PROVE  Service!StrategiesAreServed /\ Service!LiveFramesAreTheReplay /\ Service!CancelledRunsSayNoMore
<1>1. Service!StrategiesAreServed
  <2> DEFINE names == [n \in DOMAIN world.documents |-> world.documents[n].strategy]
  <2>1. DOMAIN names = 1 .. Len(world.documents)
    BY StepTypes
  <2>2. \A m, n \in DOMAIN names : names[m] = names[n] => m = n
    BY <2>1 DEF ServiceInv, NamesInv
  <2>3. Service!IsInjective(names)
    BY <2>2 DEF Service!IsInjective
  <2> QED  BY <2>3 DEF Service!StrategiesAreServed, ServiceInv, ReportInv
<1>2. Service!LiveFramesAreTheReplay
  <2>1. \A n \in DOMAIN world.frames : world.frames[n] = [document |-> Service!Selected, index |-> n]
    <3>1. DOMAIN world.frames = 1 .. Len(world.frames)
      BY StepTypes
    <3> QED  BY <3>1 DEF ServiceInv, FramesInv
  <2>2. ASSUME world.result = "ok"
        PROVE  Len(world.frames) = Service!Exchanges(Service!Selected)
    <3>1. world.script = <<>> /\ world.at # "begin"
      BY <2>2 DEF ServiceInv, ReportInv, FreshInv
    <3>2. Showing(<<>>, Len(world.frames), Service!Selected) /\ Service!Exchanges(Service!Selected) = Replayed
      BY <2>2, <3>1 DEF ServiceInv, StageInv
    <3>3. Len(<<>>) = 0 /\ \A n \in 1 .. 0 : FALSE
      OBVIOUS
    <3> QED  BY <3>2, <3>3 DEF Showing
  <2> QED  BY <2>1, <2>2 DEF Service!LiveFramesAreTheReplay
<1>3. Service!CancelledRunsSayNoMore
  BY StepTypes DEF ServiceInv, CancelInv, ReportInv, Service!CancelledRunsSayNoMore
<1> QED  BY <1>1, <1>2, <1>3

-----------------------------------------------------------------------------
(* Whose the observations of a document are.  The maze's documents bring    *)
(* their own, a mission keeps those of its planner and of its samples       *)
(* before it replays, and everyone else's are those of the sink.            *)
MazeOf(strategy) == IF strategy \in {"pareto_energy", "pareto_time"} THEN {"pareto_frontier"} ELSE {strategy}

KeptOf(document) == IF document = "coordinated" THEN "ismcts" ELSE "monte_carlo"

Proper(request, entry) ==
  /\ entry.do = "keep" =>
       /\ request.problem = "mission"
       /\ entry.document \in {"coordinated", "direct_north"} /\ entry.phase = KeptOf(entry.document)
  /\ IsDocument(entry) =>
       /\ request.problem = "maze" => entry.do = "replay" /\ entry.own = MazeOf(entry.document)
       /\ request.problem # "mission" => entry.document # "coordinated"

AllProper(request, script) == \A n \in 1 .. Len(script) : Proper(request, script[n])

IsReport(entry, phase) == entry.do = "report" /\ entry.phase = phase

IsKeep(entry, document) == entry.do = "keep" /\ entry.document = document

(* The planner's reports are kept as soon as they were made, the samples'   *)
(* after the reports about their front, and both before any replay.         *)
Ordered(script, work) ==
  /\ \A n \in 1 .. Len(script) : n > 1 =>
       /\ IsKeep(script[n], "coordinated") => IsReport(script[n - 1], "ismcts")
       /\ IsKeep(script[n], "direct_north") => IsReport(script[n - 1], "pareto_sampling")
       /\ IsReport(script[n], "pareto_sampling") =>
            IsReport(script[n - 1], "monte_carlo") /\ script[n].times = 2 * work
  /\ \A m, n \in 1 .. Len(script) : script[m].do = "keep" /\ IsDocument(script[n]) => m < n

(* The sink still has a sample, `since` reports ago at most. *)
SampledSince(observations, since) ==
  \E n \in 1 .. Len(observations) : observations[n] = "monte_carlo" /\ Len(observations) - n <= since

Few(work) == 2 * work < Kept

(* What was reported last, when it is about to be kept. *)
Ready(script, observations, work) ==
  script # <<>> =>
    /\ IsKeep(script[1], "coordinated") => observations # <<>> /\ observations[Len(observations)] = "ismcts"
    /\ IsKeep(script[1], "direct_north") /\ Few(work) => SampledSince(observations, Len(observations))
    /\ IsReport(script[1], "pareto_sampling") /\ Few(work) =>
         SampledSince(observations, 2 * work - script[1].times)

Secured(kept, document, work) ==
  /\ document \in DOMAIN kept
  /\ document = "coordinated" => kept[document] = {"ismcts"}
  /\ document = "direct_north" /\ Few(work) => kept[document] = {"monte_carlo"}

Securing(script, kept, document, work) ==
  (\E n \in 1 .. Len(script) : IsKeep(script[n], document)) \/ Secured(kept, document, work)

ProperDocument(request, document) ==
  /\ request.problem = "maze" => document.solved = MazeOf(document.strategy)
  /\ document.strategy = "coordinated" => document.solved = {"ismcts"}
  /\ document.strategy = "direct_north" /\ request.problem = "mission" /\ Few(request.work) =>
       document.solved = {"monte_carlo"}

SourceInv == AllProper(world.request, world.script)

OrderInv ==
  world.request.problem = "mission" =>
    Ordered(world.script, world.request.work) /\ Ready(world.script, world.observations, world.request.work)

KeptInv ==
  IF world.request.problem # "mission" THEN DOMAIN world.kept = {}
  ELSE world.at # "begin" =>
         \A document \in {"coordinated", "direct_north"} :
           Securing(world.script, world.kept, document, world.request.work)

SinkInv ==
  /\ Len(world.observations) <= Kept
  /\ world.at # "begin" /\ world.observations = <<>> => world.script # <<>> /\ world.script[1].do = "report"

DocumentsInv ==
  \A n \in 1 .. Len(world.documents) :
    /\ ProperDocument(world.request, world.documents[n])
    /\ world.result = "ok" => world.documents[n].solved # {}

EvidenceInv == SourceInv /\ OrderInv /\ KeptInv /\ SinkInv /\ DocumentsInv

-----------------------------------------------------------------------------
(* What an adapter is asked for, it does properly. *)
LEMMA ProperScripts ==
  ASSUME NEW request, NEW S, \A entry \in S : Proper(request, entry), NEW script \in Seq(S)
  PROVE  AllProper(request, script)
  BY DEF AllProper

LEMMA ProperEntries ==
  ASSUME NEW request
  PROVE  /\ \A phase, times : Proper(request, Service!Report(phase, times))
         /\ \A name : request.problem # "maze" /\ (request.problem = "mission" \/ name # "coordinated") =>
              Proper(request, Service!Replay(name, {})) /\ Proper(request, Service!Perform(name))
         /\ Proper(request, [do |-> "assemble"])
  BY DEF Proper, Service!Report, Service!Replay, Service!Perform, IsDocument

LEMMA SilentIsProper ==
  ASSUME NEW request, request.problem \in DOMAIN Service!Silent
  PROVE  AllProper(request, Service!Replays(Service!Silent[request.problem]))
<1> DEFINE problem == request.problem
           names == Service!Silent[problem]
           S == {Service!Replay(names[n], {}) : n \in DOMAIN names}
<1>1. problem \in {"exact_cover", "workshop", "scheduling", "rescue", "bridge", "amm", "marketplace",
                   "perishables"}
  BY DEF Service!Silent
<1>2. names \in Seq(Labels \ {"coordinated"})
  <2>1. CASE problem = "exact_cover"
    <3>1. names = <<"breadth_first", "algorithm_x", "unsatisfiable">>
      BY <2>1 DEF Service!Silent
    <3> QED  BY <3>1 DEF Labels
  <2>2. CASE problem = "workshop"
    <3>1. names = <<"breadth_first", "minimum_waste", "pareto_waste", "pareto_time">>
      BY <2>2 DEF Service!Silent
    <3> QED  BY <3>1 DEF Labels
  <2>3. CASE problem = "scheduling"
    <3>1. names = <<"best_first", "bounded_optimizer", "pareto_job_one", "pareto_job_two", "infeasible_horizon">>
      BY <2>3 DEF Service!Silent
    <3> QED  BY <3>1 DEF Labels
  <2>4. CASE problem = "rescue"
    <3>1. names = <<"observe_then_follow", "direct_north">>
      BY <2>4 DEF Service!Silent
    <3> QED  BY <3>1 DEF Labels
  <2>5. CASE problem = "bridge"
    <3>1. names = <<"breadth_first", "first_come_a", "first_come_b", "auction", "pareto_a", "pareto_b">>
      BY <2>5 DEF Service!Silent
    <3> QED  BY <3>1 DEF Labels
  <2>6. CASE problem = "amm"
    <3>1. names = <<"market_day", "no_whale", "thin_liquidity">>
      BY <2>6 DEF Service!Silent
    <3> QED  BY <3>1 DEF Labels
  <2>7. CASE problem = "marketplace"
    <3>1. names = <<"market_clearing", "pareto_buyers", "pareto_sellers">>
      BY <2>7 DEF Service!Silent
    <3> QED  BY <3>1 DEF Labels
  <2>8. CASE problem = "perishables"
    <3>1. names = <<"outage", "pareto_inventory", "pareto_energy">>
      BY <2>8 DEF Service!Silent
    <3> QED  BY <3>1 DEF Labels
  <2> QED  BY <1>1, <2>1, <2>2, <2>3, <2>4, <2>5, <2>6, <2>7, <2>8
<1>3. problem # "maze" /\ problem # "mission"
  BY <1>1
<1> HIDE DEF names
<1>4. DOMAIN names = 1 .. Len(names) /\ \A n \in 1 .. Len(names) : names[n] # "coordinated"
  BY <1>2
<1>5. \A entry \in S : Proper(request, entry)
  BY <1>3, <1>4, ProperEntries
<1>6. Service!Replays(names) = [n \in 1 .. Len(names) |-> Service!Replay(names[n], {})]
  BY <1>4 DEF Service!Replays
<1>7. \A n \in 1 .. Len(names) : Service!Replay(names[n], {}) \in S
  BY <1>4
<1> HIDE DEF S
<1>8. Service!Replays(names) \in Seq(S)
  BY <1>2, <1>6, <1>7
<1>9. AllProper(request, Service!Replays(names))
  BY <1>5, <1>8, ProperScripts
<1> QED  BY <1>9 DEF names

LEMMA MazeIsProper ==
  ASSUME NEW request, request.problem = "maze", NEW strategy, NEW work
  PROVE  AllProper(request, Service!Maze(strategy, work))
<1> DEFINE a == Service!MazeOwn("breadth_first")
           b == Service!MazeOwn("dijkstra")
           c == Service!MazeOwn("a_star")
           d == Service!Replay("pareto_energy", {"pareto_frontier"})
           e == Service!Replay("pareto_time", {"pareto_frontier"})
           r == Service!Report("pareto_frontier", 1)
           x == Service!Report(strategy, work)
           y == Service!Report(strategy, 1)
           S == {a, b, c, d, e, r, x, y}
<1>1. /\ Proper(request, a) /\ Proper(request, b) /\ Proper(request, c)
      /\ Proper(request, d) /\ Proper(request, e)
  BY DEF Service!MazeOwn, Service!Replay, Proper, MazeOf, IsDocument
<1>2. Proper(request, r) /\ Proper(request, x) /\ Proper(request, y)
  BY ProperEntries
<1>3. Service!Maze(strategy, work) =
        (IF strategy \in {"pareto_energy", "pareto_time"} THEN <<r>> ELSE <<x, y>>) \o <<a, b, c, d, e>>
  BY DEF Service!Maze, Service!MazeSearch
<1> HIDE DEF a, b, c, d, e, r, x, y
<1>4. \A entry \in S : Proper(request, entry)
  BY <1>1, <1>2
<1>5. <<r>> \in Seq(S) /\ <<x, y>> \in Seq(S) /\ <<a, b, c, d, e>> \in Seq(S)
  OBVIOUS
<1> HIDE DEF S
<1>6. Service!Maze(strategy, work) \in Seq(S)
  BY <1>3, <1>5
<1> QED  BY <1>4, <1>6, ProperScripts

LEMMA SokobanIsProper ==
  ASSUME NEW request, request.problem = "sokoban", NEW strategy \in Service!Catalog["sokoban"], NEW work, NEW deadlock
  PROVE  AllProper(request, Service!Sokoban(strategy, work, deadlock))
<1> DEFINE a == Service!Report(strategy, work)
           b == Service!Replay(strategy, {})
           c == Service!Replay("deadlock", {})
           S == {a, b, c}
<1>1. strategy # "coordinated"
  BY DEF Service!Catalog
<1>2. Service!Sokoban(strategy, work, deadlock) = <<a, b>> \o IF deadlock THEN <<c>> ELSE <<>>
  BY DEF Service!Sokoban
<1>3. Proper(request, a) /\ Proper(request, b) /\ Proper(request, c)
  BY <1>1, ProperEntries
<1> HIDE DEF a, b, c
<1>4. \A entry \in S : Proper(request, entry)
  BY <1>3
<1>5. <<a, b>> \in Seq(S) /\ <<c>> \in Seq(S) /\ <<>> \in Seq(S)
  OBVIOUS
<1> HIDE DEF S
<1>6. Service!Sokoban(strategy, work, deadlock) \in Seq(S)
  BY <1>2, <1>5
<1> QED  BY <1>4, <1>6, ProperScripts

LEMMA LogisticsIsProper ==
  ASSUME NEW request, request.problem = "logistics", NEW work
  PROVE  AllProper(request, Service!Logistics(work))
<1> DEFINE a == Service!Report("monte_carlo", 2 * work)
           b == Service!Report("pareto_sampling", 2 * work)
           c == Service!Replay("direct", {})
           d == Service!Replay("reliable", {})
           e == Service!Report("mcts", work)
           f == Service!Replay("mcts", {})
           S == {a, b, c, d, e, f}
<1>1. Service!Replays(<<"direct", "reliable">>) = <<c, d>>
  BY DEF Service!Replays
<1>2. Service!Logistics(work) = <<a, b>> \o <<c, d>> \o <<e, f>>
  BY <1>1 DEF Service!Logistics, Service!Sampled
<1>3. /\ Proper(request, a) /\ Proper(request, b) /\ Proper(request, c)
      /\ Proper(request, d) /\ Proper(request, e) /\ Proper(request, f)
  BY ProperEntries
<1> HIDE DEF a, b, c, d, e, f
<1>4. \A entry \in S : Proper(request, entry)
  BY <1>3
<1>5. <<a, b>> \in Seq(S) /\ <<c, d>> \in Seq(S) /\ <<e, f>> \in Seq(S)
  OBVIOUS
<1> HIDE DEF S
<1>6. Service!Logistics(work) \in Seq(S)
  BY <1>2, <1>5
<1> QED  BY <1>4, <1>6, ProperScripts

LEMMA ConnectFourIsProper ==
  ASSUME NEW request, request.problem = "connect_four", NEW work
  PROVE  AllProper(request, Service!ConnectFour(work))
<1> DEFINE a == Service!Report("mcts_game", work)
           b == Service!Replay("mcts_game", {})
           S == {a, b}
<1>1. Proper(request, a) /\ Proper(request, b) /\ Service!ConnectFour(work) = <<a, b>>
  BY ProperEntries DEF Service!ConnectFour
<1> HIDE DEF a, b
<1>2. Service!ConnectFour(work) \in Seq(S) /\ \A entry \in S : Proper(request, entry)
  BY <1>1
<1> QED  BY <1>2, ProperScripts

LEMMA WorkLeagueIsProper ==
  ASSUME NEW request, request.problem = "work_league", NEW strategy
  PROVE  AllProper(request, Service!WorkLeague(strategy))
<1> DEFINE Made(field) == IF field = strategy THEN Service!Perform(field) ELSE Service!Replay(field, {})
           a == Made("mixed_field")
           b == Made("throughput_field")
           c == Made("sustainable_field")
           r == Service!Report("multi_agent_match", 1)
           S == {a, b, c, r}
<1>1. Proper(request, a) /\ Proper(request, b) /\ Proper(request, c) /\ Proper(request, r)
  BY ProperEntries
<1>2. Service!WorkLeague(strategy) = <<a, r>> \o <<b, r>> \o <<c, r>>
  BY DEF Service!WorkLeague
<1> HIDE DEF a, b, c, r
<1>3. \A entry \in S : Proper(request, entry)
  BY <1>1
<1>4. <<a, r>> \in Seq(S) /\ <<b, r>> \in Seq(S) /\ <<c, r>> \in Seq(S)
  OBVIOUS
<1> HIDE DEF S
<1>5. Service!WorkLeague(strategy) \in Seq(S)
  BY <1>2, <1>4
<1> QED  BY <1>3, <1>5, ProperScripts

(* A script with one more entry before it, or after it. *)
LEMMA OneBefore ==
  ASSUME NEW S, NEW e \in S, NEW given \in Seq(S), NEW more, more = <<e>> \o given
  PROVE  /\ more \in Seq(S) /\ Len(more) = Len(given) + 1 /\ more[1] = e
         /\ \A n \in 1 .. Len(given) : more[n + 1] = given[n]
<1>1. Len(given) \in Nat
  OBVIOUS
<1>2. more \in Seq(S) /\ Len(more) = Len(given) + 1
  OBVIOUS
<1>3. more[1] = e
  BY <1>1, <1>2
<1>4. \A n \in 1 .. Len(given) : more[n + 1] = given[n]
  BY <1>1, <1>2
<1> QED  BY <1>2, <1>3, <1>4

LEMMA OneAfter ==
  ASSUME NEW S, NEW e \in S, NEW given \in Seq(S), NEW more, more = given \o <<e>>
  PROVE  /\ more \in Seq(S) /\ Len(more) = Len(given) + 1 /\ more[Len(more)] = e
         /\ \A n \in 1 .. Len(given) : more[n] = given[n]
<1>1. Len(given) \in Nat
  OBVIOUS
<1>2. more \in Seq(S) /\ Len(more) = Len(given) + 1
  OBVIOUS
<1>3. more[Len(more)] = e
  BY <1>1, <1>2
<1>4. \A n \in 1 .. Len(given) : more[n] = given[n]
  BY <1>1, <1>2
<1> QED  BY <1>2, <1>3, <1>4

(* A mission's script, entry by entry. *)
LEMMA MissionIsOrdered ==
  ASSUME NEW request, request.problem = "mission", NEW work \in Nat \ {0}
  PROVE  LET script == <<Service!Report("prepare", 1)>> \o Service!Mission(work) \o <<[do |-> "assemble"]>>
         IN  /\ AllProper(request, Service!Mission(work))
             /\ Ordered(script, work)
             /\ \A document \in {"coordinated", "direct_north"} :
                  \E n \in 1 .. Len(script) : IsKeep(script[n], document)
<1> DEFINE p == Service!Report("prepare", 1)
           a == Service!Report("monte_carlo", 2 * work)
           b == Service!Report("pareto_sampling", 2 * work)
           c == Service!Keep("direct_north", "monte_carlo")
           d == Service!Report("ismcts", 2 * work)
           e == Service!Keep("coordinated", "ismcts")
           f == Service!Replay("coordinated", {})
           g == Service!Replay("direct_north", {})
           z == [do |-> "assemble"]
           S == {p, a, b, c, d, e, f, g, z}
           mission == <<a, b>> \o <<c, d, e>> \o <<f, g>>
           script == <<p>> \o mission \o <<z>>
<1>1. Service!Replays(<<"coordinated", "direct_north">>) = <<f, g>>
  BY DEF Service!Replays
<1>2. Service!Mission(work) = mission
  BY <1>1 DEF Service!Mission, Service!Sampled
<1>3. /\ Proper(request, p) /\ Proper(request, a) /\ Proper(request, b) /\ Proper(request, d)
      /\ Proper(request, f) /\ Proper(request, g) /\ Proper(request, z)
  BY ProperEntries
<1>4. Proper(request, c) /\ Proper(request, e)
  BY DEF Proper, Service!Keep, KeptOf, IsDocument
<1>5. /\ p.do = "report" /\ a.do = "report" /\ b.do = "report" /\ d.do = "report"
      /\ c.do = "keep" /\ e.do = "keep" /\ f.do = "replay" /\ g.do = "replay" /\ z.do = "assemble"
      /\ p.phase = "prepare" /\ a.phase = "monte_carlo" /\ b.phase = "pareto_sampling" /\ d.phase = "ismcts"
      /\ b.times = 2 * work /\ c.document = "direct_north" /\ e.document = "coordinated"
  BY DEF Service!Report, Service!Keep, Service!Replay
<1> HIDE DEF p, a, b, c, d, e, f, g, z
<1>6. \A entry \in S : Proper(request, entry)
  BY <1>3, <1>4
<1>7. /\ <<p>> \in Seq(S) /\ <<a, b>> \in Seq(S) /\ <<c, d, e>> \in Seq(S) /\ <<f, g>> \in Seq(S)
      /\ <<z>> \in Seq(S) /\ p \in S /\ z \in S
  OBVIOUS
<1>18. p \in S /\ z \in S
  BY <1>7
<1> HIDE DEF S
<1>8. /\ mission \in Seq(S) /\ Len(mission) = 7
      /\ mission[1] = a /\ mission[2] = b /\ mission[3] = c /\ mission[4] = d /\ mission[5] = e
      /\ mission[6] = f /\ mission[7] = g
  BY <1>7
<1> HIDE DEF mission
<1>9. AllProper(request, mission)
  BY <1>6, <1>8, ProperScripts
<1> DEFINE most == <<p>> \o mission
<1>10. /\ most \in Seq(S) /\ Len(most) = 8
       /\ most[1] = p /\ most[2] = a /\ most[3] = b /\ most[4] = c /\ most[5] = d
       /\ most[6] = e /\ most[7] = f /\ most[8] = g
  <2>1. /\ most \in Seq(S) /\ Len(most) = Len(mission) + 1 /\ most[1] = p
        /\ \A n \in 1 .. Len(mission) : most[n + 1] = mission[n]
    <3>1. most = <<p>> \o mission
      OBVIOUS
    <3> HIDE DEF most
    <3>2. p \in S /\ mission \in Seq(S)
      BY <1>8, <1>18
    <3> QED  BY <3>1, <3>2, OneBefore
  <2> HIDE DEF most
  <2>2. /\ most[2] = mission[1] /\ most[3] = mission[2] /\ most[4] = mission[3] /\ most[5] = mission[4]
        /\ most[6] = mission[5] /\ most[7] = mission[6] /\ most[8] = mission[7]
    BY <1>8, <2>1
  <2> QED  BY <1>8, <2>1, <2>2
<1>11. script = most \o <<z>>
  OBVIOUS
<1> HIDE DEF most
<1>12. /\ script \in Seq(S) /\ Len(script) = 9
       /\ script[1] = p /\ script[2] = a /\ script[3] = b /\ script[4] = c /\ script[5] = d
       /\ script[6] = e /\ script[7] = f /\ script[8] = g /\ script[9] = z
  <2>1. /\ script \in Seq(S) /\ Len(script) = Len(most) + 1 /\ script[Len(script)] = z
        /\ \A n \in 1 .. Len(most) : script[n] = most[n]
    <3>1. z \in S /\ most \in Seq(S) /\ script = most \o <<z>>
      BY <1>10, <1>11, <1>18
    <3> HIDE DEF script
    <3> QED  BY <3>1, OneAfter
  <2> HIDE DEF script
  <2> QED  BY <1>10, <2>1
<1> HIDE DEF script
<1>13. \A n \in 1 .. Len(script) : n \in {1, 2, 3, 4, 5, 6, 7, 8, 9}
  BY <1>12
<1>14. \A n \in 1 .. Len(script) :
         /\ script[n].do = "keep" => n \in {4, 6}
         /\ IsDocument(script[n]) => n \in {7, 8}
         /\ IsKeep(script[n], "coordinated") => n = 6
         /\ IsKeep(script[n], "direct_north") => n = 4
         /\ IsReport(script[n], "pareto_sampling") => n = 3
  BY <1>5, <1>12, <1>13 DEF IsDocument, IsKeep, IsReport
<1>15. /\ IsReport(script[5], "ismcts") /\ IsReport(script[3], "pareto_sampling")
       /\ IsReport(script[2], "monte_carlo") /\ script[3].times = 2 * work
       /\ IsKeep(script[4], "direct_north") /\ IsKeep(script[6], "coordinated")
  BY <1>5, <1>12 DEF IsKeep, IsReport
<1>16. Ordered(script, work)
  <2>1. ASSUME NEW n \in 1 .. Len(script)
        PROVE  /\ IsKeep(script[n], "coordinated") => IsReport(script[n - 1], "ismcts")
               /\ IsKeep(script[n], "direct_north") => IsReport(script[n - 1], "pareto_sampling")
               /\ IsReport(script[n], "pareto_sampling") =>
                    IsReport(script[n - 1], "monte_carlo") /\ script[n].times = 2 * work
    <3>1. 6 - 1 = 5 /\ 4 - 1 = 3 /\ 3 - 1 = 2
      OBVIOUS
    <3> QED  BY <1>14, <1>15, <3>1
  <2>2. \A m, n \in 1 .. Len(script) : script[m].do = "keep" /\ IsDocument(script[n]) => m < n
    BY <1>14
  <2> QED  BY <2>1, <2>2 DEF Ordered
<1>17. \A document \in {"coordinated", "direct_north"} :
         \E n \in 1 .. Len(script) : IsKeep(script[n], document)
  <2>1. 4 \in 1 .. Len(script) /\ 6 \in 1 .. Len(script)
    BY <1>12
  <2> QED  BY <1>15, <2>1
<1> QED  BY <1>2, <1>9, <1>16, <1>17 DEF script, p, z

LEMMA BuildIsProper ==
  ASSUME NEW request \in Service!Requests \cup Service!Wrong, Service!Rejection(request) = "none"
  PROVE  AllProper(request, Service!Build(request))
<1> DEFINE asked == Service!Named(request)
           problem == request.problem
<1>1. problem \in DOMAIN Service!Catalog /\ asked \in Service!Catalog[problem]
  BY DEF Service!Rejection
<1>2. request.work \in Nat \ {0}
  BY RequestsAreTyped
<1> HIDE DEF asked
<1>3. CASE problem = "maze"
  <2>1. Service!Build(request) = Service!Maze(asked, request.work)
    BY <1>3 DEF Service!Build, asked
  <2> QED  BY <1>3, <2>1, MazeIsProper
<1>4. CASE problem = "sokoban"
  <2>1. Service!Build(request) = Service!Sokoban(asked, request.work, request.deadlock)
    BY <1>4 DEF Service!Build, asked
  <2> QED  BY <1>1, <1>4, <2>1, SokobanIsProper
<1>5. CASE problem = "logistics"
  <2>1. Service!Build(request) = Service!Logistics(request.work)
    BY <1>5 DEF Service!Build
  <2> QED  BY <1>5, <2>1, LogisticsIsProper
<1>6. CASE problem = "connect_four"
  <2>1. Service!Build(request) = Service!ConnectFour(request.work)
    BY <1>6 DEF Service!Build
  <2> QED  BY <1>6, <2>1, ConnectFourIsProper
<1>7. CASE problem = "mission"
  <2>1. Service!Build(request) = Service!Mission(request.work)
    BY <1>7 DEF Service!Build
  <2> QED  BY <1>2, <1>7, <2>1, MissionIsOrdered
<1>8. CASE problem = "work_league"
  <2>1. Service!Build(request) = Service!WorkLeague(asked)
    BY <1>8 DEF Service!Build, asked
  <2> QED  BY <1>8, <2>1, WorkLeagueIsProper
<1>9. CASE problem \notin {"maze", "sokoban", "logistics", "connect_four", "mission", "work_league"}
  <2>1. Service!Build(request) = Service!Replays(Service!Silent[problem])
    BY <1>9 DEF Service!Build
  <2>2. problem \in DOMAIN Service!Silent
    BY <1>1, <1>9 DEF Service!Catalog, Service!Silent
  <2> QED  BY <2>1, <2>2, SilentIsProper
<1> QED  BY <1>3, <1>4, <1>5, <1>6, <1>7, <1>8, <1>9

-----------------------------------------------------------------------------
(* What is left of a proper script is proper. *)
LEMMA TailIsProper ==
  ASSUME NEW request, NEW work, NEW script \in Seq(Entry), script # <<>>, AllProper(request, script)
  PROVE  /\ AllProper(request, Tail(script))
         /\ Ordered(script, work) => Ordered(Tail(script), work)
         /\ \A document : ~IsKeep(script[1], document) =>
              ((\E n \in 1 .. Len(script) : IsKeep(script[n], document)) =>
                 \E n \in 1 .. Len(Tail(script)) : IsKeep(Tail(script)[n], document))
<1> DEFINE t == Tail(script)
<1>1. /\ Len(script) \in Nat \ {0} /\ Len(t) = Len(script) - 1
      /\ \A n \in 1 .. Len(t) : n + 1 \in 1 .. Len(script) /\ t[n] = script[n + 1]
      /\ \A n \in 1 .. Len(script) : n = 1 \/ n - 1 \in 1 .. Len(t)
  BY TailOf
<1> HIDE DEF t
<1>2. AllProper(request, t)
  BY <1>1 DEF AllProper
<1>3. ASSUME Ordered(script, work)
      PROVE  Ordered(t, work)
  <2>1. ASSUME NEW n \in 1 .. Len(t), n > 1
        PROVE  /\ IsKeep(t[n], "coordinated") => IsReport(t[n - 1], "ismcts")
               /\ IsKeep(t[n], "direct_north") => IsReport(t[n - 1], "pareto_sampling")
               /\ IsReport(t[n], "pareto_sampling") =>
                    IsReport(t[n - 1], "monte_carlo") /\ t[n].times = 2 * work
    <3>1. /\ n + 1 \in 1 .. Len(script) /\ n + 1 > 1 /\ (n + 1) - 1 = n
          /\ n - 1 \in 1 .. Len(t) /\ (n - 1) + 1 = n
      BY <1>1, <2>1
    <3>2. t[n] = script[n + 1] /\ t[n - 1] = script[(n + 1) - 1]
      BY <1>1, <3>1
    <3> QED  BY <1>3, <3>1, <3>2 DEF Ordered
  <2>2. ASSUME NEW m \in 1 .. Len(t), NEW n \in 1 .. Len(t), t[m].do = "keep", IsDocument(t[n])
        PROVE  m < n
    <3>1. m + 1 \in 1 .. Len(script) /\ n + 1 \in 1 .. Len(script)
          /\ t[m] = script[m + 1] /\ t[n] = script[n + 1]
      BY <1>1
    <3>2. m + 1 < n + 1
      BY <1>3, <2>2, <3>1 DEF Ordered
    <3> QED  BY <1>1, <3>2
  <2> QED  BY <2>1, <2>2 DEF Ordered
<1>4. ASSUME NEW document, ~IsKeep(script[1], document),
             NEW n \in 1 .. Len(script), IsKeep(script[n], document)
      PROVE  \E k \in 1 .. Len(t) : IsKeep(t[k], document)
  <2>1. n # 1
    BY <1>4
  <2>2. n - 1 \in 1 .. Len(t) /\ (n - 1) + 1 = n
    BY <1>1, <2>1
  <2>3. t[n - 1] = script[n]
    BY <1>1, <2>2
  <2> QED  BY <1>4, <2>2, <2>3
<1> QED  BY <1>2, <1>3, <1>4 DEF t

LEMMA LessIsProper ==
  ASSUME NEW request, NEW work, NEW script \in Seq(Entry), NEW left \in Seq(Entry), script # <<>>,
         AllProper(request, script), Len(left) = Len(script),
         \A n \in 1 .. Len(left) : n # 1 => left[n] = script[n],
         left[1].do = script[1].do, script[1].do \in {"report", "perform", "frames"},
         script[1].do # "report" => left[1].document = script[1].document,
         script[1].do = "report" => left[1].phase = script[1].phase
  PROVE  /\ AllProper(request, left)
         /\ Ordered(script, work) => Ordered(left, work)
<1>1. Len(script) \in Nat \ {0} /\ 1 \in 1 .. Len(script)
  BY TailOf
<1>2. Proper(request, script[1]) => Proper(request, left[1])
  BY DEF Proper, IsDocument
<1>3. AllProper(request, left)
  <2> SUFFICES ASSUME NEW n \in 1 .. Len(left) PROVE Proper(request, left[n])
    BY DEF AllProper
  <2>1. Proper(request, script[n])
    BY DEF AllProper
  <2> QED  BY <1>2, <2>1
<1>4. \A n \in 1 .. Len(left) : left[n].do = script[n].do /\ (IsDocument(left[n]) <=> IsDocument(script[n]))
  BY DEF IsDocument
<1>5. \A n \in 1 .. Len(left) : \A phase : IsReport(script[n], phase) => IsReport(left[n], phase)
  BY DEF IsReport
<1>6. ASSUME Ordered(script, work)
      PROVE  Ordered(left, work)
  <2>1. ASSUME NEW n \in 1 .. Len(left), n > 1
        PROVE  /\ IsKeep(left[n], "coordinated") => IsReport(left[n - 1], "ismcts")
               /\ IsKeep(left[n], "direct_north") => IsReport(left[n - 1], "pareto_sampling")
               /\ IsReport(left[n], "pareto_sampling") =>
                    IsReport(left[n - 1], "monte_carlo") /\ left[n].times = 2 * work
    <3>1. left[n] = script[n] /\ n - 1 \in 1 .. Len(left)
      BY <1>1, <2>1
    <3>2. /\ IsKeep(script[n], "coordinated") => IsReport(script[n - 1], "ismcts")
          /\ IsKeep(script[n], "direct_north") => IsReport(script[n - 1], "pareto_sampling")
          /\ IsReport(script[n], "pareto_sampling") =>
               IsReport(script[n - 1], "monte_carlo") /\ script[n].times = 2 * work
      BY <1>6, <2>1 DEF Ordered
    <3> QED  BY <1>5, <3>1, <3>2
  <2>2. \A m, n \in 1 .. Len(left) : left[m].do = "keep" /\ IsDocument(left[n]) => m < n
    BY <1>4, <1>6 DEF Ordered
  <2> QED  BY <2>1, <2>2 DEF Ordered
<1> QED  BY <1>3, <1>6

(* What is left of the script in the state. *)
LEMMA RestIsProper ==
  ASSUME NEW request, NEW work, world.script \in Seq(Entry), world.script # <<>>,
         Head(world.script).do \in {"report", "perform", "frames"}, AllProper(request, world.script)
  PROVE  /\ Service!Rest \in Seq(Entry) /\ AllProper(request, Service!Rest)
         /\ Ordered(world.script, work) => Ordered(Service!Rest, work)
         /\ \A document : (\E n \in 1 .. Len(world.script) : IsKeep(world.script[n], document)) =>
              \E n \in 1 .. Len(Service!Rest) : IsKeep(Service!Rest[n], document)
<1> DEFINE s == world.script
           rest == Service!Rest
<1>1. s[1] = Head(s) /\ Tail(s) \in Seq(Entry)
  BY TailOf
<1>2. CASE Head(s).times = 1
  <2>1. rest = Tail(s)
    BY <1>2, RestOf
  <2>2. \A document : ~IsKeep(s[1], document)
    BY <1>1 DEF IsKeep
  <2> HIDE DEF rest
  <2> QED  BY <1>1, <2>1, <2>2, TailIsProper DEF rest
<1>3. CASE Head(s).times # 1
  <2>1. /\ rest \in Seq(Entry) /\ Len(rest) = Len(s)
        /\ \A n \in 1 .. Len(rest) : n # 1 => rest[n] = s[n]
        /\ rest[1].do = s[1].do
        /\ s[1].do # "report" => rest[1].document = s[1].document
        /\ s[1].do = "report" => rest[1].phase = s[1].phase
    BY <1>3, RestOf
  <2>2. s \in Seq(Entry) /\ s # <<>> /\ AllProper(request, s) /\ s[1].do \in {"report", "perform", "frames"}
    BY <1>1
  <2> HIDE DEF rest, s
  <2>3. AllProper(request, rest) /\ (Ordered(s, work) => Ordered(rest, work))
    BY <2>1, <2>2, LessIsProper
  <2>4. \A document : \A n \in 1 .. Len(s) : IsKeep(s[n], document) => IsKeep(rest[n], document)
    BY <2>1, <2>2 DEF IsKeep
  <2> QED  BY <2>1, <2>3, <2>4 DEF rest, s
<1> QED  BY <1>2, <1>3

(* Nothing is about to be kept, or sampled, after what was not a report. *)
LEMMA NothingIsDue ==
  ASSUME NEW script \in Seq(Entry), script # <<>>, NEW observations, NEW work,
         Ordered(script, work), script[1].do # "report"
  PROVE  Ready(Tail(script), observations, work)
<1> SUFFICES ASSUME Tail(script) # <<>>
             PROVE  /\ ~IsKeep(Tail(script)[1], "coordinated") /\ ~IsKeep(Tail(script)[1], "direct_north")
                    /\ ~IsReport(Tail(script)[1], "pareto_sampling")
  BY DEF Ready
<1>1. 2 \in 1 .. Len(script) /\ Tail(script)[1] = script[2]
  OBVIOUS
<1>2. 2 > 1 /\ 2 - 1 = 1
  OBVIOUS
<1>3. \A phase : ~IsReport(script[1], phase)
  BY DEF IsReport
<1> QED  BY <1>1, <1>2, <1>3 DEF Ordered

(* A sink that is full drops its oldest report, and a sample among the      *)
(* latest ones stays.                                                       *)
LEMMA SinkShifts ==
  ASSUME NEW observations \in Seq(Labels), Len(observations) <= Kept, NEW phase \in Labels, NEW now,
         now = Append(IF Len(observations) = Kept THEN Tail(observations) ELSE observations, phase)
  PROVE  /\ now \in Seq(Labels) /\ now # <<>> /\ Len(now) \in 1 .. Kept /\ now[Len(now)] = phase
         /\ \A since \in Int : SampledSince(observations, since) /\ since + 1 < Kept =>
              SampledSince(now, since + 1)
<1> DEFINE before == IF Len(observations) = Kept THEN Tail(observations) ELSE observations
           shift == IF Len(observations) = Kept THEN 1 ELSE 0
<1>1. Len(observations) \in Nat /\ Kept \in Nat /\ Kept > 0
  BY ServiceAssumption
<1>2. /\ before \in Seq(Labels) /\ Len(before) = Len(observations) - shift /\ Len(before) < Kept
      /\ \A n \in 1 .. Len(before) : before[n] = observations[n + shift]
  <2>1. CASE Len(observations) = Kept
    <3>1. observations # <<>> /\ before = Tail(observations) /\ shift = 1
      BY <1>1, <2>1
    <3> QED  BY <1>1, <2>1, <3>1
  <2>2. CASE Len(observations) # Kept
    <3>1. before = observations /\ shift = 0
      BY <2>2
    <3> QED  BY <1>1, <2>2, <3>1
  <2> QED  BY <2>1, <2>2
<1>3. now = Append(before, phase) /\ shift \in {0, 1}
  OBVIOUS
<1> HIDE DEF before, shift
<1>4. /\ now \in Seq(Labels) /\ Len(now) = Len(before) + 1 /\ now[Len(now)] = phase
      /\ \A n \in 1 .. Len(before) : now[n] = before[n]
  BY <1>2, <1>3
<1>5. ASSUME NEW since \in Int, SampledSince(observations, since), since + 1 < Kept
      PROVE  SampledSince(now, since + 1)
  <2>1. PICK n \in 1 .. Len(observations) : observations[n] = "monte_carlo" /\ Len(observations) - n <= since
    BY <1>5 DEF SampledSince
  <2>2. n - shift \in 1 .. Len(before)
    <3>1. CASE shift = 0
      BY <1>1, <1>2, <3>1
    <3>2. CASE shift = 1
      <4>1. Len(observations) = Kept
        BY <3>2 DEF shift
      <4>2. n > 1
        BY <1>1, <1>5, <2>1, <4>1
      <4> QED  BY <1>1, <1>2, <3>2, <4>2
    <3> QED  BY <1>3, <3>1, <3>2
  <2>3. now[n - shift] = "monte_carlo"
    <3>1. (n - shift) + shift = n
      BY <1>3
    <3> QED  BY <1>2, <1>4, <2>1, <2>2, <3>1
  <2>4. n - shift \in 1 .. Len(now) /\ Len(now) - (n - shift) <= since + 1
    BY <1>1, <1>2, <1>3, <1>4, <2>1, <2>2
  <2> QED  BY <2>3, <2>4 DEF SampledSince
<1> QED  BY <1>1, <1>2, <1>4, <1>5

-----------------------------------------------------------------------------
(* The evidence of the documents, step by step. *)
LEMMA EvidenceTypes ==
  ASSUME ServiceInv
  PROVE  /\ world \in RunType /\ world.request.work \in Nat \ {0}
         /\ world.script \in Seq(Entry) /\ world.observations \in Seq(Labels)
         /\ world.documents \in Seq(DocumentType)
         /\ world.script # <<>> => /\ Head(world.script) = world.script[1] /\ world.script[1] \in Entry
                                  /\ Len(world.script) \in Nat \ {0} /\ Tail(world.script) \in Seq(Entry)
<1>1. /\ world.script \in Seq(Entry) /\ world.observations \in Seq(Labels)
      /\ world.documents \in Seq(DocumentType) /\ world.request \in Service!Requests \cup Service!Wrong
  BY StepTypes
<1>2. world \in RunType
  BY DEF ServiceInv
<1>3. world.request.work \in Nat \ {0}
  BY <1>1, RequestsAreTyped
<1>4. world.script # <<>> => /\ Head(world.script) = world.script[1] /\ world.script[1] \in Entry
                            /\ Len(world.script) \in Nat \ {0} /\ Tail(world.script) \in Seq(Entry)
  BY <1>1, TailOf
<1> QED  BY <1>1, <1>2, <1>3, <1>4

LEMMA EvidenceStarts ==
  ASSUME Service!Init
  PROVE  EvidenceInv
<1>1. PICK request \in Service!Requests \cup Service!Wrong :
        world = [request |-> request, at |-> "begin", script |-> <<>>, error |-> "none",
                 observations |-> <<>>, kept |-> [d \in {} |-> {}], documents |-> <<>>, frames |-> <<>>,
                 reports |-> 0, result |-> "none", paused |-> FALSE, cancelled |-> FALSE, pauses |-> 0, seen |-> 0]
  BY DEF Service!Init
<1>2. /\ world.script = <<>> /\ world.at = "begin" /\ world.observations = <<>> /\ world.documents = <<>>
      /\ DOMAIN world.kept = {}
  BY <1>1
<1>3. SourceInv /\ KeptInv /\ DocumentsInv
  BY <1>2 DEF SourceInv, AllProper, KeptInv, DocumentsInv
<1>4. OrderInv
  BY <1>2 DEF OrderInv, Ordered, Ready
<1>5. SinkInv
  BY <1>2, ServiceAssumption DEF SinkInv
<1> QED  BY <1>3, <1>4, <1>5 DEF EvidenceInv

LEMMA EvidenceStays ==
  ASSUME EvidenceInv, world'.request = world.request, world'.script = world.script,
         world'.observations = world.observations, world'.kept = world.kept,
         world'.documents = world.documents,
         world'.result = "ok" => world.result = "ok", world'.at # "begin" => world.at # "begin"
  PROVE  EvidenceInv'
<1>1. SourceInv' /\ OrderInv' /\ SinkInv'
  BY DEF EvidenceInv, SourceInv, OrderInv, SinkInv
<1>2. KeptInv'
  BY DEF EvidenceInv, KeptInv
<1>3. DocumentsInv'
  BY DEF EvidenceInv, DocumentsInv
<1> QED  BY <1>1, <1>2, <1>3 DEF EvidenceInv

LEMMA ControlEvidence ==
  ASSUME ServiceInv, EvidenceInv,
         Service!Turn \/ Service!Checkpoint \/ Service!Ensure \/ Service!Pause \/ Service!Resume \/ Service!Cancel
  PROVE  EvidenceInv'
<1>1. world \in RunType
  BY DEF ServiceInv
<1>2. /\ world'.request = world.request /\ world'.script = world.script
      /\ world'.observations = world.observations /\ world'.kept = world.kept
      /\ world'.documents = world.documents
      /\ world'.result = "ok" => world.result = "ok"
      /\ world'.at # "begin" => world.at # "begin"
  <2>1. CASE Service!Turn
    BY <1>1, <2>1 DEF Service!Turn, RunType
  <2>2. CASE Service!Checkpoint
    <3>1. world.at = "script"
      BY <2>2 DEF Service!Checkpoint, Service!Doing, Service!At
    <3>2. \/ world' = [world EXCEPT !.error = "cancelled", !.at = "ensure"]
          \/ world' = [world EXCEPT !.at = "publish"]
      BY <2>2 DEF Service!Checkpoint
    <3> QED  BY <1>1, <3>1, <3>2 DEF RunType
  <2>3. CASE Service!Ensure
    <3>1. world.error # "ok"
      BY <1>1 DEF RunType
    <3>2. world' = [world EXCEPT !.result = world.error]
      BY <2>3 DEF Service!Ensure
    <3> QED  BY <1>1, <3>1, <3>2 DEF RunType
  <2>4. CASE Service!Pause
    BY <1>1, <2>4 DEF Service!Pause, RunType
  <2>5. CASE Service!Resume
    BY <1>1, <2>5 DEF Service!Resume, RunType
  <2>6. CASE Service!Cancel
    BY <1>1, <2>6 DEF Service!Cancel, RunType
  <2> QED  BY <2>1, <2>2, <2>3, <2>4, <2>5, <2>6
<1> QED  BY <1>2, EvidenceStays

LEMMA BeginEvidence ==
  ASSUME ServiceInv, EvidenceInv, Service!Begin
  PROVE  EvidenceInv'
<1> DEFINE first == Service!Report("prepare", 1)
           last == [do |-> "assemble"]
           build == Service!Build(world.request)
           most == <<first>> \o build
           script == most \o <<last>>
           work == world.request.work
<1>1. world.at = "begin" /\ world.result = "none" /\ world \in RunType /\ work \in Nat \ {0}
  BY EvidenceTypes DEF Service!Begin, Service!At, Service!Running
<1>2. CASE Service!Rejection(world.request) # "none"
  <2> DEFINE why == Service!Rejection(world.request)
  <2>1. why # "ok"
    BY DEF Service!Rejection
  <2>2. world' = [world EXCEPT !.result = why]
    BY <1>2 DEF Service!Begin
  <2> HIDE DEF why
  <2>3. /\ world'.request = world.request /\ world'.script = world.script
        /\ world'.observations = world.observations /\ world'.kept = world.kept
        /\ world'.documents = world.documents /\ world'.at = world.at /\ world'.result # "ok"
    BY <1>1, <2>1, <2>2 DEF RunType
  <2> QED  BY <1>1, <2>3, EvidenceStays
<1>3. CASE Service!Rejection(world.request) = "none"
  <2>1. world' = [world EXCEPT !.at = "script", !.script = script]
    BY <1>3 DEF Service!Begin
  <2>2. build \in Seq(Entry) /\ AllProper(world.request, build)
    <3>1. world.request \in Service!Requests \cup Service!Wrong
      BY StepTypes
    <3> QED  BY <1>3, <3>1, BuildIsDistinct, BuildIsProper DEF Distinct
  <2>3. first \in Entry /\ first.do = "report" /\ first.phase = "prepare" /\ last \in Entry
    <3>1. "prepare" \in Labels
      BY DEF Labels
    <3> QED  BY <3>1 DEF Service!Report, Entry
  <2>4. Proper(world.request, first) /\ Proper(world.request, last)
    BY ProperEntries
  <2>5. world.request.problem = "mission" =>
          /\ Ordered(script, work)
          /\ \A document \in {"coordinated", "direct_north"} :
               \E n \in 1 .. Len(script) : IsKeep(script[n], document)
    <3>1. world.request.problem = "mission" => build = Service!Mission(work)
      BY DEF Service!Build
    <3> HIDE DEF build, work
    <3> QED  BY <1>1, <3>1, MissionIsOrdered
  <2> HIDE DEF first, last, build
  <2>6. /\ most \in Seq(Entry) /\ Len(most) = Len(build) + 1 /\ most[1] = first
        /\ \A n \in 1 .. Len(build) : most[n + 1] = build[n]
    BY <2>2, <2>3, OneBefore
  <2>7. script = most \o <<last>>
    OBVIOUS
  <2> HIDE DEF most
  <2>8. /\ script \in Seq(Entry) /\ Len(script) = Len(most) + 1 /\ script[Len(script)] = last
        /\ \A n \in 1 .. Len(most) : script[n] = most[n]
    BY <2>3, <2>6, <2>7, OneAfter
  <2> HIDE DEF script
  <2>9. script[1] = first /\ script # <<>>
    BY <2>2, <2>6, <2>8
  <2>10. AllProper(world.request, script)
    <3> SUFFICES ASSUME NEW n \in 1 .. Len(script) PROVE Proper(world.request, script[n])
      BY DEF AllProper
    <3>1. Len(build) \in Nat
      BY <2>2
    <3>2. n = 1 \/ n = Len(script) \/ (n - 1 \in 1 .. Len(build) /\ n = (n - 1) + 1 /\ n \in 1 .. Len(most))
      BY <2>6, <2>8, <3>1
    <3>3. CASE n - 1 \in 1 .. Len(build) /\ n = (n - 1) + 1 /\ n \in 1 .. Len(most)
      <4>1. script[n] = build[n - 1]
        BY <2>6, <2>8, <3>3
      <4> QED  BY <2>2, <3>3, <4>1 DEF AllProper
    <3> QED  BY <2>4, <2>8, <2>9, <3>2, <3>3
  <2>11. /\ world'.request = world.request /\ world'.script = script /\ world'.at = "script"
         /\ world'.observations = world.observations /\ world'.kept = world.kept
         /\ world'.documents = world.documents /\ world'.result = "none"
    BY <1>1, <2>1 DEF RunType
  <2>12. SourceInv'
    BY <2>10, <2>11 DEF SourceInv
  <2>13. OrderInv'
    <3>1. Ready(script, world.observations, work)
      BY <2>3, <2>9 DEF Ready, IsKeep, IsReport
    <3> QED  BY <2>5, <2>11, <3>1 DEF OrderInv
  <2>14. KeptInv'
    BY <2>5, <2>11 DEF EvidenceInv, KeptInv, Securing
  <2>15. SinkInv'
    BY <2>3, <2>9, <2>11 DEF EvidenceInv, SinkInv
  <2>16. DocumentsInv'
    BY <2>11 DEF EvidenceInv, DocumentsInv
  <2> QED  BY <2>12, <2>13, <2>14, <2>15, <2>16 DEF EvidenceInv
<1> QED  BY <1>2, <1>3

(* What was reported last is what is about to be kept. *)
LEMMA ReadyNext ==
  ASSUME NEW script \in Seq(Entry), script # <<>>, script[1].do = "report", NEW work \in Nat \ {0},
         NEW observations, NEW now \in Seq(Labels), now # <<>>, Len(now) \in Nat,
         now[Len(now)] = script[1].phase,
         \A since \in Int : SampledSince(observations, since) /\ since + 1 < Kept => SampledSince(now, since + 1),
         Ordered(script, work), Ready(script, observations, work), NEW left,
         \/ script[1].times = 1 /\ left = Tail(script)
         \/ /\ left[1].do = "report" /\ left[1].phase = script[1].phase
            /\ left[1].times = script[1].times - 1
  PROVE  Ready(left, now, work)
<1>1. script[1].times \in Nat \ {0} /\ 2 * work \in Nat /\ Kept \in Nat
  <2>1. script[1] \in Entry
    BY TailOf
  <2> QED  BY <2>1, EntryFields, ServiceAssumption
<1>2. IsReport(script[1], "pareto_sampling") /\ Few(work) =>
        SampledSince(now, 2 * work - script[1].times + 1)
  BY <1>1 DEF Ready, Few
<1>3. ASSUME NEW since, SampledSince(now, since)
      PROVE  SampledSince(now, Len(now))
  BY <1>3 DEF SampledSince
<1>4. CASE script[1].times = 1 /\ left = Tail(script)
  <2> SUFFICES ASSUME left # <<>>
               PROVE  /\ IsKeep(left[1], "coordinated") => now[Len(now)] = "ismcts"
                      /\ IsKeep(left[1], "direct_north") /\ Few(work) => SampledSince(now, Len(now))
                      /\ IsReport(left[1], "pareto_sampling") /\ Few(work) =>
                           SampledSince(now, 2 * work - left[1].times)
    BY DEF Ready
  <2>1. 2 \in 1 .. Len(script) /\ left[1] = script[2]
    BY <1>4
  <2>2. /\ IsKeep(left[1], "coordinated") => IsReport(script[1], "ismcts")
        /\ IsKeep(left[1], "direct_north") => IsReport(script[1], "pareto_sampling")
        /\ IsReport(left[1], "pareto_sampling") =>
             IsReport(script[1], "monte_carlo") /\ left[1].times = 2 * work
    <3>1. 2 > 1 /\ 2 - 1 = 1
      OBVIOUS
    <3> QED  BY <2>1, <3>1 DEF Ordered
  <2>3. IsReport(script[1], "monte_carlo") => SampledSince(now, 0)
    <3>1. Len(now) \in 1 .. Len(now) /\ Len(now) - Len(now) <= 0
      OBVIOUS
    <3> QED  BY <3>1 DEF IsReport, SampledSince
  <2> QED  BY <1>1, <1>2, <1>3, <2>2, <2>3 DEF IsReport
<1>5. CASE left[1].do = "report" /\ left[1].phase = script[1].phase /\ left[1].times = script[1].times - 1
  <2>1. /\ ~IsKeep(left[1], "coordinated") /\ ~IsKeep(left[1], "direct_north")
        /\ IsReport(left[1], "pareto_sampling") => IsReport(script[1], "pareto_sampling")
    BY <1>5 DEF IsKeep, IsReport
  <2>2. 2 * work - left[1].times = 2 * work - script[1].times + 1
    BY <1>1, <1>5
  <2> QED  BY <1>2, <2>1, <2>2 DEF Ready
<1> QED  BY <1>4, <1>5

LEMMA PublishEvidence ==
  ASSUME ServiceInv, EvidenceInv, Service!Publish
  PROVE  EvidenceInv'
<1> DEFINE s == world.script
           old == world.observations
           now == Append(IF Len(old) = Kept THEN Tail(old) ELSE old, Head(s).phase)
           rest == Service!Rest
           work == world.request.work
<1>1. /\ world.at = "publish" /\ world.result = "none" /\ s # <<>> /\ Head(s).do = "report"
      /\ world \in RunType /\ work \in Nat \ {0}
  BY EvidenceTypes DEF Service!Publish, Service!At, Service!Running, ServiceInv, ReportInv
<1>2. world' = [world EXCEPT !.observations = now, !.reports = @ + 1, !.script = rest, !.at = "script"]
  BY DEF Service!Publish
<1>3. s \in Seq(Entry) /\ s[1] = Head(s) /\ s[1].phase \in Labels /\ old \in Seq(Labels) /\ s[1].do = "report"
  BY <1>1, EvidenceTypes, EntryFields
<1>4. now = Append(IF Len(old) = Kept THEN Tail(old) ELSE old, s[1].phase)
  BY <1>3
<1> HIDE DEF now
<1>5. /\ now \in Seq(Labels) /\ now # <<>> /\ Len(now) \in 1 .. Kept /\ now[Len(now)] = s[1].phase
      /\ \A since \in Int : SampledSince(old, since) /\ since + 1 < Kept => SampledSince(now, since + 1)
  <2>1. Len(old) <= Kept
    BY DEF EvidenceInv, SinkInv
  <2> DEFINE phase == s[1].phase
  <2>2. phase \in Labels /\ now = Append(IF Len(old) = Kept THEN Tail(old) ELSE old, phase)
    BY <1>3, <1>4
  <2>3. old \in Seq(Labels)
    BY <1>3
  <2> HIDE DEF phase, old
  <2>4. /\ now \in Seq(Labels) /\ now # <<>> /\ Len(now) \in 1 .. Kept /\ now[Len(now)] = phase
        /\ \A since \in Int : SampledSince(old, since) /\ since + 1 < Kept => SampledSince(now, since + 1)
    BY <2>1, <2>2, <2>3, SinkShifts
  <2> QED  BY <2>4 DEF phase
<1>6. AllProper(world.request, s)
  BY DEF EvidenceInv, SourceInv
<1>7. /\ rest \in Seq(Entry) /\ AllProper(world.request, rest)
      /\ Ordered(s, work) => Ordered(rest, work)
      /\ \A document : (\E n \in 1 .. Len(s) : IsKeep(s[n], document)) =>
           \E n \in 1 .. Len(rest) : IsKeep(rest[n], document)
  BY <1>1, <1>3, <1>6, RestIsProper
<1>8. \/ s[1].times = 1 /\ rest = Tail(s)
      \/ rest[1].do = "report" /\ rest[1].phase = s[1].phase /\ rest[1].times = s[1].times - 1
  BY <1>1, <1>3, RestOf
<1> HIDE DEF rest
<1>9. /\ world'.request = world.request /\ world'.script = rest /\ world'.at = "script"
      /\ world'.observations = now /\ world'.kept = world.kept
      /\ world'.documents = world.documents /\ world'.result = "none"
  BY <1>1, <1>2 DEF RunType
<1>10. SourceInv'
  BY <1>7, <1>9 DEF SourceInv
<1>11. OrderInv'
  <2> SUFFICES ASSUME world.request.problem = "mission"
               PROVE  Ordered(rest, work) /\ Ready(rest, now, work)
    BY <1>9 DEF OrderInv
  <2>1. Ordered(s, work) /\ Ready(s, old, work)
    BY DEF EvidenceInv, OrderInv
  <2>2. Len(now) \in Nat
    BY <1>5
  <2> HIDE DEF s, old, work
  <2>3. Ready(rest, now, work)
    BY <1>1, <1>3, <1>5, <1>8, <2>1, <2>2, ReadyNext
  <2> QED  BY <1>7, <2>1, <2>3
<1>12. KeptInv'
  BY <1>1, <1>7, <1>9 DEF EvidenceInv, KeptInv, Securing
<1>13. SinkInv'
  BY <1>5, <1>9 DEF SinkInv
<1>14. DocumentsInv'
  BY <1>9 DEF EvidenceInv, DocumentsInv
<1> QED  BY <1>10, <1>11, <1>12, <1>13, <1>14 DEF EvidenceInv

(* What is left after a step that reports nothing. *)
LEMMA EvidenceGoesOn ==
  ASSUME ServiceInv, EvidenceInv, world.at = "script", world.script # <<>>, NEW left,
         \/ left = Tail(world.script) /\ Head(world.script).do # "report"
         \/ left = Service!Rest /\ Head(world.script).do \in {"perform", "frames"}
  PROVE  /\ AllProper(world.request, left) /\ world.observations # <<>>
         /\ world.request.problem = "mission" =>
              /\ Ordered(left, world.request.work)
              /\ Ready(left, world.observations, world.request.work)
              /\ \A document \in {"coordinated", "direct_north"} : ~IsKeep(Head(world.script), document) =>
                   Securing(left, world.kept, document, world.request.work)
<1> DEFINE s == world.script
           work == world.request.work
<1>1. /\ s \in Seq(Entry) /\ Head(s) = s[1] /\ s[1] \in Entry /\ work \in Nat \ {0} /\ s # <<>>
      /\ AllProper(world.request, s) /\ s[1].do # "report"
  BY EvidenceTypes DEF EvidenceInv, SourceInv
<1>2. world.observations # <<>>
  BY <1>1 DEF EvidenceInv, SinkInv
<1>3. world.request.problem = "mission" =>
        /\ Ordered(s, work)
        /\ \A document \in {"coordinated", "direct_north"} : Securing(s, world.kept, document, work)
  BY DEF EvidenceInv, OrderInv, KeptInv
<1>4. CASE left = Tail(s)
  <2>1. /\ AllProper(world.request, left)
        /\ Ordered(s, work) => Ordered(left, work)
        /\ \A document : ~IsKeep(s[1], document) =>
             ((\E n \in 1 .. Len(s) : IsKeep(s[n], document)) =>
                \E n \in 1 .. Len(left) : IsKeep(left[n], document))
    BY <1>1, <1>4, TailIsProper
  <2>2. Ordered(s, work) => Ready(left, world.observations, work)
    BY <1>1, <1>4, NothingIsDue
  <2> HIDE DEF s, work
  <2>3. world.request.problem = "mission" =>
          \A document \in {"coordinated", "direct_north"} :
            ~IsKeep(s[1], document) => Securing(left, world.kept, document, work)
    BY <1>3, <2>1 DEF Securing
  <2> QED  BY <1>1, <1>2, <1>3, <2>1, <2>2, <2>3 DEF s, work
<1>5. CASE left = Service!Rest /\ Head(s).do \in {"perform", "frames"} /\ left # Tail(s)
  <2>1. /\ AllProper(world.request, left)
        /\ Ordered(s, work) => Ordered(left, work)
        /\ \A document : (\E n \in 1 .. Len(s) : IsKeep(s[n], document)) =>
             \E n \in 1 .. Len(left) : IsKeep(left[n], document)
    BY <1>1, <1>5, RestIsProper
  <2>2. left[1].do \in {"perform", "frames"}
    BY <1>1, <1>5, RestOf
  <2>3. Ready(left, world.observations, work)
    BY <2>2 DEF Ready, IsKeep, IsReport
  <2> HIDE DEF s, work
  <2>4. world.request.problem = "mission" =>
          \A document \in {"coordinated", "direct_north"} : Securing(left, world.kept, document, work)
    BY <1>3, <2>1 DEF Securing
  <2> QED  BY <1>1, <1>2, <1>3, <2>1, <2>3, <2>4 DEF s, work
<1> QED  BY <1>4, <1>5

LEMMA KeepEvidence ==
  ASSUME ServiceInv, EvidenceInv, Service!KeepObservations
  PROVE  EvidenceInv'
<1> DEFINE entry == Head(world.script)
           found == {entry.phase} \cap Service!Range(world.observations)
           names == DOMAIN world.kept \cup {entry.document}
           now == [d \in names |-> IF d = entry.document THEN found ELSE world.kept[d]]
           rest == Tail(world.script)
           work == world.request.work
<1>1. /\ world.at = "script" /\ world.result = "none" /\ world.script # <<>> /\ entry.do = "keep"
      /\ world \in RunType /\ entry = world.script[1] /\ 1 \in 1 .. Len(world.script)
      /\ world.observations \in Seq(Labels)
  BY EvidenceTypes DEF Service!KeepObservations, Service!Doing, Service!At, Service!Running
<1>2. world' = [world EXCEPT !.script = rest, !.kept = now]
  BY DEF Service!KeepObservations
<1>3. /\ AllProper(world.request, rest) /\ world.observations # <<>>
      /\ world.request.problem = "mission" =>
           /\ Ordered(rest, work) /\ Ready(rest, world.observations, work)
           /\ \A document \in {"coordinated", "direct_north"} : ~IsKeep(entry, document) =>
                Securing(rest, world.kept, document, work)
  BY <1>1, EvidenceGoesOn
<1>4. /\ world.request.problem = "mission" /\ entry.document \in {"coordinated", "direct_north"}
      /\ entry.phase = KeptOf(entry.document)
  BY <1>1 DEF EvidenceInv, SourceInv, AllProper, Proper
<1>5. Secured(now, entry.document, work)
  <2>1. now[entry.document] = found /\ entry.document \in DOMAIN now
    OBVIOUS
  <2>2. Ready(world.script, world.observations, work)
    BY <1>4 DEF EvidenceInv, OrderInv
  <2>3. DOMAIN world.observations = 1 .. Len(world.observations) /\ Len(world.observations) \in Nat \ {0}
    BY <1>1, <1>3
  <2>4. ASSUME entry.document = "coordinated"
        PROVE  found = {"ismcts"}
    <3>1. IsKeep(world.script[1], "coordinated") /\ entry.phase = "ismcts"
      BY <1>1, <1>4, <2>4 DEF IsKeep, KeptOf
    <3>2. world.observations[Len(world.observations)] = "ismcts"
      BY <1>1, <2>2, <3>1 DEF Ready
    <3> QED  BY <2>3, <3>1, <3>2 DEF Service!Range
  <2>5. ASSUME entry.document = "direct_north", Few(work)
        PROVE  found = {"monte_carlo"}
    <3>1. IsKeep(world.script[1], "direct_north") /\ entry.phase = "monte_carlo"
      BY <1>1, <1>4, <2>5 DEF IsKeep, KeptOf
    <3>2. PICK n \in 1 .. Len(world.observations) : world.observations[n] = "monte_carlo"
      BY <1>1, <2>2, <2>5, <3>1 DEF Ready, SampledSince
    <3> QED  BY <2>3, <3>1, <3>2 DEF Service!Range
  <2> HIDE DEF now, found, entry
  <2> QED  BY <2>1, <2>4, <2>5 DEF Secured
<1>6. \A document \in {"coordinated", "direct_north"} : Securing(rest, now, document, work)
  <2> SUFFICES ASSUME NEW document \in {"coordinated", "direct_north"}, document # entry.document
               PROVE  Securing(rest, now, document, work)
    BY <1>5 DEF Securing
  <2>1. Securing(rest, world.kept, document, work)
    BY <1>3, <1>4 DEF IsKeep
  <2>2. document \in DOMAIN world.kept => document \in DOMAIN now /\ now[document] = world.kept[document]
    OBVIOUS
  <2> HIDE DEF now, rest, entry, work
  <2> QED  BY <2>1, <2>2 DEF Securing, Secured
<1> HIDE DEF now, rest
<1>7. /\ world'.request = world.request /\ world'.script = rest /\ world'.at = "script"
      /\ world'.observations = world.observations /\ world'.kept = now
      /\ world'.documents = world.documents /\ world'.result = "none"
  BY <1>1, <1>2 DEF RunType
<1>8. SourceInv' /\ OrderInv'
  BY <1>3, <1>7 DEF SourceInv, OrderInv
<1>9. KeptInv'
  BY <1>4, <1>6, <1>7 DEF KeptInv
<1>10. SinkInv' /\ DocumentsInv'
  BY <1>3, <1>7 DEF EvidenceInv, SinkInv, DocumentsInv
<1> QED  BY <1>8, <1>9, <1>10 DEF EvidenceInv

(* The document an adapter is at has observations of its own, if it should. *)
LEMMA DocumentEvidence ==
  ASSUME ServiceInv, EvidenceInv, world.at = "script", world.script # <<>>, IsDocument(Head(world.script)),
         NEW own, Head(world.script).do = "replay" => own = Head(world.script).own
  PROVE  ProperDocument(world.request, Service!Document(Head(world.script).document, own))
<1> DEFINE entry == Head(world.script)
           document == Service!Document(entry.document, own)
           work == world.request.work
<1>1. entry = world.script[1] /\ 1 \in 1 .. Len(world.script) /\ Len(world.script) \in Nat
  BY EvidenceTypes
<1>2. /\ world.request.problem = "maze" => entry.do = "replay" /\ entry.own = MazeOf(entry.document)
      /\ world.request.problem # "mission" => entry.document # "coordinated"
  BY <1>1 DEF EvidenceInv, SourceInv, AllProper, Proper
<1>3. /\ document.strategy = entry.document
      /\ document.solved = IF entry.document \in DOMAIN world.kept THEN world.kept[entry.document] ELSE own
  BY DEF Service!Document
<1>4. CASE world.request.problem = "mission"
  <2>1. \A n \in 1 .. Len(world.script) : \A name : ~IsKeep(world.script[n], name)
    <3>1. Ordered(world.script, work)
      BY <1>4 DEF EvidenceInv, OrderInv
    <3>2. \A n \in 1 .. Len(world.script) : world.script[n].do = "keep" => n < 1
      BY <1>1, <3>1 DEF Ordered
    <3>3. \A n \in 1 .. Len(world.script) : world.script[n].do # "keep"
      BY <3>2
    <3> QED  BY <3>3 DEF IsKeep
  <2>2. \A name \in {"coordinated", "direct_north"} : Secured(world.kept, name, work)
    BY <1>4, <2>1 DEF EvidenceInv, KeptInv, Securing
  <2> QED  BY <1>3, <1>4, <2>2 DEF ProperDocument, Secured
<1>5. CASE world.request.problem # "mission"
  <2>1. DOMAIN world.kept = {}
    BY <1>5 DEF EvidenceInv, KeptInv
  <2>2. document.solved = own
    BY <1>3, <2>1
  <2> HIDE DEF document, entry
  <2> QED  BY <1>2, <1>3, <1>5, <2>2 DEF ProperDocument, entry, document
<1> QED  BY <1>4, <1>5

LEMMA ReplayEvidence ==
  ASSUME ServiceInv, EvidenceInv, Service!ReplayDocument
  PROVE  EvidenceInv'
<1> DEFINE entry == Head(world.script)
           document == Service!Document(entry.document, entry.own)
           now == Append(world.documents, document)
           rest == Tail(world.script)
<1>1. /\ world.at = "script" /\ world.result = "none" /\ world.script # <<>> /\ entry.do = "replay"
      /\ world \in RunType /\ world.documents \in Seq(DocumentType)
      /\ entry \in Entry
  BY EvidenceTypes DEF Service!ReplayDocument, Service!Doing, Service!At, Service!Running
<1>2. world' = [world EXCEPT !.script = rest, !.documents = now]
  BY DEF Service!ReplayDocument
<1>3. /\ AllProper(world.request, rest) /\ world.observations # <<>>
      /\ world.request.problem = "mission" =>
           /\ Ordered(rest, world.request.work) /\ Ready(rest, world.observations, world.request.work)
           /\ \A name \in {"coordinated", "direct_north"} :
                Securing(rest, world.kept, name, world.request.work)
  BY <1>1, EvidenceGoesOn DEF IsKeep
<1>4. ProperDocument(world.request, document) /\ document \in DocumentType
  <2>1. entry.document \in Labels /\ entry.own \in SUBSET Labels
    BY <1>1, EntryFields
  <2> QED  BY <1>1, <2>1, DocumentEvidence, DocumentIsTyped DEF IsDocument
<1> HIDE DEF document
<1>5. \A n \in 1 .. Len(now) :
        now[n] = document \/ (n \in 1 .. Len(world.documents) /\ now[n] = world.documents[n])
  BY <1>1, <1>4, OneMore
<1> HIDE DEF now, rest
<1>6. /\ world'.request = world.request /\ world'.script = rest /\ world'.at = "script"
      /\ world'.observations = world.observations /\ world'.kept = world.kept
      /\ world'.documents = now /\ world'.result = "none"
  BY <1>1, <1>2 DEF RunType
<1>7. SourceInv' /\ OrderInv'
  BY <1>3, <1>6 DEF SourceInv, OrderInv
<1>8. KeptInv'
  BY <1>3, <1>6 DEF EvidenceInv, KeptInv
<1>9. SinkInv' /\ DocumentsInv'
  BY <1>3, <1>4, <1>5, <1>6 DEF EvidenceInv, SinkInv, DocumentsInv
<1> QED  BY <1>7, <1>8, <1>9 DEF EvidenceInv

LEMMA PerformEvidence ==
  ASSUME ServiceInv, EvidenceInv, Service!PerformExchange \/ Service!ShowFrame
  PROVE  EvidenceInv'
<1> DEFINE entry == Head(world.script)
           document == Service!Document(entry.document, {})
           ends == entry.do = "perform" /\ entry.times = 1
           now == IF ends THEN Append(world.documents, document) ELSE world.documents
           rest == Service!Rest
           shown == Append(world.frames, Service!Frame(entry))
<1>1. /\ world.at = "script" /\ world.result = "none" /\ world.script # <<>>
      /\ entry.do \in {"perform", "frames"}
      /\ world \in RunType /\ world.documents \in Seq(DocumentType)
      /\ entry \in Entry
  BY EvidenceTypes DEF Service!PerformExchange, Service!ShowFrame, Service!Doing, Service!At,
     Service!Running
<1>2. world' = [world EXCEPT !.frames = shown, !.script = rest, !.documents = now]
  <2>1. CASE Service!PerformExchange
    <3>1. entry.do = "perform"
      BY <2>1 DEF Service!PerformExchange, Service!Doing
    <3>2. world' = [world EXCEPT !.frames = shown, !.script = rest,
                       !.documents = IF entry.times = 1 THEN Append(@, document) ELSE @]
      BY <2>1 DEF Service!PerformExchange
    <3> HIDE DEF shown, rest, document
    <3> QED  BY <3>1, <3>2
  <2>2. CASE Service!ShowFrame
    <3>1. entry.do = "frames"
      BY <2>2 DEF Service!ShowFrame, Service!Doing
    <3>2. world' = [world EXCEPT !.frames = shown, !.script = rest]
      BY <2>2 DEF Service!ShowFrame
    <3>3. now = world.documents
      BY <3>1
    <3> HIDE DEF shown, rest, now
    <3> QED  BY <1>1, <3>2, <3>3 DEF RunType
  <2> QED  BY <2>1, <2>2
<1>3. /\ AllProper(world.request, rest) /\ world.observations # <<>>
      /\ world.request.problem = "mission" =>
           /\ Ordered(rest, world.request.work) /\ Ready(rest, world.observations, world.request.work)
           /\ \A name \in {"coordinated", "direct_north"} :
                Securing(rest, world.kept, name, world.request.work)
  BY <1>1, EvidenceGoesOn DEF IsKeep
<1>4. ends => ProperDocument(world.request, document) /\ document \in DocumentType
  <2>1. entry.document \in Labels /\ {} \in SUBSET Labels
    BY <1>1, EntryFields
  <2> QED  BY <1>1, <2>1, DocumentEvidence, DocumentIsTyped DEF IsDocument
<1> HIDE DEF document, ends
<1>5. \A n \in 1 .. Len(now) :
        (ends /\ now[n] = document) \/ (n \in 1 .. Len(world.documents) /\ now[n] = world.documents[n])
  <2>1. CASE ends
    BY <1>1, <1>4, <2>1, OneMore
  <2>2. CASE ~ends
    BY <2>2
  <2> QED  BY <2>1, <2>2
<1> HIDE DEF now, rest, shown
<1>6. /\ world'.request = world.request /\ world'.script = rest /\ world'.at = "script"
      /\ world'.observations = world.observations /\ world'.kept = world.kept
      /\ world'.documents = now /\ world'.result = "none"
  BY <1>1, <1>2 DEF RunType
<1>7. SourceInv' /\ OrderInv'
  BY <1>3, <1>6 DEF SourceInv, OrderInv
<1>8. KeptInv'
  BY <1>3, <1>6 DEF EvidenceInv, KeptInv
<1>9. SinkInv' /\ DocumentsInv'
  BY <1>3, <1>4, <1>5, <1>6 DEF EvidenceInv, SinkInv, DocumentsInv
<1> QED  BY <1>7, <1>8, <1>9 DEF EvidenceInv

LEMMA AssembleEvidence ==
  ASSUME ServiceInv, EvidenceInv, Service!Assemble
  PROVE  EvidenceInv'
<1> DEFINE shows == \E n \in DOMAIN world.frames : world.frames[n].document = Service!Selected
           f == Service!Frames(Service!Selected)
           r == Service!Report("artifact", Len(world.documents))
           S == {f, r}
           rest == (IF shows THEN <<>> ELSE <<f>>) \o <<r>>
<1>1. /\ world.at = "script" /\ world.result = "none" /\ world.script # <<>>
      /\ Head(world.script).do = "assemble" /\ world \in RunType
      /\ world.script[1] = Head(world.script) /\ 1 \in 1 .. Len(world.script)
  BY EvidenceTypes DEF Service!Assemble, Service!Doing, Service!At, Service!Running
<1>2. \/ world' = [world EXCEPT !.script = rest]
      \/ world' = [world EXCEPT !.result = "problem"]
  BY DEF Service!Assemble
<1>3. world'.result # "problem"
  BY AssembleKeeps DEF ServiceInv, ReportInv
<1>4. f.do = "frames" /\ r.do = "report" /\ r.phase = "artifact"
  BY DEF Service!Frames, Service!Report
<1> HIDE DEF f, r
<1>5. <<f>> \in Seq(S) /\ <<r>> \in Seq(S) /\ <<>> \in Seq(S)
  OBVIOUS
<1>6. \A e \in S : /\ e.do \in {"frames", "report"} /\ \A name : ~IsKeep(e, name)
                   /\ ~IsReport(e, "pareto_sampling") /\ ~IsDocument(e)
  BY <1>4 DEF IsKeep, IsReport, IsDocument
<1> HIDE DEF S
<1>7. rest \in Seq(S)
  BY <1>5
<1>8. rest # <<>>
  BY <1>5
<1> HIDE DEF rest
<1>9. \A n \in 1 .. Len(rest) : rest[n] \in S
  BY <1>7
<1>10. AllProper(world.request, rest)
  BY <1>6, <1>9 DEF AllProper, Proper
<1>11. Ordered(rest, world.request.work)
  BY <1>6, <1>9 DEF Ordered, IsKeep
<1>12. Ready(rest, world.observations, world.request.work)
  <2>1. rest # <<>> => rest[1] \in S
    BY <1>7
  <2> QED  BY <1>6, <2>1 DEF Ready
<1>13. /\ world'.request = world.request /\ world'.script = rest /\ world'.at = "script"
       /\ world'.observations = world.observations /\ world'.kept = world.kept
       /\ world'.documents = world.documents /\ world'.result = "none"
  <2>1. world' = [world EXCEPT !.script = rest]
    <3>1. world' = [world EXCEPT !.result = "problem"] => world'.result = "problem"
      BY <1>1 DEF RunType
    <3> QED  BY <1>2, <1>3, <3>1
  <2> QED  BY <1>1, <2>1 DEF RunType
<1>14. world.observations # <<>>
  BY <1>1 DEF EvidenceInv, SinkInv
<1>15. world.request.problem = "mission" =>
         \A name \in {"coordinated", "direct_north"} : Secured(world.kept, name, world.request.work)
  <2>1. Making(world.script, world.documents, Len(world.frames), Service!Selected)
    <3>1. ~Showing(world.script, Len(world.frames), Service!Selected)
      BY <1>1 DEF Showing
    <3> QED  BY <1>1, <3>1 DEF ServiceInv, StageInv
  <2>2. \A n \in 1 .. Len(world.script) : world.script[n].do = "assemble"
    <3>1. Len(world.script) = 1
      BY <1>1, <2>1 DEF Making
    <3> QED  BY <1>1, <3>1
  <2> QED  BY <1>1, <2>2 DEF EvidenceInv, KeptInv, Securing, IsKeep
<1>16. SourceInv' /\ OrderInv'
  BY <1>10, <1>11, <1>12, <1>13 DEF SourceInv, OrderInv
<1>17. KeptInv'
  BY <1>13, <1>15 DEF EvidenceInv, KeptInv, Securing
<1>18. SinkInv' /\ DocumentsInv'
  BY <1>13, <1>14 DEF EvidenceInv, SinkInv, DocumentsInv
<1> QED  BY <1>16, <1>17, <1>18 DEF EvidenceInv

LEMMA FinishEvidence ==
  ASSUME ServiceInv, EvidenceInv, Service!Finish
  PROVE  EvidenceInv'
<1> DEFINE old == world.documents
           sink == Service!Range(world.observations)
           now == [n \in DOMAIN old |-> IF old[n].solved # {} THEN old[n] ELSE [old[n] EXCEPT !.solved = sink]]
<1>1. /\ world.at = "script" /\ world.result = "none" /\ world.script = <<>> /\ world \in RunType
      /\ old \in Seq(DocumentType) /\ world.observations \in Seq(Labels)
  BY EvidenceTypes DEF Service!Finish, Service!At, Service!Running
<1>2. world' = [world EXCEPT !.result = "ok", !.documents = now]
  BY DEF Service!Finish
<1>3. world.observations # <<>>
  BY <1>1 DEF EvidenceInv, SinkInv
<1>4. sink # {}
  <2>1. 1 \in DOMAIN world.observations
    BY <1>1, <1>3
  <2> QED  BY <2>1 DEF Service!Range
<1>5. \A n \in 1 .. Len(old) : ProperDocument(world.request, old[n]) /\ old[n] \in DocumentType
  BY <1>1 DEF EvidenceInv, DocumentsInv
<1>6. Len(now) = Len(old)
  <2>1. DOMAIN now = 1 .. Len(old) /\ Len(old) \in Nat
    BY <1>1
  <2>2. now = [n \in 1 .. Len(old) |-> now[n]]
    BY <2>1
  <2> HIDE DEF now
  <2> DEFINE T == {now[n] : n \in 1 .. Len(old)}
  <2>3. \A n \in 1 .. Len(old) : now[n] \in T
    OBVIOUS
  <2> HIDE DEF T
  <2>4. now \in Seq(T)
    BY <2>1, <2>2, <2>3
  <2> QED  BY <2>1, <2>4
<1>7. ASSUME NEW n \in 1 .. Len(old)
      PROVE  ProperDocument(world.request, now[n]) /\ now[n].solved # {}
  <2>1. now[n] = IF old[n].solved # {} THEN old[n] ELSE [old[n] EXCEPT !.solved = sink]
    BY <1>1
  <2>2. CASE old[n].solved # {}
    BY <1>5, <2>1, <2>2
  <2>3. CASE old[n].solved = {}
    <3>1. now[n].strategy = old[n].strategy /\ now[n].solved = sink
      BY <1>5, <2>1, <2>3 DEF DocumentType
    <3>2. MazeOf(old[n].strategy) # {} /\ {"ismcts"} # {} /\ {"monte_carlo"} # {}
      BY DEF MazeOf
    <3> HIDE DEF now, old, sink
    <3> QED  BY <1>4, <1>5, <2>3, <3>1, <3>2 DEF ProperDocument
  <2> QED  BY <2>2, <2>3
<1> HIDE DEF now
<1>8. /\ world'.request = world.request /\ world'.script = world.script /\ world'.at = "script"
      /\ world'.observations = world.observations /\ world'.kept = world.kept
      /\ world'.documents = now
  BY <1>1, <1>2 DEF RunType
<1>9. SourceInv' /\ OrderInv'
  BY <1>8 DEF EvidenceInv, SourceInv, OrderInv
<1>10. KeptInv'
  BY <1>1, <1>8 DEF EvidenceInv, KeptInv
<1>11. SinkInv'
  BY <1>3, <1>8 DEF EvidenceInv, SinkInv
<1>12. DocumentsInv'
  BY <1>6, <1>7, <1>8 DEF DocumentsInv
<1> QED  BY <1>9, <1>10, <1>11, <1>12 DEF EvidenceInv

LEMMA EvidenceSteps ==
  ASSUME ServiceInv, EvidenceInv, Service!Next
  PROVE  EvidenceInv'
<1>1. CASE Service!Turn \/ Service!Checkpoint \/ Service!Ensure \/ Service!Pause \/ Service!Resume \/ Service!Cancel
  BY <1>1, ControlEvidence
<1>2. CASE Service!Begin \/ Service!Publish \/ Service!KeepObservations \/ Service!ReplayDocument
  BY <1>2, BeginEvidence, PublishEvidence, KeepEvidence, ReplayEvidence
<1>3. CASE Service!PerformExchange \/ Service!ShowFrame \/ Service!Assemble \/ Service!Finish
  BY <1>3, PerformEvidence, AssembleEvidence, FinishEvidence
<1> QED  BY <1>1, <1>2, <1>3 DEF Service!Next, Service!Run

LEMMA EvidenceHolds ==
  ASSUME ServiceInv, EvidenceInv
  PROVE  Service!EvidenceIsTheDocumentsOwn
<1>1. DOMAIN world.documents = 1 .. Len(world.documents)
  BY EvidenceTypes
<1>2. \A n \in 1 .. Len(world.documents) :
        /\ ProperDocument(world.request, world.documents[n])
        /\ world.result = "ok" => world.documents[n].solved # {}
  BY DEF EvidenceInv, DocumentsInv
<1> QED  BY <1>1, <1>2 DEF Service!EvidenceIsTheDocumentsOwn, ProperDocument, MazeOf, Few

-----------------------------------------------------------------------------
(* Only a run of the service moves its state. *)
LEMMA OtherGamesStay ==
  ASSUME game = "service run" => ServiceInv /\ EvidenceInv, [Next]_vars
  PROVE  (game = "service run" => ServiceInv /\ EvidenceInv)'
<1>1. CASE RunService
  BY <1>1, ServiceSteps, EvidenceSteps DEF RunService
<1>2. CASE UNCHANGED vars
  <2>1. ServiceInv => ServiceInv'
    BY <1>2, ServiceRests DEF vars
  <2>2. EvidenceInv => EvidenceInv'
    BY <1>2, EvidenceStays DEF vars
  <2> QED  BY <1>2, <2>1, <2>2 DEF vars
<1>3. CASE ~RunService /\ Next
  <2>1. game # "service run" /\ UNCHANGED game
    BY <1>3 DEF Next, PlayMarketplace, PlayLivingMarket, PlayBridge, PlayWorkshop, PlayExactCover,
       PlaySokoban, PlayMaze, PlayScheduling, PlayRescue, PlayConnectFour, PlayLogistics,
       PlayMission,
       PlayPerishables, PlayWorkLeague
  <2> QED  BY <2>1
<1> QED  BY <1>1, <1>2, <1>3

(* Every strategy the catalogue offers is served and no two documents share *)
(* a name; whoever is shown frames live sees the replay that was asked for, *)
(* from its first exchange to its last; a run that is cancelled tells of    *)
(* work at most once more; and of a run that succeeds every document has    *)
(* observations, those of its own algorithm where it should (lib.rs:212,    *)
(* 706, adapters.rs:861, 912).                                              *)
THEOREM RunsAlwaysKeepTheirWord == Spec => []RunsKeepTheirWord
<1> DEFINE Inv == game = "service run" => ServiceInv /\ EvidenceInv
<1>1. Init => Inv
  BY ServiceStarts, EvidenceStarts DEF Init
<1>2. Inv /\ [Next]_vars => Inv'
  BY OtherGamesStay
<1>3. Inv => RunsKeepTheirWord
  BY ServiceHolds, EvidenceHolds DEF RunsKeepTheirWord
<1> QED  BY <1>1, <1>2, <1>3, PTL DEF Spec
=============================================================================
