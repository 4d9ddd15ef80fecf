----------------------------- MODULE TurnProofs ------------------------------
(***************************************************************************)
(* Theorems about a turn, for every number of chunks, deltas, items and    *)
(* tool calls.                                                             *)
(*                                                                         *)
(* StreamRelay: whoever ends a turn (the upstream, a watchdog, the client, *)
(* the server or the collector), in whatever order, the record, the wire   *)
(* and the blame come out as promised.  None of the three promises is      *)
(* inductive: each looks at the end of a turn only, so the invariant ties  *)
(* the stand of the relay to the link, to the reason found so far, to what *)
(* was put on the wire and to who still pulls.                             *)
(*                                                                         *)
(* Protocols: however the deltas of the texts and the calls are            *)
(* interleaved, the client has put together what the upstream sent.  That  *)
(* is promised of the end only; the invariant says of every moment which   *)
(* block belongs to which call, that what is shown so far adds up to what  *)
(* was sent so far, and which block is open.  A sum over the blocks is a   *)
(* recursive function: what it is after one more block or one more         *)
(* fragment follows from its partial sums, which are shown to exist, and   *)
(* to be the only ones, by induction over a set of naturals.               *)
(***************************************************************************)
EXTENDS StreamRelay, Protocols, FiniteSetTheorems, WellFoundedInduction, TLAPS

-----------------------------------------------------------------------------
(* The relay: the inductive invariant *)

BeforeEnd == {"none", "unstarted", "waiting", "parked"}

(* A relay exists once the headers came, and has run its hook exactly when *)
(* it is closed.                                                           *)
LinkAndRelay ==
    /\ inner = "none" <=> link = "headers"
    /\ inner = "none" => outer = "none"
    /\ inner \in {"unstarted", "waiting", "parked"} => link = "open"
    /\ inner = "closed" <=> outcome # "unset"

(* The reason is found when the body ends, and says what the link did.     *)
ReasonMatches ==
    /\ inner \in BeforeEnd => reason = "unset"
    /\ reason \in {"unset", "completed", "cut", "stalled", "interrupted"}
    /\ reason = "stalled" => link = "silent"
    /\ reason = "interrupted" => link = "broken"

(* What is still missing on the wire is what the relay is about to add.    *)
WireGrows ==
    /\ inner \in BeforeEnd => ~synth.finish /\ ~synth.done
    /\ inner = "finish" => ~saw.finish /\ synth.finish /\ ~synth.done
    /\ inner = "done" => saw.finish # synth.finish /\ ~saw.done /\ synth.done

(* The lifecycle relay pulls exactly while the relay waits for it, writes  *)
(* no record before it ends, and drops or orphans only for a client that   *)
(* is gone.                                                                *)
ConsumerStands ==
    /\ outer = "pulling" => inner = "waiting"
    /\ inner = "waiting" => outer \in {"none", "pulling"}
    /\ outer = "none" /\ ~setup.prefetch => inner \in {"none", "unstarted"}
    /\ outer = "orphan" => ~client
    /\ ~held => ~client /\ outer \in {"orphan", "ended"}
    /\ outer \in {"none", "pulling", "parked"} => records = 0

RelayInv ==
    /\ RelayTypeOK /\ OneRecord
    /\ LinkAndRelay /\ ReasonMatches /\ WireGrows /\ ConsumerStands
    /\ WireTerminated /\ BlameIsFair

(* What the invariant says of the state variables taken together, with the *)
(* field types the solvers need.                                           *)
LEMMA FieldTypes ==
    ASSUME RelayTypeOK
    PROVE  /\ saw.finish \in BOOLEAN /\ saw.done \in BOOLEAN
           /\ synth.finish \in BOOLEAN /\ synth.done \in BOOLEAN
           /\ setup.bun \in BOOLEAN /\ setup.prefetch \in BOOLEAN /\ setup.closing \in BOOLEAN
BY DEF RelayTypeOK, Setup

LEMMA RelayInitInv == RelayInit => RelayInv
<1> SUFFICES ASSUME RelayInit
             PROVE  RelayInv
  OBVIOUS
<1>0. /\ setup \in Setups /\ left = MaxChunks /\ link = "headers"
      /\ child = "running" \/ child = "none"
      /\ inner = "none" /\ held = TRUE /\ reason = "unset" /\ outcome = "unset" /\ outer = "none"
      /\ saw = [finish |-> FALSE, done |-> FALSE]
      /\ synth = [finish |-> FALSE, done |-> FALSE]
      /\ client = TRUE /\ records = 0
  BY Zenon DEF RelayInit
<1>1. RelayTypeOK
  BY <1>0, RelayAssumption DEF RelayTypeOK
<1>2. OneRecord /\ LinkAndRelay /\ ReasonMatches
  BY <1>0 DEF OneRecord, LinkAndRelay, ReasonMatches
<1>3. WireGrows /\ ConsumerStands /\ WireTerminated /\ BlameIsFair
  BY <1>0 DEF WireGrows, ConsumerStands, WireTerminated, BlameIsFair, Blaming
<1> QED
  BY <1>1, <1>2, <1>3 DEF RelayInv

-----------------------------------------------------------------------------
(* Up to the headers *)

LEMMA HeadersInv ==
    ASSUME RelayInv, HeadersArrive \/ HeadersFail \/ HeadersCancelled \/ LooseChildEnds
    PROVE  RelayInv'
<1> USE DEF HeadersArrive, HeadersFail, HeadersCancelled, LooseChildEnds, wire
<1>1. RelayTypeOK'
  BY DEF RelayInv, RelayTypeOK, Reaped, Outcomes
<1>2. (OneRecord /\ LinkAndRelay /\ ReasonMatches /\ ConsumerStands /\ BlameIsFair)'
  BY DEF RelayInv, RelayTypeOK, OneRecord, LinkAndRelay, ReasonMatches, ConsumerStands,
         BlameIsFair, Blaming, BeforeEnd
<1>3. (WireGrows /\ WireTerminated)'
  BY DEF RelayInv, LinkAndRelay, WireGrows, ConsumerStands, WireTerminated, BeforeEnd
<1> QED
  BY <1>1, <1>2, <1>3 DEF RelayInv

-----------------------------------------------------------------------------
(* While the relay waits *)

LEMMA ChunkInv ==
    ASSUME RelayInv, ChunkArrives
    PROVE  RelayInv'
<1> USE DEF ChunkArrives, HandsOver
<1>1. RelayTypeOK'
  <2>1. left - 1 \in 0..MaxChunks
    BY RelayAssumption DEF RelayInv, RelayTypeOK
  <2>2. saw' \in [finish: BOOLEAN, done: BOOLEAN]
    BY FieldTypes DEF RelayInv
  <2> QED
    BY <2>1, <2>2 DEF RelayInv, RelayTypeOK
<1>2. (OneRecord /\ LinkAndRelay /\ ReasonMatches /\ ConsumerStands /\ BlameIsFair)'
  BY DEF RelayInv, RelayTypeOK, OneRecord, LinkAndRelay, ReasonMatches, ConsumerStands,
         BlameIsFair, Blaming, BeforeEnd
<1>3. (WireGrows /\ WireTerminated)'
  BY DEF RelayInv, WireGrows, ConsumerStands, WireTerminated, BeforeEnd
<1> QED
  BY <1>1, <1>2, <1>3 DEF RelayInv

(* The end of the body, whatever ended it.                                 *)
LEMMA AfterLoopInv ==
    ASSUME RelayInv, inner = "waiting", link = "open",
           NEW found \in {"completed", "cut", "stalled", "interrupted"}, AfterLoop(found),
           link' \in {"ended", "silent", "broken"},
           found = "stalled" <=> link' = "silent",
           found = "interrupted" => link' = "broken",
           UNCHANGED <<setup, left, held, saw, client>>
    PROVE  RelayInv'
<1>1. /\ RelayTypeOK /\ reason = "unset" /\ outcome = "unset"
      /\ ~synth.finish /\ ~synth.done
      /\ outer \in {"none", "pulling"} /\ held /\ records = 0 /\ reason' = found
  BY DEF RelayInv, RelayTypeOK, LinkAndRelay, ReasonMatches, WireGrows, ConsumerStands, BeforeEnd,
         AfterLoop
<1>2. Reaped \in {"none", "running", "loose", "gone"}
  BY <1>1 DEF RelayTypeOK, Reaped
<1>3. CASE saw.finish /\ saw.done
  <2>1. /\ inner' = "closed" /\ outcome' = found /\ synth' = synth /\ child' = Reaped
        /\ outer' = (IF outer = "pulling" THEN "ended" ELSE "none")
        /\ records' = (IF outer = "pulling" THEN 1 ELSE 0)
    BY <1>1, <1>3 DEF AfterLoop, Closes, Record
  <2>2. RelayTypeOK'
    BY <1>1, <1>2, <2>1 DEF RelayTypeOK, Outcomes
  <2>3. (OneRecord /\ LinkAndRelay /\ ReasonMatches /\ ConsumerStands /\ BlameIsFair)'
    BY <1>1, <2>1 DEF RelayInv, OneRecord, LinkAndRelay, ReasonMatches, ConsumerStands,
                      BlameIsFair, Blaming, BeforeEnd
  <2>4. (WireGrows /\ WireTerminated)'
    BY <1>1, <1>3, <2>1 DEF WireGrows, WireTerminated, BeforeEnd
  <2> QED
    BY <2>2, <2>3, <2>4 DEF RelayInv
<1>4. CASE ~(saw.finish /\ saw.done)
  <2>1. /\ inner' = (IF saw.finish THEN "done" ELSE "finish")
        /\ synth' = [finish |-> ~saw.finish, done |-> saw.finish]
        /\ child' = Reaped
        /\ outer' = (IF outer = "pulling" THEN "parked" ELSE "none")
        /\ outcome' = "unset" /\ records' = 0
    BY <1>1, <1>4 DEF AfterLoop, HandsOver
  <2>2. RelayTypeOK'
    BY <1>1, <1>2, <2>1, FieldTypes DEF RelayTypeOK, Outcomes
  <2>3. (OneRecord /\ LinkAndRelay /\ ReasonMatches /\ ConsumerStands /\ BlameIsFair)'
    BY <1>1, <2>1 DEF RelayInv, OneRecord, LinkAndRelay, ReasonMatches, ConsumerStands,
                      BlameIsFair, Blaming, BeforeEnd
  <2>4. (WireGrows /\ WireTerminated)'
    BY <1>1, <1>4, <2>1, FieldTypes DEF WireGrows, WireTerminated, BeforeEnd
  <2> QED
    BY <2>2, <2>3, <2>4 DEF RelayInv
<1> QED
  BY <1>3, <1>4

LEMMA BodyEndInv ==
    ASSUME RelayInv, BodyEnds \/ Stalls \/ LinkBreaks
    PROVE  RelayInv'
<1>1. inner = "waiting" /\ link = "open" /\ UNCHANGED <<setup, left, held, saw, client>>
  BY DEF BodyEnds, Stalls, LinkBreaks
<1>2. PICK found \in {"completed", "cut", "stalled", "interrupted"} :
        /\ AfterLoop(found)
        /\ link' \in {"ended", "silent", "broken"}
        /\ found = "stalled" <=> link' = "silent"
        /\ found = "interrupted" => link' = "broken"
  BY DEF BodyEnds, Stalls, LinkBreaks
<1> QED
  BY <1>1, <1>2, AfterLoopInv

(* A relay that is closed before its body ended reports a disconnect.      *)
LEMMA ClosesEarly ==
    ASSUME RelayInv, Closes, reason' = reason
    PROVE  /\ inner' = "closed"
           /\ child' \in {"none", "running", "loose", "gone"}
           /\ outcome' \in {"disconnected", "completed", "cut", "stalled", "interrupted"}
           /\ outcome' = "stalled" => link = "silent"
           /\ outcome' = "interrupted" => link = "broken"
           /\ inner \in BeforeEnd => outcome' = "disconnected"
BY DEF Closes, Reaped, RelayInv, RelayTypeOK, ReasonMatches

LEMMA PrefetchInv ==
    ASSUME RelayInv, PrefetchExpires
    PROVE  RelayInv'
<1> USE DEF PrefetchExpires
<1>1. /\ inner' = "closed" /\ outcome' = "disconnected" /\ reason' = "unset"
      /\ child' \in {"none", "running", "loose", "gone"}
  BY ClosesEarly DEF RelayInv, ReasonMatches, BeforeEnd
<1>2. RelayTypeOK'
  BY <1>1 DEF RelayInv, RelayTypeOK, Outcomes
<1>3. (OneRecord /\ LinkAndRelay /\ ReasonMatches /\ ConsumerStands /\ BlameIsFair)'
  BY <1>1 DEF RelayInv, RelayTypeOK, OneRecord, LinkAndRelay, ReasonMatches, ConsumerStands,
              BlameIsFair, Blaming, BeforeEnd
<1>4. (WireGrows /\ WireTerminated)'
  BY <1>1 DEF RelayInv, WireGrows, ConsumerStands, WireTerminated, BeforeEnd
<1> QED
  BY <1>2, <1>3, <1>4 DEF RelayInv

-----------------------------------------------------------------------------
(* The lifecycle relay and its client *)

LEMMA BodyStartsInv ==
    ASSUME RelayInv, BodyStarts
    PROVE  RelayInv'
<1> USE DEF BodyStarts, Ready, upstream, wire
<1>1. RelayTypeOK'
  BY DEF RelayInv, RelayTypeOK
<1>2. (OneRecord /\ LinkAndRelay /\ ReasonMatches /\ ConsumerStands /\ BlameIsFair)'
  BY DEF RelayInv, RelayTypeOK, OneRecord, LinkAndRelay, ReasonMatches, ConsumerStands,
         BlameIsFair, Blaming, BeforeEnd
<1>3. (WireGrows /\ WireTerminated)'
  BY DEF RelayInv, WireGrows, ConsumerStands, WireTerminated, BeforeEnd
<1> QED
  BY <1>1, <1>2, <1>3 DEF RelayInv

(* The last chunk was taken: the relay ends and its consumer with it.      *)
LEMMA LastTaken ==
    ASSUME RelayInv, outer = "parked", client,
           inner = "done" \/ (inner = "finish" /\ saw.done),
           reason' = reason, Closes, outer' = "ended", records' = Record(records),
           synth' = synth, UNCHANGED <<setup, left, link, held, saw, client>>
    PROVE  RelayInv'
<1>1. records' = 1
  BY DEF RelayInv, ConsumerStands, Record
<1>2. /\ inner' = "closed" /\ child' \in {"none", "running", "loose", "gone"}
      /\ outcome' \in {"disconnected", "completed", "cut", "stalled", "interrupted"}
      /\ outcome' = "stalled" => link = "silent"
      /\ outcome' = "interrupted" => link = "broken"
  BY ClosesEarly
<1>3. RelayTypeOK'
  BY <1>1, <1>2 DEF RelayInv, RelayTypeOK, Outcomes
<1>4. (OneRecord /\ LinkAndRelay /\ ReasonMatches /\ ConsumerStands /\ BlameIsFair)'
  BY <1>1, <1>2 DEF RelayInv, RelayTypeOK, OneRecord, LinkAndRelay, ReasonMatches,
                    ConsumerStands, BlameIsFair, Blaming, BeforeEnd
<1>5. saw.finish # synth.finish /\ saw.done # synth.done
  BY FieldTypes DEF RelayInv, WireGrows
<1>6. (WireGrows /\ WireTerminated)'
  BY <1>1, <1>2, <1>5 DEF WireGrows, WireTerminated, BeforeEnd
<1> QED
  BY <1>3, <1>4, <1>6 DEF RelayInv

LEMMA ClientTakesInv ==
    ASSUME RelayInv, ClientTakes
    PROVE  RelayInv'
<1>1. /\ outer = "parked" /\ client /\ RelayTypeOK
      /\ UNCHANGED <<setup, left, link, held, saw, client>>
  BY DEF ClientTakes, RelayInv
<1>2. CASE /\ inner = "parked" /\ inner' = "waiting" /\ outer' = "pulling"
           /\ UNCHANGED <<child, synth, reason, outcome, records>>
  <2>1. RelayTypeOK'
    BY <1>1, <1>2 DEF RelayTypeOK
  <2>2. (OneRecord /\ LinkAndRelay /\ ReasonMatches /\ ConsumerStands /\ BlameIsFair)'
    BY <1>1, <1>2 DEF RelayInv, OneRecord, LinkAndRelay, ReasonMatches, ConsumerStands,
                      BlameIsFair, Blaming, BeforeEnd
  <2>3. (WireGrows /\ WireTerminated)'
    BY <1>1, <1>2 DEF RelayInv, WireGrows, WireTerminated, BeforeEnd
  <2> QED
    BY <2>1, <2>2, <2>3 DEF RelayInv
<1>3. CASE /\ inner = "finish" /\ ~saw.done /\ inner' = "done"
           /\ synth' = [synth EXCEPT !.done = TRUE]
           /\ UNCHANGED <<child, reason, outcome, outer, records>>
  <2>1. synth' \in [finish: BOOLEAN, done: BOOLEAN]
    BY <1>1, <1>3 DEF RelayTypeOK
  <2>2. RelayTypeOK'
    BY <1>1, <1>3, <2>1 DEF RelayTypeOK
  <2>3. (OneRecord /\ LinkAndRelay /\ ReasonMatches /\ ConsumerStands /\ BlameIsFair)'
    BY <1>1, <1>3 DEF RelayInv, OneRecord, LinkAndRelay, ReasonMatches, ConsumerStands,
                      BlameIsFair, Blaming, BeforeEnd
  <2>4. synth'.done /\ synth'.finish = synth.finish
    BY <1>1, <1>3 DEF RelayTypeOK
  <2>5. (WireGrows /\ WireTerminated)'
    BY <1>1, <1>3, <2>4, FieldTypes DEF RelayInv, WireGrows, WireTerminated, BeforeEnd
  <2> QED
    BY <2>2, <2>3, <2>5 DEF RelayInv
<1>4. CASE /\ inner = "done" \/ (inner = "finish" /\ saw.done)
           /\ reason' = reason /\ Closes /\ outer' = "ended" /\ records' = Record(records)
           /\ UNCHANGED synth
  BY <1>1, <1>4, LastTaken
<1> QED
  BY <1>2, <1>3, <1>4 DEF ClientTakes

(* Once the client is gone nothing is promised about the wire any more;    *)
(* what is left is the record, the blame and who refers to whom.           *)
LEMMA GoneInv ==
    ASSUME RelayInv, client' = FALSE, RelayTypeOK',
           UNCHANGED <<link, saw, synth, setup, reason>>,
           \/ inner' = inner /\ outcome' = outcome
           \/ /\ inner' = "closed"
              /\ outcome' \in {"disconnected", "completed", "cut", "stalled", "interrupted"}
              /\ outcome' = "stalled" => link = "silent"
              /\ outcome' = "interrupted" => link = "broken"
              /\ inner # "none",
           outer' = outer \/ outer' \in {"orphan", "ended"},
           outer' = "pulling" => inner' = "waiting",
           inner' = "waiting" => outer' \in {"none", "pulling"},
           outer' = "none" => inner' = inner,
           held' = held \/ outer' \in {"orphan", "ended"},
           inner = "none" => outer' = outer,
           records' = records \/ (records' = 1 /\ outer' \in {"orphan", "ended"}),
           ~held => outer' \in {"orphan", "ended"}
    PROVE  RelayInv'
<1>1. (OneRecord /\ WireTerminated /\ WireGrows)'
  BY DEF RelayInv, OneRecord, WireTerminated, WireGrows, BeforeEnd
<1>2. LinkAndRelay'
  BY DEF RelayInv, LinkAndRelay
<1>3. (ReasonMatches /\ BlameIsFair)'
  BY DEF RelayInv, ReasonMatches, BlameIsFair, Blaming, BeforeEnd
<1>4. ConsumerStands'
  BY DEF RelayInv, ConsumerStands, RelayTypeOK
<1> QED
  BY <1>1, <1>2, <1>3, <1>4 DEF RelayInv

LEMMA HangUpInv ==
    ASSUME RelayInv, HangUp \/ ResponseAbandoned
    PROVE  RelayInv'
<1> USE DEF HangUp, ResponseAbandoned, upstream, wire, Ready
<1>1. RelayTypeOK'
  BY ZenonT(60) DEF RelayInv, RelayTypeOK
<1>2. client' = FALSE
  BY DEF RelayInv, RelayTypeOK
<1> QED
  BY <1>1, <1>2, GoneInv DEF RelayInv, RelayTypeOK, ConsumerStands

(* Either the chunks are closed or dropped, or they were closed already.   *)
ChunksLeft ==
    /\ reason' = reason /\ held' \in BOOLEAN
    /\ child' \in {"none", "running", "loose", "gone"}
    /\ \/ inner' = inner /\ outcome' = outcome
       \/ /\ inner' = "closed"
          /\ outcome' \in {"disconnected", "completed", "cut", "stalled", "interrupted"}
          /\ outcome' = "stalled" => link = "silent"
          /\ outcome' = "interrupted" => link = "broken"

LEMMA CloseChunksEffect ==
    ASSUME RelayInv, CloseChunks
    PROVE  ChunksLeft
BY ClosesEarly DEF CloseChunks, RelayInv, RelayTypeOK, ChunksLeft

LEMMA LeaveInv ==
    ASSUME RelayInv, ClientStalls \/ CollectOuter
    PROVE  RelayInv'
<1>1. ChunksLeft
  <2>1. CloseChunks
    BY DEF ClientStalls, CollectOuter
  <2> QED
    BY <2>1, CloseChunksEffect
<1>2. /\ client' = FALSE /\ outer \in {"parked", "orphan"} /\ outer' \in {"orphan", "ended"}
      /\ UNCHANGED <<setup, left, link, saw, synth>>
  BY DEF ClientStalls, CollectOuter, RelayInv, RelayTypeOK, ConsumerStands
<1>3. records' = records \/ records' = 1
  BY DEF ClientStalls, CollectOuter, Record
<1>4. RelayTypeOK'
  <2>1. /\ child' \in {"none", "running", "loose", "gone"} /\ held' \in BOOLEAN
        /\ reason' = reason
    BY <1>1, Zenon DEF ChunksLeft
  <2>2. /\ inner' \in {"none", "unstarted", "waiting", "parked", "finish", "done", "closed"}
        /\ outcome' \in Outcomes \cup {"unset"}
    BY <1>1 DEF ChunksLeft, RelayInv, RelayTypeOK, Outcomes
  <2>3. outer' \in {"none", "pulling", "parked", "orphan", "ended"}
    BY <1>2
  <2>4. client' \in BOOLEAN
    BY <1>2
  <2>5. records' \in 0..2
    BY <1>3 DEF RelayInv, RelayTypeOK
  <2> QED
    BY <1>2, <2>1, <2>2, <2>3, <2>4, <2>5 DEF RelayInv, RelayTypeOK
<1>5. inner # "none" /\ inner # "waiting"
  BY <1>2 DEF RelayInv, LinkAndRelay, ConsumerStands
<1> QED
  BY <1>1, <1>2, <1>3, <1>4, <1>5, GoneInv DEF ChunksLeft

LEMMA CancelInv ==
    ASSUME RelayInv, ResponseCancelled \/ CollectInner
    PROVE  RelayInv'
<1>1. /\ ~client /\ client' = client
      /\ UNCHANGED <<setup, left, link, held, saw, synth>>
  BY DEF ResponseCancelled, CollectInner, RelayInv, ConsumerStands
<1>2. CASE outer = "parked" /\ outer' = "orphan" /\ UNCHANGED <<child, inner, reason, outcome, records>>
  <2>1. RelayTypeOK'
    BY <1>1, <1>2 DEF RelayInv, RelayTypeOK
  <2> QED
    BY <1>1, <1>2, <2>1, GoneInv DEF RelayInv, RelayTypeOK, LinkAndRelay, ConsumerStands
<1>3. CASE /\ reason' = reason /\ Closes
           /\ \/ /\ outer = "pulling" /\ outer' = "ended" /\ records' = Record(records)
              \/ /\ ~held /\ inner # "closed" /\ UNCHANGED <<outer, records>>
  <2>1. /\ inner' = "closed" /\ child' \in {"none", "running", "loose", "gone"}
        /\ outcome' \in {"disconnected", "completed", "cut", "stalled", "interrupted"}
        /\ outcome' = "stalled" => link = "silent"
        /\ outcome' = "interrupted" => link = "broken"
    BY <1>3, ClosesEarly
  <2>2. outer' \in {"orphan", "ended"} /\ (records' = records \/ records' = 1)
    BY <1>3 DEF Record, RelayInv, ConsumerStands
  <2>3. inner # "none"
    BY <1>3 DEF RelayInv, LinkAndRelay, ConsumerStands
  <2>4. RelayTypeOK'
    BY <1>1, <1>3, <2>1, <2>2 DEF RelayInv, RelayTypeOK, Outcomes
  <2> QED
    BY <1>1, <1>3, <2>1, <2>2, <2>3, <2>4, GoneInv DEF RelayInv, RelayTypeOK
<1> QED
  BY <1>2, <1>3 DEF ResponseCancelled, CollectInner

-----------------------------------------------------------------------------

LEMMA RelayNextInv ==
    ASSUME RelayInv, [RelayNext]_relayVars
    PROVE  RelayInv'
<1>1. CASE UNCHANGED relayVars
  BY <1>1 DEF relayVars, RelayInv, RelayTypeOK, OneRecord, LinkAndRelay, ReasonMatches,
              WireGrows, ConsumerStands, WireTerminated, BlameIsFair, BeforeEnd
<1> QED
  BY <1>1, HeadersInv, ChunkInv, BodyEndInv, PrefetchInv, BodyStartsInv, ClientTakesInv,
     HangUpInv, LeaveInv, CancelInv DEF RelayNext

THEOREM RelayInvariant == RelaySpec => []RelayInv
<1>1. RelayInv /\ [RelayNext]_relayVars => RelayInv'
  BY RelayNextInv
<1> QED
  BY <1>1, RelayInitInv, PTL DEF RelaySpec

(* Every turn is well typed, and no end of a response is recorded twice or *)
(* not at all: neither the watchdog and the collector between them, nor a  *)
(* turn that came to its end.                                              *)
THEOREM RelayStaysSound == RelaySpec => []RelaySound
<1>1. RelayInv => RelaySound
  BY DEF RelayInv, RelaySound
<1> QED
  BY <1>1, RelayInvariant, PTL

(* A client that stays gets one terminal chunk and one [DONE], for every   *)
(* pattern of chunks and every way the upstream ends.                      *)
THEOREM WireEndsOnce == RelaySpec => []WireTerminated
<1>1. RelayInv => WireTerminated
  BY DEF RelayInv
<1> QED
  BY <1>1, RelayInvariant, PTL

(* No client that leaves, dawdles or is cut off by its watchdog costs the  *)
(* bucket a failure; a silence the relay waited out does.                  *)
THEOREM BlameStaysFair == RelaySpec => []BlameIsFair
<1>1. RelayInv => BlameIsFair
  BY DEF RelayInv
<1> QED
  BY <1>1, RelayInvariant, PTL

-----------------------------------------------------------------------------
(* Sums *)

(* Induction over a set of naturals, from the principle of the smallest    *)
(* element.                                                                *)
LEMMA Induction ==
  ASSUME NEW S, 0 \in S, \A n \in Nat : n \in S => n + 1 \in S
  PROVE  Nat \subseteq S
<1> DEFINE T == Nat \ S
           R == OpToRel(<, Nat)
<1>1. SUFFICES ASSUME T # {} PROVE FALSE
  OBVIOUS
<1>2. PICK x \in T : \A y \in T : ~ (<<y, x>> \in R)
  BY <1>1, WFMin, NatLessThanWellFounded, Zenon
<1>3. x \in Nat /\ x \notin S /\ x # 0
  OBVIOUS
<1>4. x - 1 \in Nat /\ x - 1 < x /\ (x - 1) + 1 = x
  BY <1>3, SMT
<1>5. <<x - 1, x>> \in R
  BY <1>3, <1>4, Zenon DEF OpToRel
<1>6. x - 1 \in S
  BY <1>2, <1>4, <1>5
<1> QED
  BY <1>3, <1>4, <1>6


(* The partial sums of k weights.                                          *)
Sums(f, w, k) ==
    /\ f \in [0..k -> Nat]
    /\ f[0] = 0
    /\ \A n \in 1..k : f[n] = f[n - 1] + w[n]

(* Weights have partial sums.                                              *)
LEMMA SumsExist ==
  ASSUME NEW k \in Nat, NEW w \in [1..k -> Nat]
  PROVE  \E f : Sums(f, w, k)
<1> DEFINE S == {m \in Nat : m <= k => \E f : Sums(f, w, m)}
<1>1. 0 \in S
  <2>1. Sums([n \in 0..0 |-> 0], w, 0)
    BY DEF Sums
  <2> QED
    BY <2>1
<1>2. \A m \in Nat : m \in S => m + 1 \in S
  <2> SUFFICES ASSUME NEW m \in Nat, m \in S, m + 1 <= k PROVE \E f : Sums(f, w, m + 1)
    OBVIOUS
  <2>1. PICK f : Sums(f, w, m)
    OBVIOUS
  <2> DEFINE g == [n \in 0..(m + 1) |-> IF n = m + 1 THEN f[m] + w[m + 1] ELSE f[n]]
  <2>2. f[m] \in Nat /\ w[m + 1] \in Nat
    BY <2>1 DEF Sums
  <2>3. g \in [0..(m + 1) -> Nat]
    BY <2>1, <2>2 DEF Sums
  <2>4. g[0] = 0
    BY <2>1 DEF Sums
  <2>5. ASSUME NEW n \in 1..(m + 1) PROVE g[n] = g[n - 1] + w[n]
    <3>1. CASE n = m + 1
      <4>1. g[n] = f[m] + w[m + 1] /\ g[n - 1] = f[m]
        BY <3>1
      <4> QED
        BY <3>1, <4>1
    <3>2. CASE n # m + 1
      <4>1. n \in 1..m /\ g[n] = f[n] /\ g[n - 1] = f[n - 1]
        BY <3>2
      <4>2. f[n] = f[n - 1] + w[n]
        BY <2>1, <4>1 DEF Sums
      <4> QED
        BY <4>1, <4>2
    <3> QED
      BY <3>1, <3>2
  <2>6. Sums(g, w, m + 1)
    BY <2>3, <2>4, <2>5 DEF Sums
  <2> QED
    BY <2>6
<1> HIDE DEF S
<1>3. k \in S
  BY <1>1, <1>2, Induction
<1> QED
  BY <1>3 DEF S

(* A sum is the last of the partial sums.                                  *)
LEMMA TotalIsLast ==
  ASSUME NEW k \in Nat, NEW w, NEW f, Sums(f, w, k)
  PROVE  Total(w, k) = f[k]
<1> DEFINE Def(g) == g = [n \in 0..k |-> IF n = 0 THEN 0 ELSE g[n - 1] + w[n]]
           total == CHOOSE g : Def(g)
           S == {m \in Nat : m <= k => total[m] = f[m]}
<1>1. Def(total)
  <2>1. f = [n \in 0..k |-> IF n = 0 THEN 0 ELSE f[n - 1] + w[n]]
    BY DEF Sums
  <2>2. Def(f)
    BY <2>1
  <2> HIDE DEF Def
  <2> QED
    BY <2>2, Zenon
<1>2. Total(w, k) = total[k]
  BY DEF Total
<1> HIDE DEF total
<1>3. total[0] = 0 /\ \A m \in 0..k : m # 0 => total[m] = total[m - 1] + w[m]
  BY <1>1
<1>4. 0 \in S
  BY <1>3 DEF Sums
<1>5. \A m \in Nat : m \in S => m + 1 \in S
  <2> SUFFICES ASSUME NEW m \in Nat, m \in S, m + 1 <= k PROVE total[m + 1] = f[m + 1]
    OBVIOUS
  <2>1. total[m + 1] = total[m] + w[m + 1] /\ total[m] = f[m]
    BY <1>3
  <2>2. f[m + 1] = f[m] + w[m + 1]
    BY DEF Sums
  <2> QED
    BY <2>1, <2>2
<1> HIDE DEF S
<1>6. k \in S
  BY <1>4, <1>5, Induction
<1> QED
  BY <1>2, <1>6 DEF S

LEMMA TotalNat ==
  ASSUME NEW k \in Nat, NEW w \in [1..k -> Nat]
  PROVE  Total(w, k) \in Nat
<1>1. PICK f : Sums(f, w, k)
  BY SumsExist
<1>2. Total(w, k) = f[k]
  BY <1>1, TotalIsLast
<1>3. f[k] \in Nat
  BY <1>1 DEF Sums
<1> QED
  BY <1>2, <1>3

(* One more weight of one more: the sum grows by one.                      *)
LEMMA TotalBump ==
  ASSUME NEW k \in Nat, NEW w \in [1..k -> Nat], NEW v \in [1..k -> Nat],
         NEW i \in 1..k, v[i] = w[i] + 1, \A j \in 1..k : j # i => v[j] = w[j]
  PROVE  Total(v, k) = Total(w, k) + 1
<1>1. PICK f : Sums(f, w, k)
  BY SumsExist
<1> DEFINE g == [n \in 0..k |-> IF n < i THEN f[n] ELSE f[n] + 1]
<1>2. g \in [0..k -> Nat] /\ g[0] = 0
  <2>1. f[0] = 0 /\ \A n \in 0..k : f[n] \in Nat
    BY <1>1 DEF Sums
  <2> QED
    BY <2>1
<1>3. ASSUME NEW n \in 1..k PROVE g[n] = g[n - 1] + v[n]
  <2>1. f[n] = f[n - 1] + w[n] /\ f[n - 1] \in Nat /\ w[n] \in Nat
    <3>1. n \in 0..k /\ n - 1 \in 0..k
      OBVIOUS
    <3>2. f[n] = f[n - 1] + w[n]
      BY <1>1 DEF Sums
    <3>3. f[n - 1] \in Nat
      BY <1>1, <3>1 DEF Sums
    <3> QED
      BY <3>2, <3>3
  <2>2. CASE n < i
    <3>1. g[n] = f[n] /\ g[n - 1] = f[n - 1]
      BY <2>2
    <3>2. v[n] = w[n]
      BY <2>2
    <3> HIDE DEF g
    <3> QED
      BY <2>1, <3>1, <3>2
  <2>3. CASE n = i
    <3>1. g[n] = f[n] + 1
      BY <2>3
    <3>2. g[n - 1] = f[n - 1]
      BY <2>3
    <3>3. v[n] = w[n] + 1
      BY <2>3
    <3> HIDE DEF g
    <3> QED
      BY <2>1, <3>1, <3>2, <3>3, SMTT(30)
  <2>4. CASE n > i
    <3>1. g[n] = f[n] + 1 /\ g[n - 1] = f[n - 1] + 1
      BY <2>4
    <3>2. v[n] = w[n]
      BY <2>4
    <3> HIDE DEF g
    <3> QED
      BY <2>1, <3>1, <3>2
  <2> QED
    BY <2>2, <2>3, <2>4
<1>4. Sums(g, v, k)
  BY <1>2, <1>3 DEF Sums
<1>5. Total(v, k) = g[k] /\ Total(w, k) = f[k]
  BY <1>1, <1>4, TotalIsLast
<1> QED
  BY <1>5

(* Weights that are followed by nothing but zeros.                         *)
LEMMA TotalPadded ==
  ASSUME NEW k \in Nat, NEW m \in Nat, k <= m,
         NEW w \in [1..k -> Nat], NEW v \in [1..m -> Nat],
         \A j \in 1..k : v[j] = w[j], \A j \in (k + 1)..m : v[j] = 0
  PROVE  Total(v, m) = Total(w, k)
<1>1. PICK f : Sums(f, w, k)
  BY SumsExist
<1> DEFINE g == [n \in 0..m |-> IF n <= k THEN f[n] ELSE f[k]]
<1>2. g \in [0..m -> Nat] /\ g[0] = 0
  <2>1. f[0] = 0 /\ \A n \in 0..k : f[n] \in Nat
    BY <1>1 DEF Sums
  <2> QED
    BY <2>1
<1>3. ASSUME NEW n \in 1..m PROVE g[n] = g[n - 1] + v[n]
  <2>1. CASE n <= k
    BY <1>1, <2>1 DEF Sums
  <2>2. CASE n > k
    <3>1. g[n] = f[k] /\ g[n - 1] = f[k] /\ f[k] \in Nat /\ v[n] = 0
      BY <1>1, <2>2 DEF Sums
    <3> QED
      BY <3>1
  <2> QED
    BY <2>1, <2>2
<1>4. Sums(g, v, m)
  BY <1>2, <1>3 DEF Sums
<1>5. Total(v, m) = g[m] /\ Total(w, k) = f[k]
  BY <1>1, <1>4, TotalIsLast
<1> QED
  BY <1>5

(* One weight more.                                                        *)
LEMMA TotalAppended ==
  ASSUME NEW k \in Nat, NEW w \in [1..k -> Nat], NEW v \in [1..(k + 1) -> Nat],
         \A j \in 1..k : v[j] = w[j]
  PROVE  Total(v, k + 1) = Total(w, k) + v[k + 1]
<1>1. PICK f : Sums(f, w, k)
  BY SumsExist
<1> DEFINE g == [n \in 0..(k + 1) |-> IF n <= k THEN f[n] ELSE f[k] + v[k + 1]]
<1>2. g \in [0..(k + 1) -> Nat] /\ g[0] = 0
  <2>1. f[0] = 0 /\ \A n \in 0..k : f[n] \in Nat
    BY <1>1 DEF Sums
  <2> QED
    BY <2>1
<1>3. ASSUME NEW n \in 1..(k + 1) PROVE g[n] = g[n - 1] + v[n]
  <2>1. CASE n = k + 1
    <3>1. g[n] = f[k] + v[k + 1] /\ g[n - 1] = f[k]
      BY <2>1
    <3> QED
      BY <2>1, <3>1
  <2>2. CASE n # k + 1
    <3>1. n \in 1..k /\ g[n] = f[n] /\ g[n - 1] = f[n - 1]
      BY <2>2
    <3>2. f[n] = f[n - 1] + w[n]
      BY <1>1, <3>1 DEF Sums
    <3> QED
      BY <3>1, <3>2
  <2> QED
    BY <2>1, <2>2
<1>4. Sums(g, v, k + 1)
  BY <1>2, <1>3 DEF Sums
<1>5. Total(v, k + 1) = g[k + 1] /\ Total(w, k) = f[k]
  BY <1>1, <1>4, TotalIsLast
<1> QED
  BY <1>5

-----------------------------------------------------------------------------
(* Blocks and their fragments *)

SlotsUpTo(n) == [known: BOOLEAN, name: 0..n, args: 0..n, pos: 0..n]
BlocksUpTo(n) ==
    [kind: Kinds, tool: Tools \cup {0}, name: 0..n, args: 0..n, closed: 0..1]

(* The same blocks, but for their closings.                                *)
SameContents(blocks, others) ==
    /\ Len(others) = Len(blocks)
    /\ \A i \in DOMAIN blocks :
          /\ others[i].kind = blocks[i].kind
          /\ others[i].tool = blocks[i].tool
          /\ others[i].args = blocks[i].args

(* The same blocks, but for their fragments.                               *)
SameStand(blocks, others) ==
    /\ Len(others) = Len(blocks) /\ DOMAIN others = DOMAIN blocks
    /\ \A j \in DOMAIN blocks :
          /\ others[j].kind = blocks[j].kind
          /\ others[j].tool = blocks[j].tool
          /\ others[j].closed = blocks[j].closed

Counts(block, kind, tool) == block.kind = kind /\ block.tool = tool

-----------------------------------------------------------------------------
(* What a change of the blocks does to their fragments *)

LEMMA WeightType ==
  ASSUME NEW n \in Nat, NEW blocks \in Seq(BlocksUpTo(n)), NEW kind, NEW tool
  PROVE  Weight(blocks, kind, tool) \in [1..Len(blocks) -> Nat]
<1>1. DOMAIN blocks = 1..Len(blocks)
  OBVIOUS
<1>2. ASSUME NEW i \in 1..Len(blocks) PROVE blocks[i].args \in Nat
  <2>1. blocks[i] \in BlocksUpTo(n)
    BY <1>2
  <2> QED
    BY <2>1 DEF BlocksUpTo
<1> QED
  BY <1>1, <1>2 DEF Weight

LEMMA FragmentsNat ==
  ASSUME NEW n \in Nat, NEW blocks \in Seq(BlocksUpTo(n)), NEW kind, NEW tool
  PROVE  Fragments(blocks, kind, tool) \in Nat
<1>1. Len(blocks) \in Nat
  OBVIOUS
<1> QED
  BY <1>1, WeightType, TotalNat DEF Fragments

(* Closing a block changes nothing.                                        *)
LEMMA FragmentsClosed ==
  ASSUME NEW n \in Nat, NEW blocks \in Seq(BlocksUpTo(n)), NEW others \in Seq(BlocksUpTo(n)),
         SameContents(blocks, others), NEW kind, NEW tool
  PROVE  Fragments(others, kind, tool) = Fragments(blocks, kind, tool)
<1>1. DOMAIN others = DOMAIN blocks
  BY DEF SameContents
<1>2. Weight(others, kind, tool) = Weight(blocks, kind, tool)
  BY <1>1 DEF Weight, SameContents
<1> QED
  BY <1>2 DEF Fragments, SameContents

(* A block more.                                                           *)
LEMMA FragmentsAppended ==
  ASSUME NEW n \in Nat, NEW blocks \in Seq(BlocksUpTo(n)), NEW block \in BlocksUpTo(n),
         NEW kind, NEW tool
  PROVE  Fragments(Append(blocks, block), kind, tool) =
            Fragments(blocks, kind, tool) + (IF Counts(block, kind, tool) THEN block.args ELSE 0)
<1> DEFINE k == Len(blocks)
           more == Append(blocks, block)
           w == Weight(blocks, kind, tool)
           v == Weight(more, kind, tool)
<1>1. k \in Nat /\ more \in Seq(BlocksUpTo(n)) /\ Len(more) = k + 1
      /\ DOMAIN more = 1..(k + 1) /\ DOMAIN blocks = 1..k
  OBVIOUS
<1>2. more[k + 1] = block /\ \A j \in 1..k : more[j] = blocks[j]
  OBVIOUS
<1>3. w \in [1..k -> Nat] /\ v \in [1..(k + 1) -> Nat]
  BY <1>1, WeightType
<1>4. \A j \in 1..k : v[j] = w[j]
  BY <1>1, <1>2 DEF Weight
<1>5. v[k + 1] = IF Counts(block, kind, tool) THEN block.args ELSE 0
  BY <1>1, <1>2 DEF Weight, Counts
<1>6. Total(v, k + 1) = Total(w, k) + v[k + 1]
  <2> HIDE DEF v, w
  <2> QED
    BY <1>1, <1>3, <1>4, TotalAppended
<1> QED
  BY <1>1, <1>5, <1>6 DEF Fragments

(* A fragment more for a block.                                            *)
LEMMA MoreArguments ==
  ASSUME NEW n \in Nat, NEW block \in BlocksUpTo(n)
  PROVE  LET more == [block EXCEPT !.args = @ + 1] IN
         /\ more \in BlocksUpTo(n + 1)
         /\ more.kind = block.kind /\ more.tool = block.tool /\ more.closed = block.closed
<1>1. block.args + 1 \in 0..(n + 1) /\ 0..n \subseteq 0..(n + 1)
  BY DEF BlocksUpTo
<1>2. block \in BlocksUpTo(n + 1)
  BY <1>1 DEF BlocksUpTo
<1> QED
  BY <1>1, <1>2 DEF BlocksUpTo

LEMMA ExtendedType ==
  ASSUME NEW n \in Nat, NEW blocks \in Seq(BlocksUpTo(n)), NEW i \in DOMAIN blocks
  PROVE  /\ Extended(blocks, i) \in Seq(BlocksUpTo(n + 1))
         /\ Len(Extended(blocks, i)) = Len(blocks)
         /\ DOMAIN Extended(blocks, i) = DOMAIN blocks
         /\ \A j \in DOMAIN blocks : j # i => Extended(blocks, i)[j] = blocks[j]
         /\ Extended(blocks, i)[i] = [blocks[i] EXCEPT !.args = @ + 1]
         /\ SameStand(blocks, Extended(blocks, i))
<1>1. blocks \in Seq(BlocksUpTo(n + 1))
  <2>1. BlocksUpTo(n) \subseteq BlocksUpTo(n + 1)
    BY DEF BlocksUpTo
  <2> QED
    BY <2>1
<1> DEFINE more == [blocks[i] EXCEPT !.args = @ + 1]
<1>2. /\ more \in BlocksUpTo(n + 1)
      /\ more.kind = blocks[i].kind /\ more.tool = blocks[i].tool
      /\ more.closed = blocks[i].closed
  <2>1. blocks[i] \in BlocksUpTo(n)
    OBVIOUS
  <2> QED
    BY <2>1, MoreArguments
<1>3. Extended(blocks, i) = [blocks EXCEPT ![i] = [blocks[i] EXCEPT !.args = @ + 1]]
  BY DEF Extended
<1> HIDE DEF more
<1>4. /\ Extended(blocks, i) \in Seq(BlocksUpTo(n + 1))
      /\ Len(Extended(blocks, i)) = Len(blocks)
      /\ DOMAIN Extended(blocks, i) = DOMAIN blocks
      /\ \A j \in DOMAIN blocks : j # i => Extended(blocks, i)[j] = blocks[j]
      /\ Extended(blocks, i)[i] = more
  BY <1>1, <1>2, <1>3 DEF more
<1>5. SameStand(blocks, Extended(blocks, i))
  BY <1>2, <1>4 DEF SameStand
<1> QED
  BY <1>4, <1>5 DEF more

Grows(blocks, others, block) ==
    \A kind, tool : Fragments(others, kind, tool) =
       Fragments(blocks, kind, tool) + (IF Counts(block, kind, tool) THEN 1 ELSE 0)

LEMMA FragmentsOneMore ==
  ASSUME NEW n \in Nat, NEW blocks \in Seq(BlocksUpTo(n)), NEW i \in DOMAIN blocks,
         NEW kind, NEW tool
  PROVE  Fragments(Extended(blocks, i), kind, tool) =
            Fragments(blocks, kind, tool) + (IF Counts(blocks[i], kind, tool) THEN 1 ELSE 0)
<1> DEFINE k == Len(blocks)
           more == Extended(blocks, i)
           w == Weight(blocks, kind, tool)
           v == Weight(more, kind, tool)
<1>1. k \in Nat /\ DOMAIN blocks = 1..k /\ n + 1 \in Nat /\ i \in 1..k
  OBVIOUS
<1>2. /\ more \in Seq(BlocksUpTo(n + 1)) /\ Len(more) = k /\ DOMAIN more = 1..k
      /\ \A j \in 1..k : j # i => more[j] = blocks[j]
      /\ more[i] = [blocks[i] EXCEPT !.args = @ + 1]
  BY <1>1, ExtendedType
<1>3. w \in [1..k -> Nat] /\ v \in [1..k -> Nat]
  <2> HIDE DEF more
  <2> QED
    BY <1>1, <1>2, WeightType
<1>4. \A j \in 1..k : j # i => v[j] = w[j]
  <2> HIDE DEF more
  <2> QED
    BY <1>1, <1>2 DEF Weight
<1>5. v[i] = w[i] + (IF Counts(blocks[i], kind, tool) THEN 1 ELSE 0)
  <2>1. blocks[i] \in BlocksUpTo(n)
    OBVIOUS
  <2>2. /\ more[i].kind = blocks[i].kind /\ more[i].tool = blocks[i].tool
        /\ more[i].args = blocks[i].args + 1 /\ blocks[i].args \in Nat
    <3> HIDE DEF more
    <3> QED
      BY <1>2, <2>1 DEF BlocksUpTo
  <2>3. w[i] = IF Counts(blocks[i], kind, tool) THEN blocks[i].args ELSE 0
    BY <1>1 DEF Weight, Counts
  <2> HIDE DEF more
  <2>4. v[i] = IF Counts(more[i], kind, tool) THEN more[i].args ELSE 0
    BY <1>1, <1>2 DEF Weight, Counts
  <2>5. Counts(more[i], kind, tool) <=> Counts(blocks[i], kind, tool)
    BY <2>2 DEF Counts
  <2> HIDE DEF v, w
  <2> QED
    BY <2>2, <2>3, <2>4, <2>5
<1>6. Fragments(more, kind, tool) = Total(v, k) /\ Fragments(blocks, kind, tool) = Total(w, k)
  <2> HIDE DEF more
  <2> QED
    BY <1>2 DEF Fragments
<1> HIDE DEF more, v, w
<1>7. CASE Counts(blocks[i], kind, tool)
  <2>1. Total(v, k) = Total(w, k) + 1
    BY <1>1, <1>3, <1>4, <1>5, <1>7, TotalBump
  <2> QED
    BY <1>6, <1>7, <2>1 DEF more
<1>8. CASE ~ Counts(blocks[i], kind, tool)
  <2>1. w[i] \in Nat
    BY <1>1, <1>3
  <2>2. v = w
    BY <1>3, <1>4, <1>5, <1>8, <2>1
  <2>3. Total(w, k) \in Nat
    BY <1>1, <1>3, TotalNat
  <2> QED
    BY <1>6, <1>8, <2>2, <2>3 DEF more
<1> QED
  BY <1>7, <1>8

LEMMA FragmentsExtended ==
  ASSUME NEW n \in Nat, NEW blocks \in Seq(BlocksUpTo(n)), NEW i \in DOMAIN blocks
  PROVE  Grows(blocks, Extended(blocks, i), blocks[i])
<1>1. ASSUME NEW kind, NEW tool
      PROVE  Fragments(Extended(blocks, i), kind, tool) =
                Fragments(blocks, kind, tool) + (IF Counts(blocks[i], kind, tool) THEN 1 ELSE 0)
  BY FragmentsOneMore
<1> QED
  BY <1>1 DEF Grows

-----------------------------------------------------------------------------
(* The calls without a block *)

Lates(f, m) ==
    /\ f \in [0..m -> Seq(Tools)]
    /\ f[0] = <<>>
    /\ \A n \in 1..m : f[n] = WithUnstarted(f[n - 1], order[n])

LEMMA LatesExist ==
  ASSUME order \in Seq(Tools)
  PROVE  \E f : Lates(f, Len(order))
<1> DEFINE k == Len(order)
           S == {m \in Nat : m <= k => \E f : Lates(f, m)}
<1>1. k \in Nat /\ \A i \in 1..k : order[i] \in Tools
  OBVIOUS
<1>2. 0 \in S
  <2>1. Lates([n \in 0..0 |-> <<>>], 0)
    BY DEF Lates
  <2> QED
    BY <2>1
<1>3. \A m \in Nat : m \in S => m + 1 \in S
  <2> SUFFICES ASSUME NEW m \in Nat, m \in S, m + 1 <= k PROVE \E f : Lates(f, m + 1)
    OBVIOUS
  <2>1. PICK f : Lates(f, m)
    OBVIOUS
  <2> DEFINE next == WithUnstarted(f[m], order[m + 1])
             g == [n \in 0..(m + 1) |-> IF n = m + 1 THEN next ELSE f[n]]
  <2>2. f[m] \in Seq(Tools) /\ order[m + 1] \in Tools
    BY <1>1, <2>1 DEF Lates
  <2>3. next \in Seq(Tools)
    BY <2>2 DEF WithUnstarted
  <2>4. g[m + 1] = next
    OBVIOUS
  <2> HIDE DEF next
  <2>5. g \in [0..(m + 1) -> Seq(Tools)] /\ g[0] = <<>> /\ \A n \in 0..m : g[n] = f[n]
    <3>1. \A n \in 0..m : f[n] \in Seq(Tools) /\ n # m + 1 /\ n \in 0..(m + 1)
      BY <2>1 DEF Lates
    <3>2. f[0] = <<>> /\ 0 \in 0..m
      BY <2>1 DEF Lates
    <3> QED
      BY <2>3, <3>1, <3>2
  <2> HIDE DEF g
  <2>6. ASSUME NEW n \in 1..(m + 1)
        PROVE  g[n] = WithUnstarted(g[n - 1], order[n])
    <3>1. CASE n = m + 1
      BY <2>4, <2>5, <3>1 DEF next
    <3>2. CASE n # m + 1
      <4>1. n \in 1..m /\ n - 1 \in 0..m
        BY <3>2
      <4> QED
        BY <2>1, <2>5, <4>1 DEF Lates
    <3> QED
      BY <3>1, <3>2
  <2>7. Lates(g, m + 1)
    BY <2>5, <2>6 DEF Lates
  <2> QED
    BY <2>7
<1> HIDE DEF S
<1>4. k \in S
  BY <1>1, <1>2, <1>3, Induction
<1> QED
  BY <1>1, <1>4 DEF S

(* They are the tools of the order without a block, each once.             *)
LEMMA UnstartedTools ==
  ASSUME order \in Seq(Tools),
         \A i, j \in DOMAIN order : order[i] = order[j] => i = j
  PROVE  /\ Unstarted \in Seq(Tools)
         /\ \A i \in DOMAIN Unstarted :
               /\ slots[Unstarted[i]].pos = 0
               /\ \E j \in DOMAIN order : order[j] = Unstarted[i]
         /\ \A j \in DOMAIN order :
               slots[order[j]].pos = 0 => \E i \in DOMAIN Unstarted : Unstarted[i] = order[j]
         /\ \A i, j \in DOMAIN Unstarted : Unstarted[i] = Unstarted[j] => i = j
<1> DEFINE k == Len(order)
           Def(g) == g = [n \in 0..k |->
                            IF n = 0 THEN <<>> ELSE WithUnstarted(g[n - 1], order[n])]
           late == CHOOSE g : Def(g)
<1>1. Def(late)
  <2>1. PICK f : Lates(f, k)
    BY LatesExist
  <2>2. f = [n \in 0..k |-> IF n = 0 THEN <<>> ELSE WithUnstarted(f[n - 1], order[n])]
    BY <2>1 DEF Lates
  <2>3. Def(f)
    BY <2>2
  <2> HIDE DEF Def
  <2> QED
    BY <2>3, Zenon
<1>2. Unstarted = late[k]
  BY DEF Unstarted
<1> HIDE DEF late
<1>3. k \in Nat /\ DOMAIN order = 1..k /\ \A i \in 1..k : order[i] \in Tools
  OBVIOUS
<1>4. late[0] = <<>>
      /\ \A m \in 1..k : late[m] = WithUnstarted(late[m - 1], order[m])
  BY <1>1, <1>3
<1> HIDE DEF Def
<1> DEFINE Good(s, m) ==
              /\ s \in Seq(Tools)
              /\ \A i \in 1..Len(s) : \E j \in 1..m : order[j] = s[i] /\ slots[s[i]].pos = 0
              /\ \A j \in 1..m : slots[order[j]].pos = 0 => \E i \in 1..Len(s) : s[i] = order[j]
              /\ \A i, j \in 1..Len(s) : s[i] = s[j] => i = j
           S == {m \in Nat : m <= k => Good(late[m], m)}
<1>5. 0 \in S
  <2>1. Good(<<>>, 0)
    OBVIOUS
  <2> HIDE DEF Good
  <2> QED
    BY <1>4, <2>1
<1>6. \A m \in Nat : m \in S => m + 1 \in S
  <2> HIDE DEF Good
  <2> SUFFICES ASSUME NEW m \in Nat, m \in S, m + 1 <= k PROVE Good(late[m + 1], m + 1)
    OBVIOUS
  <2> DEFINE s == late[m]
             r == late[m + 1]
             t == order[m + 1]
  <2>1. Good(s, m) /\ t \in Tools
    BY <1>3
  <2> USE DEF Good
  <2>2. r = IF slots[t].pos = 0 THEN Append(s, t) ELSE s
    <3>1. m + 1 \in 1..k /\ (m + 1) - 1 = m
      OBVIOUS
    <3> QED
      BY <1>4, <3>1 DEF WithUnstarted
  <2> HIDE DEF r, s
  <2>3. CASE slots[t].pos # 0
    <3>1. r = s
      BY <2>2, <2>3
    <3>2. \A j \in 1..(m + 1) : slots[order[j]].pos = 0 => j \in 1..m
      BY <2>3
    <3>3. \A j \in 1..m : j \in 1..(m + 1)
      OBVIOUS
    <3>4. Good(r, m + 1)
      BY <2>1, <3>1, <3>2, <3>3
    <3> QED
      BY <3>4 DEF r
  <2>4. CASE slots[t].pos = 0
    <3>1. /\ r \in Seq(Tools) /\ Len(r) = Len(s) + 1 /\ r[Len(s) + 1] = t
          /\ \A i \in 1..Len(s) : r[i] = s[i]
          /\ Len(s) \in Nat
      BY <2>1, <2>2, <2>4
    <3>2. \A i \in 1..Len(s) : s[i] # t
      <4> SUFFICES ASSUME NEW i \in 1..Len(s), s[i] = t PROVE FALSE
        OBVIOUS
      <4>1. PICK j \in 1..m : order[j] = t
        BY <2>1
      <4>2. j \in 1..k /\ m + 1 \in 1..k /\ j # m + 1
        OBVIOUS
      <4> QED
        BY <1>3, <4>1, <4>2
    <3>3. ASSUME NEW i \in 1..Len(r)
          PROVE  \E j \in 1..(m + 1) : order[j] = r[i] /\ slots[r[i]].pos = 0
      <4>1. CASE i = Len(s) + 1
        <5>1. m + 1 \in 1..(m + 1) /\ order[m + 1] = r[i] /\ slots[r[i]].pos = 0
          BY <2>4, <3>1, <4>1
        <5> QED
          BY <5>1
      <4>2. CASE i # Len(s) + 1
        <5>1. i \in 1..Len(s) /\ r[i] = s[i]
          BY <3>1, <4>2
        <5>2. PICK j \in 1..m : order[j] = s[i] /\ slots[s[i]].pos = 0
          BY <2>1, <5>1
        <5>3. j \in 1..(m + 1)
          OBVIOUS
        <5> QED
          BY <5>1, <5>2, <5>3
      <4> QED
        BY <4>1, <4>2
    <3>4. ASSUME NEW j \in 1..(m + 1), slots[order[j]].pos = 0
          PROVE  \E i \in 1..Len(r) : r[i] = order[j]
      <4>1. CASE j = m + 1
        <5>1. Len(s) + 1 \in 1..Len(r) /\ r[Len(s) + 1] = order[j]
          BY <3>1, <4>1
        <5> QED
          BY <5>1
      <4>2. CASE j # m + 1
        <5>1. j \in 1..m
          BY <4>2
        <5>2. PICK i \in 1..Len(s) : s[i] = order[j]
          BY <2>1, <3>4, <5>1
        <5>3. i \in 1..Len(r) /\ r[i] = order[j]
          BY <3>1, <5>2
        <5> QED
          BY <5>3
      <4> QED
        BY <4>1, <4>2
    <3>5. ASSUME NEW i \in 1..Len(r), NEW j \in 1..Len(r), r[i] = r[j] PROVE i = j
      <4>1. i = Len(s) + 1 \/ (i \in 1..Len(s) /\ r[i] = s[i])
        BY <3>1
      <4>2. j = Len(s) + 1 \/ (j \in 1..Len(s) /\ r[j] = s[j])
        BY <3>1
      <4> QED
        BY <2>1, <3>1, <3>2, <3>5, <4>1, <4>2
    <3>6. Good(r, m + 1)
      BY <3>1, <3>3, <3>4, <3>5
    <3> QED
      BY <3>6 DEF r
  <2> QED
    BY <2>3, <2>4
<1> HIDE DEF S
<1>7. k \in S
  BY <1>3, <1>5, <1>6, Induction
<1>8. Good(late[k], k)
  <2> HIDE DEF Good
  <2> QED
    BY <1>3, <1>7 DEF S
<1>9. DOMAIN Unstarted = 1..Len(Unstarted)
  BY <1>2, <1>8
<1> QED
  BY <1>2, <1>3, <1>8, <1>9

-----------------------------------------------------------------------------
(* The converter: the inductive invariant *)

(* The two faults that are known take a call that begins without a name,   *)
(* and /v1/responses.                                                      *)
Sensible == proto = "anthropic" \/ ~Nameless

Fits(n) ==
    /\ slots \in [Tools -> SlotsUpTo(n)]
    /\ shown \in Seq(BlocksUpTo(n))
    /\ order \in Seq(Tools)
    /\ sent \in [text: 0..n, thinking: 0..n]
    /\ open \in Kinds \cup {"none"}

Typed(n) == Fits(n) /\ Len(shown) <= n

(* A call knows its block and a block its call.                            *)
Placed ==
    /\ \A t \in Tools : slots[t].pos # 0 =>
          /\ slots[t].pos \in DOMAIN shown
          /\ shown[slots[t].pos].kind = "tool"
          /\ shown[slots[t].pos].tool = t
    /\ \A i \in DOMAIN shown :
          IF shown[i].kind = "tool"
          THEN shown[i].tool \in Tools /\ slots[shown[i].tool].pos = i
          ELSE shown[i].tool = 0

(* A call is in the order once, has a block only when it is, and arguments *)
(* only when it has a block; /v1/responses shows it as soon as it is known.*)
Ordered ==
    /\ \A i, j \in DOMAIN order : order[i] = order[j] => i = j
    /\ \A t \in Tools :
          /\ slots[t].pos # 0 => \E i \in DOMAIN order : order[i] = t
          /\ slots[t].pos = 0 => slots[t].args = 0
          /\ proto = "responses" => (slots[t].known <=> slots[t].pos # 0)
    /\ proto = "responses" => \A i \in DOMAIN order : slots[order[i]].pos # 0

(* What is shown amounts to what was sent.                                 *)
AddedUp ==
    /\ Fragments(shown, "text", 0) = sent.text
    /\ proto = "anthropic" => Fragments(shown, "thinking", 0) = sent.thinking
    /\ \A t \in Tools : Fragments(shown, "tool", t) = slots[t].args

(* The open block is the last one, and of the kind the converter believes; *)
(* the items of /v1/responses are all open, one message among them.        *)
OpenIsLast ==
    /\ \A i \in DOMAIN shown : shown[i].closed = 0 <=> i = Last /\ open # "none"
    /\ open # "none" => Last # 0 /\ shown[Last].kind = open

ItemsOpen ==
    /\ \A i \in DOMAIN shown : shown[i].closed = 0 /\ shown[i].kind # "thinking"
    /\ open \in {"none", "text"}
    /\ \A i, j \in MessageAt : i = j
    /\ open = "text" <=> MessageAt # {}

Streaming ==
    /\ Typed(count)
    /\ Placed
    /\ Ordered
    /\ AddedUp
    /\ IF proto = "anthropic" THEN OpenIsLast ELSE ItemsOpen

Unanswered ==
    /\ slots = [t \in Tools |-> NewSlot]
    /\ order = <<>>
    /\ open = "none"
    /\ shown = <<>>
    /\ sent = [text |-> 0, thinking |-> 0]

TurnBase ==
    /\ proto \in {"responses", "anthropic"}
    /\ phase \in {"request", "stream", "done"}
    /\ count \in 0..(IF phase = "request" THEN MaxItems ELSE MaxDeltas)
    /\ messages \in Seq(Roles)
    /\ finish \in {"none", "stop", "length", "tool_calls"}

TurnInvariant ==
    /\ TurnBase
    /\ phase = "request" => Unanswered
    /\ Sensible /\ phase = "stream" => Streaming
    /\ Sensible /\ phase = "done" => Fits(MaxDeltas) /\ BlocksClosed /\ NothingLost

-----------------------------------------------------------------------------
(* What the converters do to the blocks, the slots and the order *)

LEMMA BoundsGrow ==
  ASSUME NEW n \in Nat
  PROVE  /\ BlocksUpTo(n) \subseteq BlocksUpTo(n + 1)
         /\ SlotsUpTo(n) \subseteq SlotsUpTo(n + 1)
         /\ 0..n \subseteq 0..(n + 1)
         /\ \A m \in 0..n : m + 1 \in 0..(n + 1)
  BY DEF BlocksUpTo, SlotsUpTo

LEMMA ClosedBlock ==
  ASSUME NEW n \in Nat, NEW block \in BlocksUpTo(n)
  PROVE  LET shut == [block EXCEPT !.closed = 1] IN
         /\ shut \in BlocksUpTo(n) /\ shut.closed = 1
         /\ shut.kind = block.kind /\ shut.tool = block.tool /\ shut.args = block.args
<1>1. 1 \in 0..1
  OBVIOUS
<1> QED
  BY <1>1 DEF BlocksUpTo

LEMMA CloseOpenFacts ==
  ASSUME NEW n \in Nat, shown \in Seq(BlocksUpTo(n)), OpenIsLast
  PROVE  /\ CloseOpen \in Seq(BlocksUpTo(n))
         /\ SameContents(shown, CloseOpen)
         /\ \A i \in DOMAIN shown : CloseOpen[i].closed = 1
<1>1. \A i \in DOMAIN shown : shown[i] \in BlocksUpTo(n) /\ shown[i].closed \in 0..1
  <2>1. \A i \in DOMAIN shown : shown[i] \in BlocksUpTo(n)
    OBVIOUS
  <2> QED
    BY <2>1 DEF BlocksUpTo
<1>2. CASE open = "none"
  <2>1. CloseOpen = shown
    BY <1>2 DEF CloseOpen
  <2>2. \A i \in DOMAIN shown : shown[i].closed = 1
    BY <1>1, <1>2 DEF OpenIsLast
  <2> QED
    BY <2>1, <2>2 DEF SameContents
<1>3. CASE open # "none"
  <2> DEFINE block == [shown[Last] EXCEPT !.closed = 1]
  <2>1. Last \in DOMAIN shown /\ shown[Last].closed = 0 /\ Last = Len(shown)
    <3>1. Len(shown) \in Nat /\ DOMAIN shown = 1..Len(shown)
      OBVIOUS
    <3> QED
      BY <1>3, <3>1 DEF OpenIsLast, Last
  <2>2. CloseOpen = [shown EXCEPT ![Last] = block]
    BY <1>3, <2>1 DEF CloseOpen
  <2>3. /\ block \in BlocksUpTo(n) /\ block.closed = 1
        /\ block.kind = shown[Last].kind /\ block.tool = shown[Last].tool
        /\ block.args = shown[Last].args
    <3>1. shown[Last] \in BlocksUpTo(n)
      BY <1>1, <2>1
    <3> QED
      BY <3>1, ClosedBlock
  <2> HIDE DEF block
  <2>4. CloseOpen \in Seq(BlocksUpTo(n)) /\ Len(CloseOpen) = Len(shown)
        /\ CloseOpen[Last] = block /\ \A i \in DOMAIN shown : i # Last => CloseOpen[i] = shown[i]
    BY <2>1, <2>2, <2>3
  <2>5. SameContents(shown, CloseOpen)
    BY <2>3, <2>4 DEF SameContents
  <2>6. \A i \in DOMAIN shown : i # Last => shown[i].closed = 1
    BY <1>1 DEF OpenIsLast
  <2> QED
    BY <2>3, <2>4, <2>5, <2>6
<1> QED
  BY <1>2, <1>3

(* A block is shown after the others, of which one may have been closed.   *)
LEMMA AppendedFacts ==
  ASSUME NEW n \in Nat, NEW blocks \in Seq(BlocksUpTo(n)), NEW others \in Seq(BlocksUpTo(n)),
         SameContents(blocks, others), NEW block \in BlocksUpTo(n + 1)
  PROVE  LET more == Append(others, block) IN
         /\ more \in Seq(BlocksUpTo(n + 1))
         /\ Len(more) = Len(blocks) + 1
         /\ DOMAIN blocks = 1..Len(blocks) /\ DOMAIN more = 1..(Len(blocks) + 1)
         /\ more[Len(blocks) + 1] = block
         /\ \A i \in DOMAIN blocks :
               more[i] = others[i] /\ more[i].kind = blocks[i].kind /\ more[i].tool = blocks[i].tool
         /\ \A kind, tool : Fragments(more, kind, tool) =
               Fragments(blocks, kind, tool)
               + (IF Counts(block, kind, tool) THEN block.args ELSE 0)
<1> DEFINE more == Append(others, block)
<1>1. /\ others \in Seq(BlocksUpTo(n + 1)) /\ blocks \in Seq(BlocksUpTo(n + 1))
      /\ n + 1 \in Nat
  BY BoundsGrow
<1>2. /\ Len(others) = Len(blocks) /\ Len(blocks) \in Nat
      /\ DOMAIN blocks = 1..Len(blocks) /\ DOMAIN others = 1..Len(blocks)
  BY DEF SameContents
<1>3. /\ more \in Seq(BlocksUpTo(n + 1)) /\ Len(more) = Len(blocks) + 1
      /\ DOMAIN more = 1..(Len(blocks) + 1)
      /\ more[Len(blocks) + 1] = block
      /\ \A i \in 1..Len(blocks) : more[i] = others[i]
  BY <1>1, <1>2
<1>4. \A i \in DOMAIN blocks : others[i].kind = blocks[i].kind /\ others[i].tool = blocks[i].tool
  BY DEF SameContents
<1>5. ASSUME NEW kind, NEW tool
      PROVE  Fragments(more, kind, tool) = Fragments(blocks, kind, tool)
                + (IF Counts(block, kind, tool) THEN block.args ELSE 0)
  <2>1. Fragments(more, kind, tool) = Fragments(others, kind, tool)
           + (IF Counts(block, kind, tool) THEN block.args ELSE 0)
    BY <1>1, FragmentsAppended
  <2>2. Fragments(others, kind, tool) = Fragments(blocks, kind, tool)
    BY FragmentsClosed
  <2> QED
    BY <2>1, <2>2
<1> HIDE DEF more
<1>6. \A kind, tool : Fragments(more, kind, tool) = Fragments(blocks, kind, tool)
         + (IF Counts(block, kind, tool) THEN block.args ELSE 0)
  BY <1>5
<1> QED
  BY <1>2, <1>3, <1>4, <1>6 DEF more

LEMMA SeenFacts ==
  ASSUME NEW t \in Tools, order \in Seq(Tools), Seen(t),
         \A i, j \in DOMAIN order : order[i] = order[j] => i = j
  PROVE  /\ order' \in Seq(Tools)
         /\ \A i, j \in DOMAIN order' : order'[i] = order'[j] => i = j
         /\ \E i \in DOMAIN order' : order'[i] = t
         /\ \A u \in Tools : (\E i \in DOMAIN order : order[i] = u)
               => \E i \in DOMAIN order' : order'[i] = u
         /\ \A i \in DOMAIN order' :
               order'[i] = t \/ \E j \in DOMAIN order : order[j] = order'[i]
<1>1. CASE \E i \in DOMAIN order : order[i] = t
  <2>1. order' = order
    BY <1>1 DEF Seen
  <2> QED
    BY <1>1, <2>1
<1>2. CASE ~ \E i \in DOMAIN order : order[i] = t
  <2> DEFINE k == Len(order)
  <2>1. order' = Append(order, t) /\ k \in Nat /\ DOMAIN order = 1..k
    BY <1>2 DEF Seen
  <2>2. /\ order' \in Seq(Tools) /\ DOMAIN order' = 1..(k + 1) /\ order'[k + 1] = t
        /\ \A i \in 1..k : order'[i] = order[i]
    BY <2>1
  <2>3. k + 1 \in 1..(k + 1) /\ 1..k \subseteq 1..(k + 1)
    BY <2>1
  <2> HIDE DEF k
  <2>4. ASSUME NEW i \in 1..(k + 1), NEW j \in 1..(k + 1), order'[i] = order'[j] PROVE i = j
    <3>1. (i = k + 1 \/ i \in 1..k) /\ (j = k + 1 \/ j \in 1..k)
      BY <2>1
    <3> QED
      BY <1>2, <2>1, <2>2, <2>4, <3>1
  <2>5. \A i \in 1..(k + 1) : i = k + 1 \/ i \in 1..k
    BY <2>1
  <2> QED
    BY <2>1, <2>2, <2>3, <2>4, <2>5
<1> QED
  BY <1>1, <1>2

(* A call that gets no block keeps its place, and one block more is either *)
(* text or the block of a call that had none.                              *)
LEMMA PlacedKept ==
  ASSUME Placed, DOMAIN shown' = DOMAIN shown,
         \A i \in DOMAIN shown : shown'[i].kind = shown[i].kind /\ shown'[i].tool = shown[i].tool,
         \A u \in Tools : slots'[u].pos = slots[u].pos
  PROVE  Placed'
  BY DEF Placed

LEMMA PlacedMore ==
  ASSUME Placed, Last \in Nat, DOMAIN shown = 1..Last, DOMAIN shown' = 1..(Last + 1),
         \A i \in DOMAIN shown : shown'[i].kind = shown[i].kind /\ shown'[i].tool = shown[i].tool,
         \/ /\ shown'[Last + 1].kind # "tool" /\ shown'[Last + 1].tool = 0
            /\ \A u \in Tools : slots'[u].pos = slots[u].pos
         \/ \E t \in Tools :
               /\ shown'[Last + 1].kind = "tool" /\ shown'[Last + 1].tool = t
               /\ slots[t].pos = 0 /\ slots'[t].pos = Last + 1
               /\ \A u \in Tools : u # t => slots'[u].pos = slots[u].pos
  PROVE  Placed'
<1> DEFINE l == Last + 1
<1>0. l \in 1..l /\ 1..Last \subseteq 1..l /\ l \notin 1..Last /\ l # 0
      /\ 0 \notin 1..Last /\ \A i \in 1..l : i = l \/ i \in 1..Last
  OBVIOUS
<1> HIDE DEF l
<1>1. CASE /\ shown'[Last + 1].kind # "tool" /\ shown'[Last + 1].tool = 0
           /\ \A u \in Tools : slots'[u].pos = slots[u].pos
  BY <1>0, <1>1 DEF Placed, l
<1>2. ASSUME NEW t \in Tools,
             shown'[Last + 1].kind = "tool" /\ shown'[Last + 1].tool = t,
             slots[t].pos = 0 /\ slots'[t].pos = Last + 1,
             \A u \in Tools : u # t => slots'[u].pos = slots[u].pos
      PROVE  Placed'
  <2>1. ASSUME NEW u \in Tools, slots'[u].pos # 0
        PROVE  /\ slots'[u].pos \in DOMAIN shown'
               /\ shown'[slots'[u].pos].kind = "tool"
               /\ shown'[slots'[u].pos].tool = u
    <3>1. CASE u = t
      BY <1>0, <1>2, <3>1 DEF l
    <3>2. CASE u # t
      BY <1>0, <1>2, <2>1, <3>2 DEF Placed, l
    <3> QED
      BY <3>1, <3>2
  <2>2. ASSUME NEW i \in DOMAIN shown'
        PROVE  IF shown'[i].kind = "tool"
               THEN shown'[i].tool \in Tools /\ slots'[shown'[i].tool].pos = i
               ELSE shown'[i].tool = 0
    <3>1. CASE i = Last + 1
      BY <1>2, <3>1
    <3>2. CASE i # Last + 1
      <4>1. i \in DOMAIN shown /\ i # 0
        BY <1>0, <3>2 DEF l
      <4>2. shown[i].kind = "tool" => shown[i].tool # t
        BY <1>2, <4>1 DEF Placed
      <4> QED
        BY <1>2, <4>1, <4>2 DEF Placed
    <3> QED
      BY <3>1, <3>2
  <2> QED
    BY <2>1, <2>2 DEF Placed
<1> QED
  BY <1>1, <1>2

-----------------------------------------------------------------------------
(* One delta of /v1/messages *)

(* A fragment of reasoning or content.                                     *)
LEMMA BlockDeltaKeeps ==
  ASSUME count \in Nat, proto = "anthropic", proto' = proto, count' = count + 1, Streaming,
         NEW kind \in {"text", "thinking"}, BlockDelta(kind),
         sent' \in [text: 0..(count + 1), thinking: 0..(count + 1)],
         sent'.text = sent.text + (IF kind = "text" THEN 1 ELSE 0),
         sent'.thinking = sent.thinking + (IF kind = "thinking" THEN 1 ELSE 0)
  PROVE  Streaming'
<1> PICK n \in Nat : n = count
  OBVIOUS
<1>1. /\ shown \in Seq(BlocksUpTo(n)) /\ Len(shown) <= n /\ Last = Len(shown) /\ Last \in Nat
      /\ DOMAIN shown = 1..Last
      /\ slots \in [Tools -> SlotsUpTo(n)] /\ order \in Seq(Tools)
      /\ sent.text \in Nat /\ sent.thinking \in Nat
  <2>1. shown \in Seq(BlocksUpTo(n)) /\ sent \in [text: 0..n, thinking: 0..n]
    BY DEF Streaming, Typed, Fits
  <2>2. Len(shown) \in Nat /\ DOMAIN shown = 1..Len(shown)
    BY <2>1
  <2> QED
    BY <2>1, <2>2 DEF Streaming, Typed, Fits, Last
<1>2. slots' = slots /\ order' = order /\ open' = kind
  BY DEF BlockDelta
<1>3. slots' \in [Tools -> SlotsUpTo(n + 1)]
  BY <1>1, <1>2, BoundsGrow
<1>4. Placed /\ Ordered /\ AddedUp /\ OpenIsLast
  BY DEF Streaming
<1>5. Ordered'
  BY <1>2, <1>4 DEF Ordered
<1>6. kind \in Kinds /\ kind # "tool" /\ kind # "none"
  BY DEF Kinds
<1>7. CASE open = kind
  <2>1. shown' = Extended(shown, Last)
    BY <1>7 DEF BlockDelta
  <2>2. Last \in DOMAIN shown /\ shown[Last].kind = kind /\ Last # 0
    BY <1>1, <1>4, <1>6, <1>7 DEF OpenIsLast
  <2>3. shown' \in Seq(BlocksUpTo(n + 1)) /\ SameStand(shown, shown')
    BY <1>1, <2>1, <2>2, ExtendedType
  <2>4. /\ Len(shown') = Len(shown) /\ DOMAIN shown' = DOMAIN shown
        /\ \A j \in DOMAIN shown : /\ shown'[j].kind = shown[j].kind
                                   /\ shown'[j].tool = shown[j].tool
                                   /\ shown'[j].closed = shown[j].closed
    BY <2>3 DEF SameStand
  <2>5. Placed'
    BY <1>2, <1>4, <2>4, PlacedKept
  <2>6. shown[Last].tool = 0
    BY <1>4, <1>6, <2>2 DEF Placed
  <2>7. Grows(shown, shown', shown[Last])
    BY <1>1, <2>1, <2>2, FragmentsExtended
  <2>8. \A k, t : Fragments(shown, k, t) \in Nat
    BY <1>1, FragmentsNat
  <2>9. AddedUp'
    <3>1. ASSUME NEW k \in Kinds, k # "tool"
          PROVE  Fragments(shown', k, 0) = Fragments(shown, k, 0) + (IF k = kind THEN 1 ELSE 0)
      BY <2>2, <2>6, <2>7 DEF Counts, Grows
    <3>2. ASSUME NEW t \in Tools PROVE Fragments(shown', "tool", t) = Fragments(shown, "tool", t)
      BY <1>6, <2>2, <2>7, <2>8 DEF Counts, Grows
    <3>3. Fragments(shown', "text", 0) = sent'.text
      BY <1>4, <3>1 DEF AddedUp, Kinds
    <3>4. Fragments(shown', "thinking", 0) = sent'.thinking
      BY <1>4, <3>1 DEF AddedUp, Kinds
    <3> QED
      BY <1>2, <1>4, <3>2, <3>3, <3>4 DEF AddedUp
  <2>10. OpenIsLast'
    <3>1. Last' = Last /\ open' = open
      BY <1>2, <1>7, <2>4 DEF Last
    <3> QED
      BY <1>4, <1>6, <1>7, <2>2, <2>4, <3>1 DEF OpenIsLast
  <2>11. Typed(count)'
    BY <1>1, <1>2, <1>3, <1>6, <2>3, <2>4 DEF Typed, Fits
  <2> QED
    BY <1>5, <2>5, <2>9, <2>10, <2>11 DEF Streaming
<1>8. CASE open # kind
  <2> DEFINE block == Block(kind, 0, 0, 1)
  <2>1. shown' = Append(CloseOpen, block)
    BY <1>8 DEF BlockDelta
  <2>2. /\ block \in BlocksUpTo(n + 1) /\ block.kind = kind /\ block.tool = 0
        /\ block.args = 1 /\ block.closed = 0
    BY <1>6 DEF Block, BlocksUpTo
  <2> HIDE DEF block
  <2>3. /\ CloseOpen \in Seq(BlocksUpTo(n)) /\ SameContents(shown, CloseOpen)
        /\ \A i \in DOMAIN shown : CloseOpen[i].closed = 1
    BY <1>1, <1>4, CloseOpenFacts
  <2>4. /\ shown' \in Seq(BlocksUpTo(n + 1))
        /\ Len(shown') = Last + 1 /\ DOMAIN shown' = 1..(Last + 1)
        /\ shown'[Last + 1] = block
        /\ \A i \in DOMAIN shown : shown'[i] = CloseOpen[i]
              /\ shown'[i].kind = shown[i].kind /\ shown'[i].tool = shown[i].tool
        /\ \A k, t : Fragments(shown', k, t) =
              Fragments(shown, k, t) + (IF Counts(block, k, t) THEN block.args ELSE 0)
    BY <1>1, <2>1, <2>2, <2>3, AppendedFacts
  <2>5. Placed'
    BY <1>1, <1>2, <1>4, <1>6, <2>2, <2>4, PlacedMore
  <2>6. \A k, t : Fragments(shown, k, t) \in Nat
    BY <1>1, FragmentsNat
  <2>7. AddedUp'
    <3>1. ASSUME NEW k \in Kinds, k # "tool"
          PROVE  Fragments(shown', k, 0) = Fragments(shown, k, 0) + (IF k = kind THEN 1 ELSE 0)
      BY <2>2, <2>4 DEF Counts
    <3>2. ASSUME NEW t \in Tools PROVE Fragments(shown', "tool", t) = Fragments(shown, "tool", t)
      BY <1>6, <2>2, <2>4, <2>6 DEF Counts
    <3>3. Fragments(shown', "text", 0) = sent'.text
      BY <1>4, <3>1 DEF AddedUp, Kinds
    <3>4. Fragments(shown', "thinking", 0) = sent'.thinking
      BY <1>4, <3>1 DEF AddedUp, Kinds
    <3> QED
      BY <1>2, <1>4, <3>2, <3>3, <3>4 DEF AddedUp
  <2>8. OpenIsLast'
    <3>1. Last' = Last + 1 /\ Last + 1 # 0 /\ Last + 1 \in DOMAIN shown'
      BY <1>1, <2>4 DEF Last
    <3>2. ASSUME NEW i \in DOMAIN shown' PROVE shown'[i].closed = 0 <=> i = Last + 1
      <4>1. i # Last + 1 => i \in DOMAIN shown
        BY <1>1, <2>4
      <4> QED
        BY <2>2, <2>3, <2>4, <4>1
    <3> QED
      BY <1>2, <1>6, <2>2, <2>4, <3>1, <3>2 DEF OpenIsLast
  <2>9. Typed(count)'
    BY <1>1, <1>2, <1>3, <1>6, <2>4 DEF Typed, Fits
  <2> QED
    BY <1>5, <2>5, <2>7, <2>8, <2>9 DEF Streaming
<1> QED
  BY <1>7, <1>8

(* A delta of a call: what the converter knows of it afterwards.           *)
Grown(slot, name, named, args) ==
    [slot EXCEPT !.known = @ \/ name, !.name = IF named THEN @ + 1 ELSE @,
                 !.args = IF args THEN @ + 1 ELSE @]

GrownBy(n, slot, grown, args) ==
    /\ grown \in SlotsUpTo(n + 1)
    /\ grown.args = slot.args + (IF args THEN 1 ELSE 0)
    /\ grown.pos = slot.pos

LEMMA GrownSlot ==
  ASSUME NEW n \in Nat, NEW slot \in SlotsUpTo(n),
         NEW name \in BOOLEAN, NEW named \in BOOLEAN, NEW args \in BOOLEAN
  PROVE  GrownBy(n, slot, Grown(slot, name, named, args), args)
<1> DEFINE known == slot.known \/ name
           more == IF named THEN slot.name + 1 ELSE slot.name
           sum == IF args THEN slot.args + 1 ELSE slot.args
           grown == [slot EXCEPT !.known = known, !.name = more, !.args = sum]
<1>1. /\ slot.known \in BOOLEAN /\ slot.name \in 0..n /\ slot.args \in 0..n /\ slot.pos \in 0..n
      /\ 0..n \subseteq 0..(n + 1)
  BY DEF SlotsUpTo
<1>2. more \in 0..(n + 1) /\ sum \in 0..(n + 1) /\ slot.pos \in 0..(n + 1)
      /\ sum = slot.args + (IF args THEN 1 ELSE 0)
  BY <1>1
<1>3. known \in BOOLEAN
  OBVIOUS
<1> HIDE DEF known, more, sum
<1>4. slot \in SlotsUpTo(n + 1)
  BY <1>1 DEF SlotsUpTo
<1>5. grown \in SlotsUpTo(n + 1)
  BY <1>2, <1>3, <1>4 DEF SlotsUpTo
<1>6. grown.args = sum /\ grown.pos = slot.pos
  BY <1>4 DEF SlotsUpTo
<1> QED
  BY <1>2, <1>5, <1>6 DEF known, more, sum, Grown, GrownBy

LEMMA GrownKnown ==
  ASSUME NEW n \in Nat, NEW slot \in SlotsUpTo(n),
         NEW name \in BOOLEAN, NEW named \in BOOLEAN, NEW args \in BOOLEAN,
         name = ~ slot.known
  PROVE  Grown(slot, name, named, args).known
<1>1. slot.known \/ name
  BY DEF SlotsUpTo
<1>2. Grown(slot, name, named, args).known = (slot.known \/ name)
  BY DEF Grown, SlotsUpTo
<1> QED
  BY <1>1, <1>2

(* A call gets its place.                                                  *)
LEMMA PlacedSlot ==
  ASSUME NEW n \in Nat, NEW slot \in SlotsUpTo(n), NEW p \in 0..n
  PROVE  LET placed == [slot EXCEPT !.pos = p] IN
         /\ placed \in SlotsUpTo(n)
         /\ placed.known = slot.known /\ placed.args = slot.args /\ placed.pos = p
  BY DEF SlotsUpTo

(* How the calls add up when one of them gets a fragment.                  *)
LEMMA AddedUpCall ==
  ASSUME AddedUp, NEW t \in Tools, NEW more \in {0, 1},
         \A k, u : Fragments(shown, k, u) \in Nat,
         \A k, u : Fragments(shown', k, u) =
            Fragments(shown, k, u) + (IF k = "tool" /\ u = t THEN more ELSE 0),
         slots'[t].args = slots[t].args + more,
         \A u \in Tools : u # t => slots'[u] = slots[u],
         proto' = proto, sent' = sent
  PROVE  AddedUp'
<1>1. Fragments(shown', "text", 0) = Fragments(shown, "text", 0)
      /\ Fragments(shown', "thinking", 0) = Fragments(shown, "thinking", 0)
  OBVIOUS
<1>2. ASSUME NEW u \in Tools PROVE Fragments(shown', "tool", u) = slots'[u].args
  <2>1. Fragments(shown, "tool", u) = slots[u].args
    BY DEF AddedUp
  <2>2. CASE u = t
    BY <2>1, <2>2
  <2>3. CASE u # t
    BY <2>1, <2>3
  <2> QED
    BY <2>2, <2>3
<1> QED
  BY <1>1, <1>2 DEF AddedUp

(* The order and the slots when a call is seen.                            *)
LEMMA OrderedSeen ==
  ASSUME Ordered, order \in Seq(Tools), NEW t \in Tools, Seen(t),
         \A u \in Tools : u # t => slots'[u] = slots[u],
         slots'[t].pos = 0 => slots[t].pos = 0 /\ slots'[t].args = 0,
         proto' = proto,
         proto = "responses" => slots'[t].known /\ slots'[t].pos # 0
  PROVE  Ordered' /\ order' \in Seq(Tools)
<1>1. \A i, j \in DOMAIN order : order[i] = order[j] => i = j
  BY DEF Ordered
<1>2. /\ order' \in Seq(Tools)
      /\ \A i, j \in DOMAIN order' : order'[i] = order'[j] => i = j
      /\ \E i \in DOMAIN order' : order'[i] = t
      /\ \A u \in Tools : (\E i \in DOMAIN order : order[i] = u)
            => \E i \in DOMAIN order' : order'[i] = u
      /\ \A i \in DOMAIN order' :
            order'[i] = t \/ \E j \in DOMAIN order : order[j] = order'[i]
  BY <1>1, SeenFacts
<1>3. ASSUME NEW u \in Tools
      PROVE  /\ slots'[u].pos # 0 => \E i \in DOMAIN order' : order'[i] = u
             /\ slots'[u].pos = 0 => slots'[u].args = 0
             /\ proto' = "responses" => (slots'[u].known <=> slots'[u].pos # 0)
  <2>1. CASE u = t
    BY <1>2, <2>1
  <2>2. CASE u # t
    BY <1>2, <2>2 DEF Ordered
  <2> QED
    BY <2>1, <2>2
<1>4. ASSUME proto' = "responses", NEW i \in DOMAIN order' PROVE slots'[order'[i]].pos # 0
  <2>1. CASE order'[i] = t
    BY <1>4, <2>1
  <2>2. CASE order'[i] # t
    <3>1. PICK j \in DOMAIN order : order[j] = order'[i]
      BY <1>2, <2>2
    <3>2. order[j] \in Tools
      OBVIOUS
    <3> QED
      BY <1>4, <2>2, <3>1, <3>2 DEF Ordered
  <2> QED
    BY <2>1, <2>2
<1> QED
  BY <1>2, <1>3, <1>4 DEF Ordered

(* A fragment of a call.                                                   *)
LEMMA ToolBlockDeltaKeeps ==
  ASSUME count \in Nat, proto = "anthropic", proto' = proto, count' = count + 1, Streaming,
         NEW t \in Tools, NEW name \in BOOLEAN, NEW args \in BOOLEAN,
         ToolBlockDelta(t, name, args), sent' = sent
  PROVE  Streaming'
<1> PICK n \in Nat : n = count
  OBVIOUS
<1>1. /\ shown \in Seq(BlocksUpTo(n)) /\ Len(shown) <= n /\ Last = Len(shown) /\ Last \in Nat
      /\ DOMAIN shown = 1..Last
      /\ slots \in [Tools -> SlotsUpTo(n)] /\ order \in Seq(Tools)
      /\ sent \in [text: 0..n, thinking: 0..n] /\ open \in Kinds \cup {"none"}
  <2>1. shown \in Seq(BlocksUpTo(n))
    BY DEF Streaming, Typed, Fits
  <2>2. Len(shown) \in Nat /\ DOMAIN shown = 1..Len(shown)
    BY <2>1
  <2> QED
    BY <2>1, <2>2 DEF Streaming, Typed, Fits, Last
<1>2. Placed /\ Ordered /\ AddedUp /\ OpenIsLast
  BY DEF Streaming
<1>3. \A k, u : Fragments(shown, k, u) \in Nat
  BY <1>1, FragmentsNat
<1>4. sent' \in [text: 0..(n + 1), thinking: 0..(n + 1)]
  BY <1>1, BoundsGrow
<1> DEFINE slot == [slots[t] EXCEPT !.known = @ \/ name,
                       !.name = IF name /\ slots[t].pos = 0 THEN @ + 1 ELSE @,
                       !.args = IF args THEN @ + 1 ELSE @]
           named == name /\ slots[t].pos = 0
<1>5. slots[t] \in SlotsUpTo(n) /\ slots[t].args \in Nat /\ slots[t].pos \in Nat
  <2>1. slots[t] \in SlotsUpTo(n)
    BY <1>1
  <2> QED
    BY <2>1 DEF SlotsUpTo
<1>6. /\ slot \in SlotsUpTo(n + 1)
      /\ slot.args = slots[t].args + (IF args THEN 1 ELSE 0)
      /\ slot.pos = slots[t].pos
  <2>1. named \in BOOLEAN
    OBVIOUS
  <2>2. slot = Grown(slots[t], name, named, args)
    BY DEF Grown
  <2> HIDE DEF slot, named
  <2>3. slots[t] \in SlotsUpTo(n)
    BY <1>5
  <2>4. GrownBy(n, slots[t], slot, args)
    BY <2>1, <2>2, <2>3, GrownSlot, Zenon
  <2> QED
    BY <2>4 DEF GrownBy
<1>7. /\ Seen(t)
      /\ IF args /\ slot.pos = 0
         THEN /\ shown' = Append(CloseOpen, Block("tool", t, slot.name, 1))
              /\ slots' = [slots EXCEPT ![t] = [slot EXCEPT !.pos = Last + 1]]
              /\ open' = "tool"
         ELSE /\ shown' = IF args THEN Extended(shown, slot.pos) ELSE shown
              /\ slots' = [slots EXCEPT ![t] = slot]
              /\ UNCHANGED open
  BY DEF ToolBlockDelta
<1> HIDE DEF slot
<1>8. slots \in [Tools -> SlotsUpTo(n + 1)]
  BY <1>1, BoundsGrow
<1>9. CASE args /\ slot.pos = 0
  <2> DEFINE block == Block("tool", t, slot.name, 1)
             placed == [slot EXCEPT !.pos = Last + 1]
  <2>1. Last + 1 \in 0..(n + 1) /\ Last + 1 # 0 /\ Last + 1 \in 1..(Last + 1)
    BY <1>1
  <2>2. placed \in SlotsUpTo(n + 1) /\ placed.args = slot.args /\ placed.pos = Last + 1
    BY <1>6, <2>1, PlacedSlot
  <2>3. shown' = Append(CloseOpen, block) /\ slots' = [slots EXCEPT ![t] = placed]
        /\ open' = "tool"
    BY <1>7, <1>9
  <2>4. /\ block \in BlocksUpTo(n + 1) /\ block.kind = "tool" /\ block.tool = t
        /\ block.args = 1 /\ block.closed = 0
    <3>1. slot.name \in 0..(n + 1) /\ 1 \in 0..(n + 1) /\ 0 \in 0..1
      BY <1>6 DEF SlotsUpTo
    <3> QED
      BY <3>1 DEF Block, BlocksUpTo, Kinds
  <2> HIDE DEF block, placed
  <2>5. /\ slots' \in [Tools -> SlotsUpTo(n + 1)] /\ slots'[t] = placed
        /\ \A u \in Tools : u # t => slots'[u] = slots[u]
    BY <1>8, <2>2, <2>3
  <2>6. /\ CloseOpen \in Seq(BlocksUpTo(n)) /\ SameContents(shown, CloseOpen)
        /\ \A i \in DOMAIN shown : CloseOpen[i].closed = 1
    BY <1>1, <1>2, CloseOpenFacts
  <2>7. /\ shown' \in Seq(BlocksUpTo(n + 1))
        /\ Len(shown') = Last + 1 /\ DOMAIN shown' = 1..(Last + 1)
        /\ shown'[Last + 1] = block
        /\ \A i \in DOMAIN shown : shown'[i] = CloseOpen[i]
              /\ shown'[i].kind = shown[i].kind /\ shown'[i].tool = shown[i].tool
        /\ \A k, u : Fragments(shown', k, u) =
              Fragments(shown, k, u) + (IF Counts(block, k, u) THEN block.args ELSE 0)
    BY <1>1, <2>3, <2>4, <2>6, AppendedFacts
  <2>8. slots[t].pos = 0 /\ slots'[t].pos = Last + 1
    BY <1>6, <1>9, <2>2, <2>5
  <2>9. Placed'
    BY <1>1, <1>2, <2>4, <2>5, <2>7, <2>8, PlacedMore
  <2>10. Ordered' /\ order' \in Seq(Tools)
    BY <1>1, <1>2, <1>7, <2>1, <2>5, <2>8, OrderedSeen
  <2>11. slots'[t].args = slots[t].args + 1
    BY <1>6, <1>9, <2>2, <2>5
  <2>12. \A k, u : Fragments(shown', k, u) =
            Fragments(shown, k, u) + (IF k = "tool" /\ u = t THEN 1 ELSE 0)
    BY <2>4, <2>7 DEF Counts
  <2>13. AddedUp'
    BY <1>2, <1>3, <2>5, <2>11, <2>12, AddedUpCall
  <2>14. OpenIsLast'
    <3>1. Last' = Last + 1 /\ Last + 1 \in DOMAIN shown'
      BY <2>1, <2>7 DEF Last
    <3>2. ASSUME NEW i \in DOMAIN shown' PROVE shown'[i].closed = 0 <=> i = Last + 1
      <4>1. i # Last + 1 => i \in DOMAIN shown
        BY <1>1, <2>7
      <4> QED
        BY <2>4, <2>6, <2>7, <4>1
    <3> QED
      BY <2>1, <2>3, <2>4, <2>7, <3>1, <3>2 DEF OpenIsLast
  <2>15. Typed(count)'
    BY <1>1, <1>4, <2>3, <2>5, <2>7, <2>10 DEF Typed, Fits, Kinds
  <2> QED
    BY <2>9, <2>10, <2>13, <2>14, <2>15 DEF Streaming
<1>10. CASE ~ (args /\ slot.pos = 0)
  <2>1. slots' = [slots EXCEPT ![t] = slot] /\ open' = open
        /\ shown' = IF args THEN Extended(shown, slot.pos) ELSE shown
    BY <1>7, <1>10
  <2>2. /\ slots' \in [Tools -> SlotsUpTo(n + 1)] /\ slots'[t] = slot
        /\ \A u \in Tools : u # t => slots'[u] = slots[u]
    BY <1>6, <1>8, <2>1
  <2>3. \A u \in Tools : slots'[u].pos = slots[u].pos
    BY <1>6, <2>2
  <2>4. slots'[t].pos = 0 => slots[t].pos = 0 /\ slots'[t].args = 0
    <3>1. slots[t].pos = 0 => slots[t].args = 0
      BY <1>2 DEF Ordered
    <3> QED
      BY <1>6, <1>10, <2>2, <3>1
  <2>5. Ordered' /\ order' \in Seq(Tools)
    BY <1>1, <1>2, <1>7, <2>2, <2>4, OrderedSeen
  <2> DEFINE more == IF args THEN 1 ELSE 0
  <2>6. /\ shown' \in Seq(BlocksUpTo(n + 1)) /\ SameStand(shown, shown')
        /\ \A k, u : Fragments(shown', k, u) =
              Fragments(shown, k, u) + (IF k = "tool" /\ u = t THEN more ELSE 0)
    <3>1. CASE args
      <4>1. slot.pos \in DOMAIN shown /\ shown[slot.pos].kind = "tool" /\ shown[slot.pos].tool = t
        BY <1>2, <1>6, <1>10, <3>1 DEF Placed
      <4>2. shown' = Extended(shown, slot.pos)
        BY <2>1, <3>1
      <4>3. shown' \in Seq(BlocksUpTo(n + 1)) /\ SameStand(shown, shown')
        BY <1>1, <4>1, <4>2, ExtendedType
      <4>4. Grows(shown, shown', shown[slot.pos])
        BY <1>1, <4>1, <4>2, FragmentsExtended
      <4>5. more = 1
        BY <3>1
      <4>6. \A k, u : Counts(shown[slot.pos], k, u) <=> (k = "tool" /\ u = t)
        BY <4>1 DEF Counts
      <4> HIDE DEF more
      <4> QED
        BY <4>3, <4>4, <4>5, <4>6 DEF Grows
    <3>2. CASE ~ args
      <4>1. shown' = shown /\ more = 0
        BY <2>1, <3>2
      <4>2. shown' \in Seq(BlocksUpTo(n + 1))
        BY <1>1, <4>1, BoundsGrow
      <4> QED
        BY <1>3, <4>1, <4>2 DEF SameStand
    <3> QED
      BY <3>1, <3>2
  <2>7. slots'[t].args = slots[t].args + more /\ more \in {0, 1}
    BY <1>6, <2>2
  <2> HIDE DEF more
  <2>8. AddedUp'
    BY <1>2, <1>3, <2>2, <2>6, <2>7, AddedUpCall
  <2>9. /\ Len(shown') = Len(shown) /\ DOMAIN shown' = DOMAIN shown
        /\ \A j \in DOMAIN shown : /\ shown'[j].kind = shown[j].kind
                                   /\ shown'[j].tool = shown[j].tool
                                   /\ shown'[j].closed = shown[j].closed
    BY <2>6 DEF SameStand
  <2>10. Placed'
    BY <1>2, <2>3, <2>9, PlacedKept
  <2>11. OpenIsLast'
    <3>1. Last' = Last /\ (Last # 0 => Last \in DOMAIN shown)
      BY <1>1, <2>9 DEF Last
    <3> QED
      BY <1>2, <2>1, <2>9, <3>1 DEF OpenIsLast
  <2>12. Typed(count)'
    BY <1>1, <1>4, <2>1, <2>2, <2>5, <2>6, <2>9 DEF Typed, Fits
  <2> QED
    BY <2>5, <2>8, <2>10, <2>11, <2>12 DEF Streaming
<1> QED
  BY <1>9, <1>10

-----------------------------------------------------------------------------
(* One delta of /v1/responses *)

(* A fragment of content.                                                  *)
LEMMA ItemTextKeeps ==
  ASSUME count \in Nat, proto = "responses", proto' = proto, count' = count + 1, Streaming,
         ItemText, sent' \in [text: 0..(count + 1), thinking: 0..(count + 1)],
         sent'.text = sent.text + 1
  PROVE  Streaming'
<1> PICK n \in Nat : n = count
  OBVIOUS
<1>1. /\ shown \in Seq(BlocksUpTo(n)) /\ Len(shown) <= n /\ Last = Len(shown) /\ Last \in Nat
      /\ DOMAIN shown = 1..Last
      /\ slots \in [Tools -> SlotsUpTo(n)] /\ order \in Seq(Tools)
  <2>1. shown \in Seq(BlocksUpTo(n))
    BY DEF Streaming, Typed, Fits
  <2>2. Len(shown) \in Nat /\ DOMAIN shown = 1..Len(shown)
    BY <2>1
  <2> QED
    BY <2>1, <2>2 DEF Streaming, Typed, Fits, Last
<1>2. slots' = slots /\ order' = order /\ open' = "text"
  BY DEF ItemText
<1>3. slots' \in [Tools -> SlotsUpTo(n + 1)]
  BY <1>1, <1>2, BoundsGrow
<1>4. Placed /\ Ordered /\ AddedUp /\ ItemsOpen
  BY DEF Streaming
<1>5. Ordered'
  BY <1>2, <1>4 DEF Ordered
<1>6. \A k, t : Fragments(shown, k, t) \in Nat
  BY <1>1, FragmentsNat
<1>7. CASE open = "text"
  <2>1. PICK i \in MessageAt : i = CHOOSE j \in MessageAt : TRUE
    BY <1>4, <1>7 DEF ItemsOpen
  <2>2. shown' = Extended(shown, i)
    BY <1>7, <2>1 DEF ItemText
  <2>3. i \in DOMAIN shown /\ shown[i].kind = "text" /\ shown[i].tool = 0
    BY <1>4, <2>1 DEF MessageAt, Placed
  <2>4. shown' \in Seq(BlocksUpTo(n + 1)) /\ SameStand(shown, shown')
    BY <1>1, <2>2, <2>3, ExtendedType
  <2>5. /\ Len(shown') = Len(shown) /\ DOMAIN shown' = DOMAIN shown
        /\ \A j \in DOMAIN shown : /\ shown'[j].kind = shown[j].kind
                                   /\ shown'[j].tool = shown[j].tool
                                   /\ shown'[j].closed = shown[j].closed
    BY <2>4 DEF SameStand
  <2>6. Placed'
    BY <1>2, <1>4, <2>5, PlacedKept
  <2>7. Grows(shown, shown', shown[i])
    BY <1>1, <2>2, <2>3, FragmentsExtended
  <2>8. AddedUp'
    <3>1. Fragments(shown', "text", 0) = Fragments(shown, "text", 0) + 1
      BY <2>3, <2>7 DEF Counts, Grows
    <3>2. ASSUME NEW t \in Tools PROVE Fragments(shown', "tool", t) = Fragments(shown, "tool", t)
      BY <1>6, <2>3, <2>7 DEF Counts, Grows
    <3> QED
      BY <1>2, <1>4, <3>1, <3>2 DEF AddedUp
  <2>9. ItemsOpen'
    <3>1. MessageAt' = MessageAt
      BY <2>5 DEF MessageAt
    <3> QED
      BY <1>2, <1>4, <1>7, <2>5, <3>1 DEF ItemsOpen
  <2>10. Typed(count)'
    BY <1>1, <1>2, <1>3, <2>4, <2>5 DEF Typed, Fits, Kinds
  <2> QED
    BY <1>5, <2>6, <2>8, <2>9, <2>10 DEF Streaming
<1>8. CASE open # "text"
  <2> DEFINE block == Block("text", 0, 0, 1)
  <2>1. shown' = Append(shown, block)
    BY <1>8 DEF ItemText
  <2>2. /\ block \in BlocksUpTo(n + 1) /\ block.kind = "text" /\ block.tool = 0
        /\ block.args = 1 /\ block.closed = 0
    BY DEF Block, BlocksUpTo, Kinds
  <2> HIDE DEF block
  <2>3. SameContents(shown, shown)
    BY DEF SameContents
  <2>4. /\ shown' \in Seq(BlocksUpTo(n + 1))
        /\ Len(shown') = Last + 1 /\ DOMAIN shown' = 1..(Last + 1)
        /\ shown'[Last + 1] = block
        /\ \A i \in DOMAIN shown : shown'[i] = shown[i]
              /\ shown'[i].kind = shown[i].kind /\ shown'[i].tool = shown[i].tool
        /\ \A k, t : Fragments(shown', k, t) =
              Fragments(shown, k, t) + (IF Counts(block, k, t) THEN block.args ELSE 0)
    BY <1>1, <2>1, <2>2, <2>3, AppendedFacts
  <2>5. Placed'
    BY <1>1, <1>2, <1>4, <2>2, <2>4, PlacedMore
  <2>6. AddedUp'
    <3>1. Fragments(shown', "text", 0) = Fragments(shown, "text", 0) + 1
      BY <2>2, <2>4 DEF Counts
    <3>2. ASSUME NEW t \in Tools PROVE Fragments(shown', "tool", t) = Fragments(shown, "tool", t)
      BY <1>6, <2>2, <2>4 DEF Counts
    <3> QED
      BY <1>2, <1>4, <3>1, <3>2 DEF AddedUp
  <2>7. ItemsOpen'
    <3>1. Last + 1 \in DOMAIN shown'
          /\ \A i \in DOMAIN shown' : i = Last + 1 \/ i \in DOMAIN shown
      BY <1>1, <2>4
    <3>2. MessageAt = {}
      BY <1>4, <1>8 DEF ItemsOpen
    <3>3. MessageAt' = {Last + 1}
      BY <2>2, <2>4, <3>1, <3>2 DEF MessageAt
    <3>4. \A i \in DOMAIN shown' : shown'[i].closed = 0 /\ shown'[i].kind # "thinking"
      BY <1>4, <2>2, <2>4, <3>1 DEF ItemsOpen
    <3> QED
      BY <1>2, <3>3, <3>4 DEF ItemsOpen
  <2>8. Typed(count)'
    BY <1>1, <1>2, <1>3, <2>4 DEF Typed, Fits, Kinds
  <2> QED
    BY <1>5, <2>5, <2>6, <2>7, <2>8 DEF Streaming
<1> QED
  BY <1>7, <1>8

(* A fragment of a call that was named when it began.                      *)
LEMMA ItemToolKeeps ==
  ASSUME count \in Nat, proto = "responses", proto' = proto, count' = count + 1, Streaming,
         NEW t \in Tools, NEW name \in BOOLEAN, NEW args \in BOOLEAN, name = ~ slots[t].known,
         ItemTool(t, name, args), sent' = sent
  PROVE  Streaming'
<1> PICK n \in Nat : n = count
  OBVIOUS
<1>1. /\ shown \in Seq(BlocksUpTo(n)) /\ Len(shown) <= n /\ Last = Len(shown) /\ Last \in Nat
      /\ DOMAIN shown = 1..Last
      /\ slots \in [Tools -> SlotsUpTo(n)] /\ order \in Seq(Tools)
      /\ sent \in [text: 0..n, thinking: 0..n] /\ open \in Kinds \cup {"none"}
  <2>1. shown \in Seq(BlocksUpTo(n))
    BY DEF Streaming, Typed, Fits
  <2>2. Len(shown) \in Nat /\ DOMAIN shown = 1..Len(shown)
    BY <2>1
  <2> QED
    BY <2>1, <2>2 DEF Streaming, Typed, Fits, Last
<1>2. Placed /\ Ordered /\ AddedUp /\ ItemsOpen
  BY DEF Streaming
<1>3. \A k, u : Fragments(shown, k, u) \in Nat
  BY <1>1, FragmentsNat
<1>4. sent' \in [text: 0..(n + 1), thinking: 0..(n + 1)]
  BY <1>1, BoundsGrow
<1> DEFINE slot == [slots[t] EXCEPT !.known = @ \/ name, !.name = IF name THEN @ + 1 ELSE @,
                                    !.args = IF args THEN @ + 1 ELSE @]
           more == IF args THEN 1 ELSE 0
<1>5. slots[t] \in SlotsUpTo(n) /\ slots[t].args \in Nat /\ slots[t].pos \in Nat
  <2>1. slots[t] \in SlotsUpTo(n)
    BY <1>1
  <2> QED
    BY <2>1 DEF SlotsUpTo
<1>6. slot = Grown(slots[t], name, name, args)
  BY DEF Grown
<1>7. /\ Seen(t) /\ open' = open
      /\ slots' = [slots EXCEPT ![t] =
                      IF slot.known /\ slot.pos = 0 THEN [slot EXCEPT !.pos = Last + 1] ELSE slot]
      /\ shown' = IF slot.known /\ slot.pos = 0 THEN Append(shown, Block("tool", t, slot.name, more))
                  ELSE IF args /\ slot.pos > 0 THEN Extended(shown, slot.pos)
                  ELSE shown
  BY DEF ItemTool
<1>8. slots \in [Tools -> SlotsUpTo(n + 1)]
  BY <1>1, BoundsGrow
<1>9. more \in {0, 1} /\ more \in 0..(n + 1)
  OBVIOUS
<1> HIDE DEF slot
<1>10. slot.known
  BY <1>5, <1>6, GrownKnown
<1>11. /\ slot \in SlotsUpTo(n + 1)
       /\ slot.args = slots[t].args + more
       /\ slot.pos = slots[t].pos
  <2>1. GrownBy(n, slots[t], slot, args)
    BY <1>5, <1>6, GrownSlot, Zenon
  <2> QED
    BY <2>1 DEF GrownBy
<1>12. CASE slot.pos = 0
  <2> HIDE DEF more
  <2> DEFINE block == Block("tool", t, slot.name, more)
             placed == [slot EXCEPT !.pos = Last + 1]
  <2>1. Last + 1 \in 0..(n + 1) /\ Last + 1 # 0 /\ Last + 1 \in 1..(Last + 1)
    BY <1>1
  <2>2. placed \in SlotsUpTo(n + 1) /\ placed.known = slot.known
        /\ placed.args = slot.args /\ placed.pos = Last + 1
    BY <1>11, <2>1, PlacedSlot
  <2>3. shown' = Append(shown, block) /\ slots' = [slots EXCEPT ![t] = placed]
    BY <1>7, <1>10, <1>12
  <2>4. /\ block \in BlocksUpTo(n + 1) /\ block.kind = "tool" /\ block.tool = t
        /\ block.args = more /\ block.closed = 0
    <3>1. slot.name \in 0..(n + 1) /\ 0 \in 0..1
      BY <1>11 DEF SlotsUpTo
    <3> QED
      BY <1>9, <3>1 DEF Block, BlocksUpTo, Kinds
  <2> HIDE DEF block, placed
  <2>5. /\ slots' \in [Tools -> SlotsUpTo(n + 1)] /\ slots'[t] = placed
        /\ \A u \in Tools : u # t => slots'[u] = slots[u]
    BY <1>8, <2>2, <2>3
  <2>6. SameContents(shown, shown)
    BY DEF SameContents
  <2>7. /\ shown' \in Seq(BlocksUpTo(n + 1))
        /\ Len(shown') = Last + 1 /\ DOMAIN shown' = 1..(Last + 1)
        /\ shown'[Last + 1] = block
        /\ \A i \in DOMAIN shown : shown'[i] = shown[i]
              /\ shown'[i].kind = shown[i].kind /\ shown'[i].tool = shown[i].tool
        /\ \A k, u : Fragments(shown', k, u) =
              Fragments(shown, k, u) + (IF Counts(block, k, u) THEN block.args ELSE 0)
    BY <1>1, <2>3, <2>4, <2>6, AppendedFacts
  <2>8. slots[t].pos = 0 /\ slots'[t].pos = Last + 1
    BY <1>11, <1>12, <2>2, <2>5
  <2>9. Placed'
    BY <1>1, <1>2, <2>4, <2>5, <2>7, <2>8, PlacedMore
  <2>10. slots'[t].known
    BY <1>10, <2>2, <2>5
  <2>11. Ordered' /\ order' \in Seq(Tools)
    BY <1>1, <1>2, <1>7, <2>1, <2>5, <2>8, <2>10, OrderedSeen
  <2>12. slots'[t].args = slots[t].args + more
    BY <1>11, <2>2, <2>5
  <2>13. \A k, u : Fragments(shown', k, u) =
            Fragments(shown, k, u) + (IF k = "tool" /\ u = t THEN more ELSE 0)
    BY <2>4, <2>7 DEF Counts
  <2>14. AddedUp'
    BY <1>2, <1>3, <1>9, <2>5, <2>12, <2>13, AddedUpCall
  <2>15. ItemsOpen'
    <3>1. \A i \in DOMAIN shown' : i = Last + 1 \/ i \in DOMAIN shown
      BY <1>1, <2>7
    <3>2. DOMAIN shown \subseteq DOMAIN shown'
      BY <1>1, <2>7
    <3>3. MessageAt' = MessageAt
      BY <2>4, <2>7, <3>1, <3>2 DEF MessageAt
    <3>4. \A i \in DOMAIN shown' : shown'[i].closed = 0 /\ shown'[i].kind # "thinking"
      BY <1>2, <2>4, <2>7, <3>1 DEF ItemsOpen
    <3> QED
      BY <1>2, <1>7, <3>3, <3>4 DEF ItemsOpen
  <2>16. Typed(count)'
    BY <1>1, <1>4, <1>7, <2>5, <2>7, <2>11 DEF Typed, Fits
  <2> QED
    BY <2>9, <2>11, <2>14, <2>15, <2>16 DEF Streaming
<1>13. CASE slot.pos # 0
  <2>1. slots' = [slots EXCEPT ![t] = slot]
        /\ shown' = IF args THEN Extended(shown, slot.pos) ELSE shown
    <3>1. slot.pos > 0
      BY <1>5, <1>11, <1>13
    <3> QED
      BY <1>7, <1>13, <3>1
  <2>2. /\ slots' \in [Tools -> SlotsUpTo(n + 1)] /\ slots'[t] = slot
        /\ \A u \in Tools : u # t => slots'[u] = slots[u]
    BY <1>8, <1>11, <2>1
  <2>3. \A u \in Tools : slots'[u].pos = slots[u].pos
    BY <1>11, <2>2
  <2>4. Ordered' /\ order' \in Seq(Tools)
    BY <1>1, <1>2, <1>7, <1>10, <1>13, <2>2, OrderedSeen
  <2>5. /\ shown' \in Seq(BlocksUpTo(n + 1)) /\ SameStand(shown, shown')
        /\ \A k, u : Fragments(shown', k, u) =
              Fragments(shown, k, u) + (IF k = "tool" /\ u = t THEN more ELSE 0)
    <3>1. CASE args
      <4>1. slot.pos \in DOMAIN shown /\ shown[slot.pos].kind = "tool" /\ shown[slot.pos].tool = t
        BY <1>2, <1>11, <1>13 DEF Placed
      <4>2. shown' = Extended(shown, slot.pos)
        BY <2>1, <3>1
      <4>3. shown' \in Seq(BlocksUpTo(n + 1)) /\ SameStand(shown, shown')
        BY <1>1, <4>1, <4>2, ExtendedType
      <4>4. Grows(shown, shown', shown[slot.pos])
        BY <1>1, <4>1, <4>2, FragmentsExtended
      <4>5. more = 1
        BY <3>1
      <4>6. \A k, u : Counts(shown[slot.pos], k, u) <=> (k = "tool" /\ u = t)
        BY <4>1 DEF Counts
      <4> HIDE DEF more
      <4> QED
        BY <4>3, <4>4, <4>5, <4>6 DEF Grows
    <3>2. CASE ~ args
      <4>1. shown' = shown /\ more = 0
        BY <2>1, <3>2
      <4>2. shown' \in Seq(BlocksUpTo(n + 1))
        BY <1>1, <4>1, BoundsGrow
      <4> QED
        BY <1>3, <4>1, <4>2 DEF SameStand
    <3> QED
      BY <3>1, <3>2
  <2>6. slots'[t].args = slots[t].args + more
    BY <1>11, <2>2
  <2> HIDE DEF more
  <2>7. AddedUp'
    BY <1>2, <1>3, <1>9, <2>2, <2>5, <2>6, AddedUpCall
  <2>8. /\ Len(shown') = Len(shown) /\ DOMAIN shown' = DOMAIN shown
        /\ \A j \in DOMAIN shown : /\ shown'[j].kind = shown[j].kind
                                   /\ shown'[j].tool = shown[j].tool
                                   /\ shown'[j].closed = shown[j].closed
    BY <2>5 DEF SameStand
  <2>9. Placed'
    BY <1>2, <2>3, <2>8, PlacedKept
  <2>10. ItemsOpen'
    <3>1. MessageAt' = MessageAt
      BY <2>8 DEF MessageAt
    <3> QED
      BY <1>2, <1>7, <2>8, <3>1 DEF ItemsOpen
  <2>11. Typed(count)'
    BY <1>1, <1>4, <1>7, <2>2, <2>4, <2>5, <2>8 DEF Typed, Fits
  <2> QED
    BY <2>4, <2>7, <2>9, <2>10, <2>11 DEF Streaming
<1> QED
  BY <1>12, <1>13

-----------------------------------------------------------------------------
(* The ends of an answer *)

LEMMA BoundsFit ==
  ASSUME NEW n \in Nat, NEW m \in Nat, n <= m
  PROVE  /\ BlocksUpTo(n) \subseteq BlocksUpTo(m)
         /\ SlotsUpTo(n) \subseteq SlotsUpTo(m)
         /\ 0..n \subseteq 0..m
<1>1. 0..n \subseteq 0..m
  OBVIOUS
<1> QED
  BY <1>1 DEF BlocksUpTo, SlotsUpTo

(* Blocks without a fragment add nothing.                                  *)
Pads(blocks, others) ==
    /\ Len(blocks) <= Len(others)
    /\ \A i \in DOMAIN blocks :
          /\ others[i].kind = blocks[i].kind
          /\ others[i].tool = blocks[i].tool
          /\ others[i].args = blocks[i].args
    /\ \A i \in (Len(blocks) + 1)..Len(others) : others[i].args = 0

LEMMA FragmentsPadded ==
  ASSUME NEW n \in Nat, NEW blocks \in Seq(BlocksUpTo(n)), NEW others \in Seq(BlocksUpTo(n)),
         Pads(blocks, others), NEW kind, NEW tool
  PROVE  Fragments(others, kind, tool) = Fragments(blocks, kind, tool)
<1> DEFINE k == Len(blocks)
           m == Len(others)
           w == Weight(blocks, kind, tool)
           v == Weight(others, kind, tool)
<1>1. k \in Nat /\ m \in Nat /\ DOMAIN blocks = 1..k /\ DOMAIN others = 1..m
  OBVIOUS
<1>2. w \in [1..k -> Nat] /\ v \in [1..m -> Nat]
  BY WeightType
<1>3. \A j \in 1..k : j \in 1..m /\ v[j] = w[j]
  BY <1>1 DEF Weight, Pads
<1>4. \A j \in (k + 1)..m : v[j] = 0
  <2>1. \A j \in (k + 1)..m : j \in 1..m
    BY <1>1
  <2> QED
    BY <1>1, <2>1 DEF Weight, Pads
<1> HIDE DEF w, v
<1>5. Total(v, m) = Total(w, k)
  BY <1>1, <1>2, <1>3, <1>4, TotalPadded DEF Pads
<1> QED
  BY <1>5 DEF Fragments, w, v

LEMMA FragmentsNone ==
  ASSUME NEW kind, NEW tool
  PROVE  Fragments(<<>>, kind, tool) = 0
<1> DEFINE w == Weight(<<>>, kind, tool)
<1>1. Len(<<>>) = 0
  OBVIOUS
<1>2. Sums([n \in 0..0 |-> 0], w, 0)
  BY DEF Sums
<1> HIDE DEF w
<1>3. Total(w, 0) = [n \in 0..0 |-> 0][0]
  BY <1>2, TotalIsLast
<1> QED
  BY <1>1, <1>3 DEF Fragments, w

(* One sequence after another.                                             *)
Joins(both, first, second, S) ==
    /\ both \in Seq(S) /\ Len(both) = Len(first) + Len(second)
    /\ DOMAIN both = 1..(Len(first) + Len(second))
    /\ \A i \in 1..Len(first) : both[i] = first[i]
    /\ \A i \in (Len(first) + 1)..(Len(first) + Len(second)) : both[i] = second[i - Len(first)]

LEMMA Concatenated ==
  ASSUME NEW S, NEW first \in Seq(S), NEW second \in Seq(S)
  PROVE  Joins(first \o second, first, second, S)
  BY DEF Joins

(* The end of /v1/messages.                                                *)
LEMMA BlocksEndSound ==
  ASSUME ProtocolAssumption, count \in 0..MaxDeltas, proto = "anthropic", Streaming,
         BlocksEnd, phase' = "done", open' = "none",
         UNCHANGED <<proto, count, slots, order, sent>>
  PROVE  Fits(MaxDeltas)' /\ BlocksClosed' /\ NothingLost'
<1> PICK n \in Nat : n = count
  OBVIOUS
<1> DEFINE m == MaxDeltas
           k == Len(shown)
           l == Len(Unstarted)
           last == [i \in DOMAIN Unstarted |->
                      [Block("tool", Unstarted[i], slots[Unstarted[i]].name, 0)
                         EXCEPT !.closed = 1]]
<1>1. /\ shown \in Seq(BlocksUpTo(n)) /\ k \in Nat /\ DOMAIN shown = 1..k
      /\ slots \in [Tools -> SlotsUpTo(n)] /\ order \in Seq(Tools)
      /\ sent \in [text: 0..n, thinking: 0..n] /\ m \in Nat /\ n <= m
  BY DEF Streaming, Typed, Fits, ProtocolAssumption
<1>2. Placed /\ Ordered /\ AddedUp /\ OpenIsLast
  BY DEF Streaming
<1>3. /\ CloseOpen \in Seq(BlocksUpTo(n)) /\ SameContents(shown, CloseOpen)
      /\ \A i \in DOMAIN shown : CloseOpen[i].closed = 1
  BY <1>1, <1>2, CloseOpenFacts
<1>4. \A i, j \in DOMAIN order : order[i] = order[j] => i = j
  BY <1>2 DEF Ordered
<1>5. /\ Unstarted \in Seq(Tools)
      /\ \A i \in DOMAIN Unstarted :
            /\ slots[Unstarted[i]].pos = 0
            /\ \E j \in DOMAIN order : order[j] = Unstarted[i]
      /\ \A j \in DOMAIN order :
            slots[order[j]].pos = 0 => \E i \in DOMAIN Unstarted : Unstarted[i] = order[j]
      /\ \A i, j \in DOMAIN Unstarted : Unstarted[i] = Unstarted[j] => i = j
  BY <1>1, <1>4, UnstartedTools
<1>6. l \in Nat /\ DOMAIN Unstarted = 1..l /\ \A i \in 1..l : Unstarted[i] \in Tools
  BY <1>5
<1>7. ASSUME NEW i \in 1..l
      PROVE  /\ last[i] \in BlocksUpTo(n) /\ last[i].kind = "tool" /\ last[i].tool = Unstarted[i]
             /\ last[i].args = 0 /\ last[i].closed = 1
  <2> DEFINE block == Block("tool", Unstarted[i], slots[Unstarted[i]].name, 0)
  <2>1. slots[Unstarted[i]].name \in 0..n
    <3>1. slots[Unstarted[i]] \in SlotsUpTo(n)
      BY <1>1, <1>6
    <3> QED
      BY <3>1 DEF SlotsUpTo
  <2>2. /\ block \in BlocksUpTo(n) /\ block.kind = "tool" /\ block.tool = Unstarted[i]
        /\ block.args = 0
    BY <1>6, <2>1 DEF Block, BlocksUpTo, Kinds
  <2>3. last[i] = [block EXCEPT !.closed = 1]
    BY <1>6
  <2> HIDE DEF block, last
  <2> QED
    BY <2>2, <2>3, ClosedBlock
<1>8. DOMAIN last = 1..l
  BY <1>6
<1>9. shown' = CloseOpen \o last
  BY DEF BlocksEnd
<1> HIDE DEF last
<1>10. last \in Seq(BlocksUpTo(n)) /\ Len(last) = l
  <2>1. last = [i \in 1..l |-> last[i]]
    BY <1>8 DEF last
  <2>2. last \in [1..l -> BlocksUpTo(n)]
    BY <1>7, <2>1
  <2> QED
    BY <1>6, <2>2
<1>11. DOMAIN CloseOpen = 1..k /\ Len(CloseOpen) = k
  BY <1>1, <1>3 DEF SameContents
<1> HIDE DEF k, l
<1>12. /\ shown' \in Seq(BlocksUpTo(n)) /\ Len(shown') = k + l /\ DOMAIN shown' = 1..(k + l)
       /\ \A i \in 1..k : shown'[i] = CloseOpen[i]
       /\ \A i \in (k + 1)..(k + l) : shown'[i] = last[i - k]
  <2>1. Len(CloseOpen) = k /\ Len(last) = l
    BY <1>10, <1>11
  <2>2. Joins(CloseOpen \o last, CloseOpen, last, BlocksUpTo(n))
    BY <1>3, <1>10, Concatenated
  <2> QED
    BY <1>9, <2>1, <2>2 DEF Joins
<1>13. \A i \in 1..k : /\ shown'[i].kind = shown[i].kind /\ shown'[i].tool = shown[i].tool
                       /\ shown'[i].args = shown[i].args /\ shown'[i].closed = 1
  BY <1>1, <1>3, <1>12 DEF SameContents
<1>14. \A i \in (k + 1)..(k + l) :
          /\ i - k \in 1..l
          /\ shown'[i].kind = "tool" /\ shown'[i].tool = Unstarted[i - k]
          /\ shown'[i].args = 0 /\ shown'[i].closed = 1
  <2>1. \A i \in (k + 1)..(k + l) : i - k \in 1..l
    BY <1>1, <1>6
  <2> QED
    BY <1>7, <1>12, <2>1
<1>15. \A i \in 1..(k + l) : i \in 1..k \/ i \in (k + 1)..(k + l)
  BY <1>1, <1>6
<1>16. Fits(MaxDeltas)'
  <2>1. BlocksUpTo(n) \subseteq BlocksUpTo(m) /\ SlotsUpTo(n) \subseteq SlotsUpTo(m)
        /\ 0..n \subseteq 0..m
    BY <1>1, BoundsFit
  <2>2. shown' \in Seq(BlocksUpTo(m)) /\ slots \in [Tools -> SlotsUpTo(m)]
        /\ sent \in [text: 0..m, thinking: 0..m]
    BY <1>1, <1>12, <2>1
  <2> QED
    BY <1>1, <2>2 DEF Fits
<1>17. BlocksClosed'
  <2>1. \A i \in DOMAIN shown' : shown'[i].closed = 1
    BY <1>12, <1>13, <1>14, <1>15
  <2> QED
    BY <2>1 DEF BlocksClosed
<1>18. \A kind, tool : Fragments(shown', kind, tool) = Fragments(shown, kind, tool)
  <2> SUFFICES ASSUME NEW kind, NEW tool
               PROVE  Fragments(shown', kind, tool) = Fragments(shown, kind, tool)
    OBVIOUS
  <2>1. Len(shown) = k /\ Len(shown') = k + l /\ Len(shown) <= Len(shown')
    BY <1>1, <1>6, <1>12 DEF k
  <2>2. \A i \in DOMAIN shown : /\ shown'[i].kind = shown[i].kind
                                /\ shown'[i].tool = shown[i].tool
                                /\ shown'[i].args = shown[i].args
    BY <1>1, <1>13
  <2>3. \A i \in (Len(shown) + 1)..Len(shown') : shown'[i].args = 0
    BY <1>14, <2>1
  <2>4. Pads(shown, shown')
    BY <2>1, <2>2, <2>3 DEF Pads
  <2> QED
    BY <1>1, <1>12, <2>4, FragmentsPadded
<1>19. ASSUME NEW t \in Tools, \E i \in DOMAIN order : order[i] = t
       PROVE  Cardinality({i \in DOMAIN shown' :
                 shown'[i].tool = t /\ shown'[i].kind = "tool"}) = 1
  <2> DEFINE places == {i \in DOMAIN shown' : shown'[i].tool = t /\ shown'[i].kind = "tool"}
  <2>1. CASE slots[t].pos # 0
    <3>1. slots[t].pos \in 1..k /\ slots[t].pos \in places
      <4>1. slots[t].pos \in 1..k /\ shown[slots[t].pos].kind = "tool"
            /\ shown[slots[t].pos].tool = t
        BY <1>1, <1>2, <2>1 DEF Placed
      <4>2. 1..k \subseteq 1..(k + l)
        BY <1>1, <1>6
      <4> QED
        BY <1>12, <1>13, <4>1, <4>2
    <3>2. ASSUME NEW i \in places PROVE i = slots[t].pos
      <4>1. CASE i \in 1..k
        BY <1>1, <1>2, <1>13, <4>1 DEF Placed
      <4>2. CASE i \in (k + 1)..(k + l)
        <5>1. Unstarted[i - k] = t /\ i - k \in DOMAIN Unstarted
          BY <1>6, <1>14, <4>2
        <5> QED
          BY <1>5, <2>1, <5>1
      <4> QED
        BY <1>12, <1>15, <4>1, <4>2
    <3>3. places = {slots[t].pos}
      BY <3>1, <3>2
    <3> QED
      BY <3>3, FS_Singleton
  <2>2. CASE slots[t].pos = 0
    <3>1. PICK j \in DOMAIN Unstarted : Unstarted[j] = t
      BY <1>5, <1>19, <2>2
    <3>2. k + j \in (k + 1)..(k + l) /\ k + j \in 1..(k + l) /\ (k + j) - k = j
      BY <1>1, <1>6
    <3>3. k + j \in places
      BY <1>12, <1>14, <3>1, <3>2
    <3>4. ASSUME NEW i \in places PROVE i = k + j
      <4>1. CASE i \in 1..k
        <5>1. slots[t].pos = i /\ i # 0
          BY <1>1, <1>2, <1>13, <4>1 DEF Placed
        <5> QED
          BY <2>2, <5>1
      <4>2. CASE i \in (k + 1)..(k + l)
        <5>1. Unstarted[i - k] = t /\ i - k \in DOMAIN Unstarted
          BY <1>6, <1>14, <4>2
        <5>2. i - k = j
          BY <1>5, <3>1, <5>1
        <5> QED
          BY <1>1, <1>6, <4>2, <5>2
      <4> QED
        BY <1>12, <1>15, <4>1, <4>2
    <3>5. places = {k + j}
      BY <3>3, <3>4
    <3> QED
      BY <3>5, FS_Singleton
  <2> QED
    BY <2>1, <2>2
<1>20. NothingLost'
  BY <1>2, <1>18, <1>19 DEF NothingLost, AddedUp
<1> QED
  BY <1>16, <1>17, <1>20

(* The end of /v1/responses.                                               *)
LEMMA ItemsEndSound ==
  ASSUME ProtocolAssumption, count \in 0..MaxDeltas, proto = "responses", Streaming,
         ItemsEnd, phase' = "done", open' = "none",
         UNCHANGED <<proto, count, slots, order, sent>>
  PROVE  Fits(MaxDeltas)' /\ BlocksClosed' /\ NothingLost'
<1> PICK n \in Nat : n = count
  OBVIOUS
<1> DEFINE m == MaxDeltas
           closings(i) == Cardinality({t \in {order[j] : j \in DOMAIN order} : DoneIndex(t) = i})
                          + (IF shown[i].kind = "text" THEN 1 ELSE 0)
<1>1. /\ shown \in Seq(BlocksUpTo(n)) /\ DOMAIN shown = 1..Len(shown) /\ Len(shown) \in Nat
      /\ slots \in [Tools -> SlotsUpTo(n)] /\ order \in Seq(Tools)
      /\ sent \in [text: 0..n, thinking: 0..n] /\ m \in Nat /\ n <= m
  BY DEF Streaming, Typed, Fits, ProtocolAssumption
<1>2. Placed /\ Ordered /\ AddedUp /\ ItemsOpen
  BY DEF Streaming
<1>3. \A i \in DOMAIN shown : shown[i] \in BlocksUpTo(n)
  BY <1>1
<1>4. \A j \in DOMAIN order : order[j] \in Tools /\ DoneIndex(order[j]) = slots[order[j]].pos
  BY <1>1, <1>2 DEF Ordered, DoneIndex
<1>5. ASSUME NEW i \in DOMAIN shown PROVE closings(i) = 1
  <2> DEFINE called == {t \in {order[j] : j \in DOMAIN order} : DoneIndex(t) = i}
  <2>1. CASE shown[i].kind = "tool"
    <3>1. shown[i].tool \in Tools /\ slots[shown[i].tool].pos = i /\ i # 0
      BY <1>1, <1>2, <2>1 DEF Placed
    <3>2. PICK j \in DOMAIN order : order[j] = shown[i].tool
      BY <1>2, <3>1 DEF Ordered
    <3>3. shown[i].tool \in called
      BY <1>4, <3>1, <3>2
    <3>4. ASSUME NEW t \in called PROVE t = shown[i].tool
      <4>1. t \in Tools /\ slots[t].pos = i
        BY <1>4
      <4> QED
        BY <1>2, <3>1, <4>1 DEF Placed
    <3>5. called = {shown[i].tool}
      BY <3>3, <3>4
    <3>6. Cardinality(called) = 1
      BY <3>5, FS_Singleton
    <3> QED
      BY <2>1, <3>6
  <2>2. CASE shown[i].kind # "tool"
    <3>1. shown[i].kind = "text"
      BY <1>2, <1>3, <2>2 DEF ItemsOpen, BlocksUpTo, Kinds
    <3>2. ASSUME NEW t \in called PROVE FALSE
      <4>1. t \in Tools /\ slots[t].pos = i /\ i # 0
        BY <1>1, <1>4
      <4> QED
        BY <1>2, <2>2, <4>1 DEF Placed
    <3>3. called = {}
      BY <3>2
    <3>4. Cardinality(called) = 0
      BY <3>3, FS_EmptySet
    <3> QED
      BY <3>1, <3>4
  <2> QED
    BY <2>1, <2>2
<1>6. shown' = [i \in DOMAIN shown |-> [shown[i] EXCEPT !.closed = closings(i)]]
  BY DEF ItemsEnd
<1> HIDE DEF closings
<1>7. \A i \in DOMAIN shown : /\ shown'[i] \in BlocksUpTo(n) /\ shown'[i].closed = 1
                              /\ shown'[i].kind = shown[i].kind /\ shown'[i].tool = shown[i].tool
                              /\ shown'[i].args = shown[i].args
  <2> SUFFICES ASSUME NEW i \in DOMAIN shown
               PROVE  /\ shown'[i] \in BlocksUpTo(n) /\ shown'[i].closed = 1
                      /\ shown'[i].kind = shown[i].kind /\ shown'[i].tool = shown[i].tool
                      /\ shown'[i].args = shown[i].args
    OBVIOUS
  <2>1. shown'[i] = [shown[i] EXCEPT !.closed = 1]
    BY <1>5, <1>6
  <2> QED
    BY <1>3, <2>1, ClosedBlock
<1>8. shown' \in Seq(BlocksUpTo(n)) /\ Len(shown') = Len(shown) /\ DOMAIN shown' = DOMAIN shown
  <2>1. shown' \in [1..Len(shown) -> BlocksUpTo(n)]
    BY <1>1, <1>6, <1>7
  <2> QED
    BY <1>1, <2>1
<1>9. SameContents(shown, shown')
  BY <1>7, <1>8 DEF SameContents
<1>10. \A kind, tool : Fragments(shown', kind, tool) = Fragments(shown, kind, tool)
  BY <1>1, <1>8, <1>9, FragmentsClosed
<1>11. Fits(MaxDeltas)'
  <2>1. BlocksUpTo(n) \subseteq BlocksUpTo(m) /\ SlotsUpTo(n) \subseteq SlotsUpTo(m)
        /\ 0..n \subseteq 0..m
    BY <1>1, BoundsFit
  <2>2. shown' \in Seq(BlocksUpTo(m)) /\ slots \in [Tools -> SlotsUpTo(m)]
        /\ sent \in [text: 0..m, thinking: 0..m]
    BY <1>1, <1>8, <2>1
  <2> QED
    BY <1>1, <2>2 DEF Fits
<1>12. BlocksClosed'
  BY <1>7, <1>8 DEF BlocksClosed
<1>13. ASSUME NEW t \in Tools, \E i \in DOMAIN order : order[i] = t
       PROVE  Cardinality({i \in DOMAIN shown' :
                 shown'[i].tool = t /\ shown'[i].kind = "tool"}) = 1
  <2> DEFINE places == {i \in DOMAIN shown' : shown'[i].tool = t /\ shown'[i].kind = "tool"}
  <2>1. slots[t].pos # 0
    BY <1>2, <1>13 DEF Ordered
  <2>2. slots[t].pos \in places
    BY <1>2, <1>7, <1>8, <2>1 DEF Placed
  <2>3. \A i \in places : i = slots[t].pos
    BY <1>2, <1>7, <1>8 DEF Placed
  <2>4. places = {slots[t].pos}
    BY <2>2, <2>3
  <2> QED
    BY <2>4, FS_Singleton
<1>14. NothingLost'
  BY <1>2, <1>10, <1>13 DEF NothingLost, AddedUp
<1> QED
  BY <1>11, <1>12, <1>14

(* An answer that has not begun.                                           *)
LEMMA FreshAnswer ==
  ASSUME Unanswered', count' = 0, ProtocolAssumption
  PROVE  Streaming' /\ Fits(MaxDeltas)' /\ BlocksClosed' /\ NothingLost'
<1>1. /\ slots' = [t \in Tools |-> NewSlot] /\ order' = <<>> /\ open' = "none"
      /\ shown' = <<>> /\ sent' = [text |-> 0, thinking |-> 0]
  BY DEF Unanswered
<1>2. \A t \in Tools : slots'[t].pos = 0 /\ slots'[t].args = 0 /\ slots'[t].known = FALSE
  BY <1>1 DEF NewSlot
<1>3. \A kind, tool : Fragments(shown', kind, tool) = 0
  BY <1>1, FragmentsNone
<1>4. DOMAIN shown' = {} /\ DOMAIN order' = {} /\ Len(shown') = 0
  BY <1>1
<1>5. ASSUME NEW n \in Nat PROVE Fits(n)'
  BY <1>1 DEF Fits, SlotsUpTo, NewSlot
<1>6. Typed(count)'
  BY <1>1, <1>4, <1>5 DEF Typed, Fits
<1>7. Placed' /\ Ordered'
  BY <1>2, <1>4 DEF Placed, Ordered
<1>8. AddedUp'
  BY <1>1, <1>2, <1>3 DEF AddedUp
<1>9. OpenIsLast' /\ ItemsOpen'
  <2>1. MessageAt' = {}
    BY <1>4 DEF MessageAt
  <2> QED
    BY <1>1, <1>4, <2>1 DEF OpenIsLast, ItemsOpen
<1>10. BlocksClosed' /\ NothingLost'
  BY <1>1, <1>2, <1>3, <1>4 DEF BlocksClosed, NothingLost
<1>11. Fits(MaxDeltas)'
  BY <1>5 DEF ProtocolAssumption
<1> QED
  BY <1>6, <1>7, <1>8, <1>9, <1>10, <1>11 DEF Streaming

-----------------------------------------------------------------------------
(* The theorems of the converter *)

LEMMA MessagesTyped ==
  ASSUME messages \in Seq(Roles), ConvertItem
  PROVE  messages' \in Seq(Roles)
<1>1. CASE proto = "responses" /\ \E item \in Items : messages' = messages \o ItemToMessages(item)
  <2>1. PICK item \in Items : messages' = messages \o ItemToMessages(item)
    BY <1>1
  <2>2. ItemToMessages(item) \in Seq(Roles)
    <3>1. ItemToMessages(item) \in
             {<<"user">>, <<"assistant">>, <<>>, <<"tool">>, <<"call">>, <<"idless">>}
      BY DEF ItemToMessages, Items
    <3>2. <<>> \in Seq(Roles) /\ \A role \in Roles : <<role>> \in Seq(Roles)
      OBVIOUS
    <3>3. {"user", "assistant", "tool", "call", "idless"} \subseteq Roles
      BY DEF Roles
    <3> QED
      BY <3>1, <3>2, <3>3
  <2> QED
    BY <2>1, <2>2
<1>2. CASE \E role \in {"user", "assistant"}, text \in Texts, calls \in BOOLEAN, results \in 0..2 :
              messages' = messages \o BlocksToMessages(role, text, calls, results)
  <2>1. PICK role \in {"user", "assistant"}, text \in Texts, calls \in BOOLEAN, results \in 0..2 :
              messages' = messages \o BlocksToMessages(role, text, calls, results)
    BY <1>2
  <2>2. BlocksToMessages(role, text, calls, results) \in Seq(Roles)
    <3>1. [i \in 1..results |-> "tool"] \in Seq(Roles)
      BY DEF Roles
    <3>2. Assistant(text, calls) \in Roles
      BY DEF Assistant, Roles, Texts
    <3>3. <<Assistant(text, calls)>> \in Seq(Roles) /\ <<"user">> \in Seq(Roles)
          /\ <<>> \in Seq(Roles)
      BY <3>2 DEF Roles
    <3> QED
      BY <3>1, <3>3 DEF BlocksToMessages
  <2> QED
    BY <2>1, <2>2
<1> QED
  BY <1>1, <1>2 DEF ConvertItem

(* Every step of a turn keeps the invariant.                               *)
LEMMA TurnKept ==
  ASSUME ProtocolAssumption, TurnInvariant, [ProtocolsNext]_protoVars
  PROVE  TurnInvariant'
<1>1. /\ TurnBase /\ MaxItems \in Nat /\ MaxDeltas \in Nat
      /\ phase = "request" => Unanswered
      /\ Sensible /\ phase = "stream" => Streaming
      /\ Sensible /\ phase = "done" => Fits(MaxDeltas) /\ BlocksClosed /\ NothingLost
  BY DEF TurnInvariant, ProtocolAssumption
<1>2. CASE ConvertItem
  <2>1. messages' \in Seq(Roles)
    BY <1>1, <1>2, MessagesTyped DEF TurnBase
  <2>2. /\ phase = "request" /\ phase' = "request" /\ proto' = proto
        /\ count < MaxItems /\ count' = count + 1
        /\ UNCHANGED <<slots, order, open, shown, sent, finish>>
    BY <1>2 DEF ConvertItem, answer
  <2>3. TurnBase'
    BY <1>1, <2>1, <2>2 DEF TurnBase
  <2>4. Unanswered'
    BY <1>1, <2>2 DEF Unanswered
  <2> QED
    BY <2>2, <2>3, <2>4 DEF TurnInvariant
<1>3. CASE SendRequest
  <2>1. /\ phase = "request" /\ proto' = proto /\ count' = 0
        /\ phase' \in {"stream", "done"}
        /\ UNCHANGED <<slots, order, open, shown, sent, finish>>
    BY <1>3 DEF SendRequest, answer
  <2>2. messages' \in Seq(Roles)
    <3>1. messages' = messages \/ messages' = <<"user">>
      BY <1>3 DEF SendRequest
    <3>2. <<"user">> \in Seq(Roles)
      BY DEF Roles
    <3> QED
      BY <1>1, <3>1, <3>2 DEF TurnBase
  <2>3. TurnBase'
    BY <1>1, <2>1, <2>2 DEF TurnBase
  <2>4. Unanswered'
    BY <1>1, <2>1 DEF Unanswered
  <2>5. Streaming' /\ Fits(MaxDeltas)' /\ BlocksClosed' /\ NothingLost'
    BY <2>1, <2>4, FreshAnswer
  <2> QED
    BY <2>1, <2>3, <2>5 DEF TurnInvariant
<1>4. CASE Delta
  <2>1. /\ phase = "stream" /\ phase' = "stream" /\ proto' = proto
        /\ count < MaxDeltas /\ count' = count + 1 /\ count \in Nat
        /\ UNCHANGED <<messages, finish>>
    BY <1>1, <1>4 DEF Delta, TurnBase
  <2>2. TurnBase'
    BY <1>1, <2>1 DEF TurnBase
  <2>3. ASSUME Sensible PROVE Streaming'
    <3>1. Streaming
      BY <1>1, <2>1, <2>3
    <3>2. /\ sent \in [text: 0..count, thinking: 0..count]
          /\ sent.text \in Nat /\ sent.thinking \in Nat
      BY <3>1 DEF Streaming, Typed, Fits
    <3>3. CASE /\ sent' = [sent EXCEPT !.text = @ + 1]
               /\ \/ proto = "anthropic" /\ BlockDelta("text")
                  \/ proto = "responses" /\ ItemText
      <4>1. /\ sent' \in [text: 0..(count + 1), thinking: 0..(count + 1)]
            /\ sent'.text = sent.text + 1 /\ sent'.thinking = sent.thinking
        BY <2>1, <3>2, <3>3
      <4>2. CASE proto = "anthropic" /\ BlockDelta("text")
        <5>1. sent'.text = sent.text + (IF "text" = "text" THEN 1 ELSE 0)
              /\ sent'.thinking = sent.thinking + (IF "text" = "thinking" THEN 1 ELSE 0)
          BY <3>2, <4>1
        <5> QED
          BY <2>1, <3>1, <4>1, <4>2, <5>1, BlockDeltaKeeps
      <4>3. CASE proto = "responses" /\ ItemText
        BY <2>1, <3>1, <4>1, <4>3, ItemTextKeeps
      <4> QED
        BY <3>3, <4>2, <4>3
    <3>4. CASE /\ sent' = [sent EXCEPT !.thinking = @ + 1]
               /\ \/ proto = "anthropic" /\ BlockDelta("thinking")
                  \/ proto = "responses" /\ UNCHANGED <<shown, open, slots, order>>
      <4>1. /\ sent' \in [text: 0..(count + 1), thinking: 0..(count + 1)]
            /\ sent'.thinking = sent.thinking + 1 /\ sent'.text = sent.text
        BY <2>1, <3>2, <3>4
      <4>2. CASE proto = "anthropic" /\ BlockDelta("thinking")
        <5>1. sent'.text = sent.text + (IF "thinking" = "text" THEN 1 ELSE 0)
              /\ sent'.thinking = sent.thinking + (IF "thinking" = "thinking" THEN 1 ELSE 0)
          BY <3>2, <4>1
        <5> QED
          BY <2>1, <3>1, <4>1, <4>2, <5>1, BlockDeltaKeeps
      <4>3. CASE proto = "responses" /\ UNCHANGED <<shown, open, slots, order>>
        <5>1. Placed' /\ Ordered' /\ AddedUp' /\ ItemsOpen'
          BY <2>1, <3>1, <4>1, <4>3
             DEF Streaming, Placed, Ordered, AddedUp, ItemsOpen, MessageAt
        <5>2. Typed(count)'
          <6>1. SlotsUpTo(count) \subseteq SlotsUpTo(count + 1)
                /\ BlocksUpTo(count) \subseteq BlocksUpTo(count + 1)
            BY <2>1, BoundsGrow
          <6>2. slots \in [Tools -> SlotsUpTo(count + 1)] /\ shown \in Seq(BlocksUpTo(count + 1))
                /\ Len(shown) <= count + 1 /\ order \in Seq(Tools) /\ open \in Kinds \cup {"none"}
            BY <2>1, <3>1, <6>1 DEF Streaming, Typed, Fits
          <6> QED
            BY <2>1, <4>1, <4>3, <6>2 DEF Typed, Fits
        <5> QED
          BY <2>1, <4>3, <5>1, <5>2 DEF Streaming
      <4> QED
        BY <3>4, <4>2, <4>3
    <3>5. CASE /\ \E t \in Tools, name, args \in BOOLEAN :
                     /\ Nameless \/ name = ~slots[t].known
                     /\ \/ proto = "anthropic" /\ ToolBlockDelta(t, name, args)
                        \/ proto = "responses" /\ ItemTool(t, name, args)
               /\ UNCHANGED sent
      <4>1. PICK t \in Tools, name \in BOOLEAN, args \in BOOLEAN :
                     /\ Nameless \/ name = ~slots[t].known
                     /\ \/ proto = "anthropic" /\ ToolBlockDelta(t, name, args)
                        \/ proto = "responses" /\ ItemTool(t, name, args)
        BY <3>5
      <4>2. CASE proto = "anthropic" /\ ToolBlockDelta(t, name, args)
        BY <2>1, <3>1, <3>5, <4>2, ToolBlockDeltaKeeps
      <4>3. CASE proto = "responses" /\ ItemTool(t, name, args)
        <5>1. name = ~slots[t].known
          BY <2>3, <4>1, <4>3 DEF Sensible
        <5> QED
          BY <2>1, <3>1, <3>5, <4>3, <5>1, ItemToolKeeps
      <4> QED
        BY <4>1, <4>2, <4>3
    <3> QED
      BY <1>4, <3>3, <3>4, <3>5 DEF Delta
  <2>4. Sensible' => Sensible
    BY <2>1 DEF Sensible
  <2> QED
    BY <2>1, <2>2, <2>3, <2>4 DEF TurnInvariant
<1>5. CASE Finish
  <2>1. /\ phase = "stream" /\ finish' \in {"none", "stop", "length", "tool_calls"}
        /\ UNCHANGED <<proto, phase, count, messages, slots, order, open, shown, sent>>
    BY <1>5 DEF Finish
  <2>2. TurnBase'
    BY <1>1, <2>1 DEF TurnBase
  <2>3. Streaming => Streaming'
    BY <2>1 DEF Streaming, Typed, Fits, Placed, Ordered, AddedUp, OpenIsLast, ItemsOpen,
                MessageAt, Last
  <2>4. Sensible' => Sensible
    BY <2>1 DEF Sensible
  <2> QED
    BY <1>1, <2>1, <2>2, <2>3, <2>4 DEF TurnInvariant
<1>6. CASE StreamEnd
  <2>1. /\ phase = "stream" /\ phase' = "done" /\ open' = "none"
        /\ IF proto = "anthropic" THEN BlocksEnd ELSE ItemsEnd
        /\ UNCHANGED <<proto, count, messages, slots, order, sent, finish>>
    BY <1>6 DEF StreamEnd
  <2>2. TurnBase' /\ count \in 0..MaxDeltas
    BY <1>1, <2>1 DEF TurnBase
  <2>3. ASSUME Sensible PROVE Fits(MaxDeltas)' /\ BlocksClosed' /\ NothingLost'
    <3>1. Streaming
      BY <1>1, <2>1, <2>3
    <3>2. CASE proto = "anthropic"
      BY <2>1, <2>2, <3>1, <3>2, BlocksEndSound
    <3>3. CASE proto = "responses"
      BY <2>1, <2>2, <3>1, <3>3, ItemsEndSound
    <3> QED
      BY <1>1, <3>2, <3>3 DEF TurnBase
  <2>4. Sensible' => Sensible
    BY <2>1 DEF Sensible
  <2> QED
    BY <2>1, <2>2, <2>3, <2>4 DEF TurnInvariant
<1>7. CASE UNCHANGED protoVars
  <2>1. UNCHANGED <<proto, phase, count, messages, slots, order, open, shown, sent, finish>>
    BY <1>7 DEF protoVars
  <2>2. TurnBase'
    BY <1>1, <2>1 DEF TurnBase
  <2>3. Unanswered => Unanswered'
    BY <2>1 DEF Unanswered
  <2>4. Streaming => Streaming'
    BY <2>1 DEF Streaming, Typed, Fits, Placed, Ordered, AddedUp, OpenIsLast, ItemsOpen,
                MessageAt, Last
  <2>5. Fits(MaxDeltas) /\ BlocksClosed /\ NothingLost
        => Fits(MaxDeltas)' /\ BlocksClosed' /\ NothingLost'
    <3>1. Fits(MaxDeltas) => Fits(MaxDeltas)'
      BY <2>1 DEF Fits
    <3>2. BlocksClosed => BlocksClosed'
      BY <2>1 DEF BlocksClosed, Last
    <3>3. NothingLost => NothingLost'
      BY <2>1 DEF NothingLost
    <3> QED
      BY <3>1, <3>2, <3>3
  <2>6. Sensible' => Sensible
    BY <2>1 DEF Sensible
  <2> QED
    BY <1>1, <2>1, <2>2, <2>3, <2>4, <2>5, <2>6 DEF TurnInvariant
<1> QED
  BY <1>2, <1>3, <1>4, <1>5, <1>6, <1>7 DEF ProtocolsNext

(* The invariant holds of every turn of either protocol.                   *)
THEOREM TurnInvariantHolds == ProtocolsSpec => []TurnInvariant
<1>1. ProtocolsInit => TurnInvariant
  <2> SUFFICES ASSUME ProtocolsInit PROVE TurnInvariant
    OBVIOUS
  <2>1. messages \in Seq(Roles) /\ MaxItems \in Nat
    BY ProtocolAssumption DEF ProtocolsInit, ProtocolAssumption
  <2> QED
    BY <2>1 DEF ProtocolsInit, TurnInvariant, TurnBase, Unanswered
<1>2. TurnInvariant /\ [ProtocolsNext]_protoVars => TurnInvariant'
  BY ProtocolAssumption, TurnKept
<1> QED
  BY <1>1, <1>2, PTL DEF ProtocolsSpec

(* In every state of a turn the client has been shown a proper sequence of *)
(* blocks: at most the last one open, and at the end each one closed       *)
(* exactly once.  For /v1/messages however a call begins, for              *)
(* /v1/responses when calls begin with their name (both stream             *)
(* converters).                                                            *)
THEOREM ProtocolsStaySound == ProtocolsSpec => [](Sensible => ProtocolsSound)
<1>1. TurnInvariant => (Sensible => ProtocolsSound)
  <2> SUFFICES ASSUME TurnInvariant, Sensible PROVE ProtocolsSound
    OBVIOUS
  <2>1. TurnBase /\ MaxDeltas \in Nat
    BY ProtocolAssumption DEF TurnInvariant, ProtocolAssumption
  <2>2. Fits(MaxDeltas)
    <3>1. CASE phase = "request"
      <4>1. Unanswered
        BY <3>1 DEF TurnInvariant
      <4> QED
        BY <2>1, <4>1 DEF Unanswered, Fits, SlotsUpTo, NewSlot
    <3>2. CASE phase = "stream"
      <4>1. Fits(count) /\ count \in 0..MaxDeltas
        BY <2>1, <3>2 DEF TurnInvariant, TurnBase, Streaming, Typed
      <4>2. BlocksUpTo(count) \subseteq BlocksUpTo(MaxDeltas)
            /\ SlotsUpTo(count) \subseteq SlotsUpTo(MaxDeltas) /\ 0..count \subseteq 0..MaxDeltas
        BY <2>1, <4>1, BoundsFit
      <4> QED
        BY <4>1, <4>2 DEF Fits
    <3>3. CASE phase = "done"
      BY <3>3 DEF TurnInvariant
    <3> QED
      BY <2>1, <3>1, <3>2, <3>3 DEF TurnBase
  <2>3. ProtocolsTypeOK
    <3>1. SlotsUpTo(MaxDeltas) = Slot
      BY DEF SlotsUpTo, Slot, Frag
    <3>2. \A i \in DOMAIN shown : shown[i] \in BlocksUpTo(MaxDeltas)
      BY <2>2 DEF Fits
    <3>3. \A i \in DOMAIN shown :
             /\ shown[i].kind \in Kinds
             /\ shown[i].tool \in Tools \cup {0}
             /\ shown[i].name \in Frag /\ shown[i].args \in Frag
             /\ shown[i].closed \in 0..1
      BY <3>2 DEF BlocksUpTo, Frag
    <3> QED
      BY <2>1, <2>2, <3>1, <3>3 DEF ProtocolsTypeOK, TurnBase, Fits, Frag
  <2>4. BlocksClosed
    <3>1. CASE phase = "request"
      <4>1. shown = <<>> /\ DOMAIN shown = {}
        BY <3>1 DEF TurnInvariant, Unanswered
      <4> QED
        BY <3>1, <4>1 DEF BlocksClosed
    <3>2. CASE phase = "stream"
      BY <3>2 DEF TurnInvariant, Streaming, OpenIsLast, BlocksClosed
    <3>3. CASE phase = "done"
      BY <3>3 DEF TurnInvariant
    <3> QED
      BY <2>1, <3>1, <3>2, <3>3 DEF TurnBase
  <2> QED
    BY <2>3, <2>4 DEF ProtocolsSound
<1> QED
  BY <1>1, TurnInvariantHolds, PTL

(* Whatever the deltas and their order, at the end the client has put      *)
(* together the whole text and every argument of every call, each call in  *)
(* one block (both stream converters).                                     *)
THEOREM NothingGetsLost == ProtocolsSpec => [](Sensible => NothingLost)
<1>1. TurnInvariant => (Sensible => NothingLost)
  BY DEF TurnInvariant, NothingLost
<1> QED
  BY <1>1, TurnInvariantHolds, PTL

(* Every request that goes upstream has a message and no assistant message *)
(* made of a turn without text and calls, for any number and order of      *)
(* items, blank text blocks included (to_chat_payload,                     *)
(* _blocks_to_messages).                                                   *)
THEOREM RequestStaysUsable == ProtocolsSpec => []RequestUsable
<1> DEFINE Usable == /\ messages \in Seq(Roles \ {"silent"})
                     /\ phase = "stream" => messages # <<>>
<1>1. ProtocolsInit => Usable
  BY DEF ProtocolsInit
<1>2. Usable /\ [ProtocolsNext]_protoVars => Usable'
  <2> SUFFICES ASSUME Usable, [ProtocolsNext]_protoVars PROVE Usable'
    OBVIOUS
  <2> DEFINE Full == Roles \ {"silent"}
  <2>1. <<>> \in Seq(Full) /\ \A role \in Full : <<role>> \in Seq(Full)
    OBVIOUS
  <2>2. {"user", "assistant", "blank", "tool", "call", "idless"} \subseteq Full
    BY DEF Roles
  <2>3. CASE ConvertItem
    <3>1. CASE \E item \in Items : messages' = messages \o ItemToMessages(item)
      <4>1. PICK item \in Items : messages' = messages \o ItemToMessages(item)
        BY <3>1
      <4>2. ItemToMessages(item) \in
               {<<"user">>, <<"assistant">>, <<>>, <<"tool">>, <<"call">>, <<"idless">>}
        BY DEF ItemToMessages, Items
      <4>3. ItemToMessages(item) \in Seq(Full)
        <5> HIDE DEF Full
        <5> QED
          BY <2>1, <2>2, <4>2
      <4>4. messages' \in Seq(Full)
        BY <4>1, <4>3
      <4> QED
        BY <2>3, <4>4 DEF ConvertItem
    <3>2. CASE \E role \in {"user", "assistant"}, text \in Texts, calls \in BOOLEAN,
                  results \in 0..2 :
                  messages' = messages \o BlocksToMessages(role, text, calls, results)
      <4>1. PICK role \in {"user", "assistant"}, text \in Texts, calls \in BOOLEAN,
                  results \in 0..2 :
                  messages' = messages \o BlocksToMessages(role, text, calls, results)
        BY <3>2
      <4> DEFINE own == IF role = "assistant"
                        THEN IF text # "absent" \/ calls THEN <<Assistant(text, calls)>>
                             ELSE <<>>
                        ELSE IF text # "absent" THEN <<"user">> ELSE <<>>
                 last == [i \in 1..results |-> "tool"]
      <4>2. text \in {"absent", "blank", "some"} /\ calls \in BOOLEAN
        BY DEF Texts
      <4>3. text # "absent" \/ calls => Assistant(text, calls) \in Full
        <5>1. text # "absent" \/ calls =>
                Assistant(text, calls) \in {"call", "assistant", "blank"}
          BY <4>2 DEF Assistant
        <5> HIDE DEF Full
        <5> QED
          BY <5>1, <2>2
      <4>4. own \in Seq(Full)
        <5> HIDE DEF Full
        <5> QED
          BY <2>1, <2>2, <4>3
      <4>5. last \in Seq(Full)
        BY <2>2
      <4>6. BlocksToMessages(role, text, calls, results) = own \o last
        BY DEF BlocksToMessages
      <4>7. messages' \in Seq(Full)
        <5> HIDE DEF own, last
        <5> QED
          BY <4>1, <4>4, <4>5, <4>6
      <4> QED
        BY <2>3, <4>7 DEF ConvertItem
    <3> QED
      BY <2>3, <3>1, <3>2 DEF ConvertItem
  <2>4. CASE SendRequest
    <3>1. messages' = messages \/ messages' = <<"user">>
      BY <2>4 DEF SendRequest
    <3>2. messages' \in Seq(Full)
      <4> HIDE DEF Full
      <4> QED
        BY <2>1, <2>2, <3>1 DEF Full
    <3>3. phase' = "stream" => messages' # <<>>
      BY <2>4 DEF SendRequest
    <3> QED
      BY <3>2, <3>3
  <2>5. CASE Delta \/ Finish \/ StreamEnd \/ UNCHANGED protoVars
    <3>1. messages' = messages /\ (phase' = "stream" => phase = "stream")
      BY <2>5 DEF Delta, Finish, StreamEnd, protoVars
    <3> QED
      BY <3>1
  <2> QED
    BY <2>3, <2>4, <2>5 DEF ProtocolsNext
<1>3. Usable => RequestUsable
  BY DEF RequestUsable
<1> QED
  BY <1>1, <1>2, <1>3, PTL DEF ProtocolsSpec

=============================================================================
